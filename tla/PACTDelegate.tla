----------------------------- MODULE PACTDelegate ----------------------------
(***************************************************************************)
(* The governor (contracts/governor/PACTDelegate.sol) together with its      *)
(* timelock and the votes it weighs: proposals are made by holders of enough *)
(* votes, voted on with the votes held when voting started, queued in the    *)
(* timelock when they succeed, and executed after its delay.  Two clocks run *)
(* side by side: blocks for the vote, timestamps for the timelock.           *)
(*                                                                           *)
(* The votes come from VoteLedger, which PACT and SPACT implement together   *)
(* (module Staking); the timelock is the module PACTTimelock.                *)
(***************************************************************************)
EXTENDS PACTTimelock, VoteLedger

CONSTANTS
  ProposalMaxOperations,  \* PROPOSAL_MAX_OPERATIONS
  Creator,                \* proposer of the dummy proposal: the governor itself
  MaxProposals,           \* bound of the model: the last proposal id
  ChangeBlocks            \* bound of the model: the blocks in which votes move

ASSUME DelegateAssumption ==
  /\ ProposalMaxOperations \in Nat
  /\ IsFiniteSet(Voters) /\ Creator \notin Voters
  /\ MaxProposals \in Nat
  /\ ChangeBlocks \subseteq Nat
  /\ Tokens = {"PACT", "SPACT"}
  \* the requires of initialize
  /\ InitialConfig["votingPeriod"] \in MinVotingPeriod..MaxVotingPeriod
  /\ InitialConfig["votingDelay"] \in MinVotingDelay..MaxVotingDelay
  /\ InitialConfig["proposalThreshold"] \in MinThreshold..MaxThreshold
  /\ InitialConfig["quorumVotes"] >= InitialConfig["proposalThreshold"]

VARIABLES
  proposals,         \* proposals, with the calls of each
  proposalCount,     \* the next id; proposal 0 is a dummy
  receipts,          \* proposalReceipts
  latestProposalIds  \* the latest proposal of each voter, 0 if none

delegateVars == <<proposals, proposalCount, receipts, latestProposalIds>>
vars == <<timelockVars, ledgerVars, delegateVars>>

Ids == 0..MaxProposals
Created == 1..(proposalCount - 1)

Against == 0
For == 1
Abstain == 2

Proposal ==
  [proposer : Voters \cup {Creator}, calls : Seq(Calls), eta : Nat, startBlock : Nat,
   endBlock : Nat, forVotes : Nat, againstVotes : Nat, abstainVotes : Nat,
   canceled : BOOLEAN, executed : BOOLEAN]
Receipt == [hasVoted : BOOLEAN, support : {Against, For, Abstain}, votes : Nat]

NewProposal(proposer, calls, startBlock, endBlock) ==
  [proposer |-> proposer, calls |-> calls, eta |-> 0, startBlock |-> startBlock,
   endBlock |-> endBlock, forVotes |-> 0, againstVotes |-> 0, abstainVotes |-> 0,
   canceled |-> FALSE, executed |-> FALSE]
NoReceipt == [hasVoted |-> FALSE, support |-> Against, votes |-> 0]

TypeOK ==
  /\ TimelockTypeOK
  /\ LedgerTypeOK
  /\ proposals \in [Ids -> Proposal]
  /\ proposalCount \in 1..(MaxProposals + 1)
  /\ receipts \in [Ids -> [Voters -> Receipt]]
  /\ latestProposalIds \in [Voters -> Ids]

\* After initialize: the dummy proposal 0 is canceled.
Init ==
  /\ TimelockInit
  /\ LedgerInit
  /\ proposals = [p \in Ids |-> [NewProposal(Creator, << >>, 0, 0) EXCEPT !.canceled = (p = 0)]]
  /\ proposalCount = 1
  /\ receipts = [p \in Ids |-> [v \in Voters |-> NoReceipt]]
  /\ latestProposalIds = [v \in Voters |-> 0]

(***************************************************************************)
(* What the handlers read.                                                  *)
(***************************************************************************)

\* getPriorVotes: PACT, and SPACT while it is the release token.
PriorVotes(voter, blockNumber) ==
  PriorVotesOf("PACT", voter, blockNumber)
    + IF config["releaseToken"] = NoToken THEN 0
      ELSE PriorVotesOf("SPACT", voter, blockNumber)

\* state(): the quorum is the one in force now, not at the time of the vote.
Defeated(p) ==
  \/ p.forVotes <= p.againstVotes
  \/ p.forVotes < config["quorumVotes"]

\* Mutant: what was queued never expires.
StateNeverExpires(id) ==
  LET p == proposals[id]
  IN  IF p.canceled THEN "Canceled"
      ELSE IF block <= p.startBlock THEN "Pending"
      ELSE IF block <= p.endBlock THEN "Active"
      ELSE IF Defeated(p) THEN "Defeated"
      ELSE IF p.eta = 0 THEN "Succeeded"
      ELSE IF p.executed THEN "Executed"
      ELSE "Queued"

State(id) ==
  LET p == proposals[id]
  IN  IF p.canceled THEN "Canceled"
      ELSE IF block <= p.startBlock THEN "Pending"
      ELSE IF block <= p.endBlock THEN "Active"
      ELSE IF Defeated(p) THEN "Defeated"
      ELSE IF p.eta = 0 THEN "Succeeded"
      ELSE IF p.executed THEN "Executed"
      ELSE IF timestamp >= p.eta + GracePeriod THEN "Expired"
      ELSE "Queued"

(***************************************************************************)
(* The handlers.                                                            *)
(***************************************************************************)
\* Mutant: a pending proposal is overlooked.
ProposeWhilePending(proposer, calls) ==
  /\ proposalCount \in Ids
  /\ PriorVotes(proposer, block - 1) > config["proposalThreshold"]
  /\ Len(calls) \in 1..ProposalMaxOperations
  /\ latestProposalIds[proposer] # 0 => State(latestProposalIds[proposer]) # "Active"
  /\ LET startBlock == block + config["votingDelay"]
         endBlock == startBlock + config["votingPeriod"]
     IN  proposals' = [proposals EXCEPT ![proposalCount] =
                         NewProposal(proposer, calls, startBlock, endBlock)]
  /\ proposalCount' = proposalCount + 1
  /\ latestProposalIds' = [latestProposalIds EXCEPT ![proposer] = proposalCount]
  /\ UNCHANGED <<timelockVars, ledgerVars, receipts>>
Propose(proposer, calls) ==
  /\ proposalCount \in Ids
  /\ PriorVotes(proposer, block - 1) > config["proposalThreshold"]
  /\ Len(calls) \in 1..ProposalMaxOperations
  /\ latestProposalIds[proposer] # 0 =>
       State(latestProposalIds[proposer]) \notin {"Active", "Pending"}
  /\ LET startBlock == block + config["votingDelay"]
         endBlock == startBlock + config["votingPeriod"]
     IN  proposals' = [proposals EXCEPT ![proposalCount] =
                         NewProposal(proposer, calls, startBlock, endBlock)]
  /\ proposalCount' = proposalCount + 1
  /\ latestProposalIds' = [latestProposalIds EXCEPT ![proposer] = proposalCount]
  /\ UNCHANGED <<timelockVars, ledgerVars, receipts>>

\* Mutant: the votes are those of the moment.
CastVoteCurrent(voter, id, support) ==
  /\ State(id) = "Active"
  /\ ~receipts[id][voter].hasVoted
  /\ LET n == votes["PACT"][voter] + votes["SPACT"][voter]
     IN  /\ proposals' = [proposals EXCEPT
              ![id].againstVotes = IF support = Against THEN @ + n ELSE @,
              ![id].forVotes = IF support = For THEN @ + n ELSE @,
              ![id].abstainVotes = IF support = Abstain THEN @ + n ELSE @]
         /\ receipts' = [receipts EXCEPT
              ![id][voter] = [hasVoted |-> TRUE, support |-> support, votes |-> n]]
  /\ UNCHANGED <<timelockVars, ledgerVars, proposalCount, latestProposalIds>>

\* castVote, castVoteWithReason and castVoteBySig all end here.  The votes are
\* those the voter held when voting started.
CastVote(voter, id, support) ==
  /\ State(id) = "Active"
  /\ ~receipts[id][voter].hasVoted
  /\ LET n == PriorVotes(voter, proposals[id].startBlock)
     IN  /\ proposals' = [proposals EXCEPT
              ![id].againstVotes = IF support = Against THEN @ + n ELSE @,
              ![id].forVotes = IF support = For THEN @ + n ELSE @,
              ![id].abstainVotes = IF support = Abstain THEN @ + n ELSE @]
         /\ receipts' = [receipts EXCEPT
              ![id][voter] = [hasVoted |-> TRUE, support |-> support, votes |-> n]]
  /\ UNCHANGED <<timelockVars, ledgerVars, proposalCount, latestProposalIds>>

\* Mutant: the eta is the present, and the timelock is not asked.
QueueAtOnce(id) ==
  /\ State(id) = "Succeeded"
  /\ queued' = queued \cup Entries(proposals[id].calls, timestamp)
  /\ proposals' = [proposals EXCEPT ![id].eta = timestamp]
  /\ UNCHANGED <<timestamp, admin, config, announced, performed>>
  /\ UNCHANGED <<ledgerVars, proposalCount, receipts, latestProposalIds>>

\* queueOrRevertInternal refuses a call that is already queued for this eta, so
\* also the second of two equal calls of one proposal.
Queue(id) ==
  LET calls == proposals[id].calls
      eta == timestamp + config["delay"]
  IN  /\ State(id) = "Succeeded"
      /\ Distinct(calls) /\ Entries(calls, eta) \cap queued = {}
      /\ QueueTransactions(TheDelegate, calls, eta)
      /\ proposals' = [proposals EXCEPT ![id].eta = eta]
      /\ UNCHANGED <<ledgerVars, proposalCount, receipts, latestProposalIds>>

Execute(id) ==
  /\ State(id) = "Queued"
  /\ proposals' = [proposals EXCEPT ![id].executed = TRUE]
  /\ ExecuteTransactions(TheDelegate, proposals[id].calls, proposals[id].eta)
  /\ UNCHANGED <<ledgerVars, proposalCount, receipts, latestProposalIds>>

\* Mutants: an executed proposal can be canceled; the timelock is not told.
CancelExecuted(caller, id) ==
  /\ \/ caller = proposals[id].proposer
     \/ PriorVotes(proposals[id].proposer, block - 1) < config["proposalThreshold"]
  /\ proposals' = [proposals EXCEPT ![id].canceled = TRUE]
  /\ CancelTransactions(TheDelegate, proposals[id].calls, proposals[id].eta)
  /\ UNCHANGED <<ledgerVars, proposalCount, receipts, latestProposalIds>>
CancelKeepsQueue(caller, id) ==
  /\ State(id) # "Executed"
  /\ \/ caller = proposals[id].proposer
     \/ PriorVotes(proposals[id].proposer, block - 1) < config["proposalThreshold"]
  /\ proposals' = [proposals EXCEPT ![id].canceled = TRUE]
  /\ UNCHANGED <<timelockVars, ledgerVars, proposalCount, receipts, latestProposalIds>>

\* The proposer may always cancel, anyone may once the proposer holds fewer
\* votes than the threshold.  The calls are canceled at the proposal's eta,
\* which is 0 when it was never queued.
Cancel(caller, id) ==
  /\ State(id) # "Executed"
  /\ \/ caller = proposals[id].proposer
     \/ PriorVotes(proposals[id].proposer, block - 1) < config["proposalThreshold"]
  /\ proposals' = [proposals EXCEPT ![id].canceled = TRUE]
  /\ CancelTransactions(TheDelegate, proposals[id].calls, proposals[id].eta)
  /\ UNCHANGED <<ledgerVars, proposalCount, receipts, latestProposalIds>>

(***************************************************************************)
(* Around the governor: votes move, blocks are produced, and a successor    *)
(* that was named pendingAdmin takes the timelock over.                     *)
(***************************************************************************)
MoveVotes ==
  /\ block \in ChangeBlocks
  /\ ChangeVotes
  /\ UNCHANGED <<timelockVars, delegateVars>>

ProduceBlock ==
  /\ NextBlock
  /\ TimePasses
  /\ UNCHANGED delegateVars

HandOverTimelock ==
  /\ AcceptAdmin(Successor)
  /\ UNCHANGED <<ledgerVars, delegateVars>>

\* Once it is the admin, the successor uses the timelock, which still owns the
\* governor, as it likes.
SuccessorUsesTimelock(calls, eta) ==
  /\ \/ QueueTransactions(Successor, calls, eta)
     \/ CancelTransactions(Successor, calls, eta)
     \/ ExecuteTransactions(Successor, calls, eta)
  /\ UNCHANGED <<ledgerVars, delegateVars>>

Next ==
  \/ \E v \in Voters, calls \in CallLists : Propose(v, calls)
  \/ \E v \in Voters, id \in Created, s \in {Against, For, Abstain} : CastVote(v, id, s)
  \/ \E id \in Created : Queue(id) \/ Execute(id)
  \/ \E v \in Voters, id \in Created : Cancel(v, id)
  \/ MoveVotes
  \/ ProduceBlock
  \/ HandOverTimelock
  \/ \E calls \in CallLists, eta \in Etas : SuccessorUsesTimelock(calls, eta)

Spec == Init /\ [][Next]_vars

\* Blocks keep coming.  Nobody has to propose, vote, queue or execute.
FairSpec == Spec /\ WF_vars(ProduceBlock)

(***************************************************************************)
(* Properties.                                                              *)
(***************************************************************************)

\* "One live proposal per proposer": a proposer never has two proposals that
\* are pending or active, whatever was canceled, defeated or executed between.
Live(id) == State(id) \in {"Pending", "Active"}
OneLiveProposal ==
  \A p, q \in Created :
     p # q /\ proposals[p].proposer = proposals[q].proposer => ~(Live(p) /\ Live(q))

\* What the receipts of the voters add up to.
TallyOf(id, support) ==
  SumFunction([v \in {w \in Voters : receipts[id][w].hasVoted
                                      /\ receipts[id][w].support = support} |->
                 receipts[id][v].votes])

\* No PACT votes twice: the tallies of a proposal are the receipts of its voters
\* added up and, however votes move between accounts, between PACT and SPACT, and
\* whenever the release token is added or removed, never exceed the supply.
TalliesMatchReceipts ==
  \A p \in Ids :
     /\ proposals[p].againstVotes = TallyOf(p, Against)
     /\ proposals[p].forVotes = TallyOf(p, For)
     /\ proposals[p].abstainVotes = TallyOf(p, Abstain)
     /\ proposals[p].againstVotes + proposals[p].forVotes + proposals[p].abstainVotes <= Supply

\* A proposal only moves forward, and Executed and Canceled are final (a canceled
\* proposal can be canceled again), unless the quorum changes: state() compares old votes
\* with the new quorum, and whatever had passed, executed or not, is then defeated by a
\* higher quorum, and what was defeated has passed under a lower one.  Nothing else does
\* that, and proposals that are not voted on yet, or that were canceled, stay as they are.
Successors(s) ==
  CASE s = "Pending"   -> {"Active", "Canceled"}
    [] s = "Active"    -> {"Defeated", "Succeeded", "Canceled"}
    [] s = "Succeeded" -> {"Queued", "Canceled"}
    [] s = "Queued"    -> {"Executed", "Expired", "Canceled"}
    [] s = "Defeated"  -> {"Canceled"}
    [] s = "Expired"   -> {"Canceled"}
    [] OTHER           -> {}

MovesForward(id) == State(id)' \in {State(id)} \cup Successors(State(id))

Passed == {"Succeeded", "Queued", "Executed", "Expired"}
Reassessed(id) ==
  \/ config'["quorumVotes"] > config["quorumVotes"] /\ State(id) \in Passed /\ State(id)' = "Defeated"
  \/ config'["quorumVotes"] < config["quorumVotes"] /\ State(id) = "Defeated" /\ State(id)' \in Passed

LifecycleForward == [][\A id \in Created : MovesForward(id) \/ Reassessed(id)]_vars

\* While the governor is the timelock's admin, its settings and those of the
\* timelock (but for the pending admin that accepts) change only when a
\* proposal is executed that is past its vote, had more votes for than against
\* and the quorum of the moment, and was announced MINIMUM_DELAY before.
Approved(p) ==
  /\ block > p.endBlock
  /\ p.forVotes > p.againstVotes
  /\ p.forVotes >= config["quorumVotes"]
  /\ \A i \in 1..Len(p.calls) : \E a \in announced :
        a.call = p.calls[i] /\ a.eta = p.eta /\ timestamp >= a.at + MinDelay

SettingsChangeByProposal ==
  [][\A s \in Settings \ {"pendingAdmin"} : admin = TheDelegate /\ config'[s] # config[s] =>
       \E id \in Created :
          /\ ~proposals[id].executed /\ proposals'[id].executed
          /\ Approved(proposals[id])
          /\ \E i \in 1..Len(proposals[id].calls) :
                proposals[id].calls[i] = [setting |-> s, value |-> config'[s]]]_vars

\* Everything the timelock has queued, until it is handed over, belongs to a
\* proposal that was queued and is neither canceled nor executed.
QueuedCallsOwned ==
  admin = TheDelegate => \A q \in queued :
     \E id \in Created :
        /\ proposals[id].eta = q.eta
        /\ q.call \in {proposals[id].calls[i] : i \in 1..Len(proposals[id].calls)}
        /\ ~proposals[id].canceled /\ ~proposals[id].executed

\* To the timelock, everything the governor does is what an admin may do.
ImplementsTimelock == TimelockSpec

\* No proposal stays open: voting ends and decides it, and a queued one is executed,
\* canceled or expires, whether or not anybody does anything about it.
EveryProposalSettles ==
  \A id \in Ids :
    /\ Live(id) /\ proposals[id].endBlock < MaxBlock ~> ~Live(id)
    /\ State(id) = "Queued" /\ proposals[id].eta + GracePeriod <= MaxTime
         ~> State(id) # "Queued"

(***************************************************************************)
(* A statement of the comments, against the code.                           *)
(***************************************************************************)

\* execute: "Executes a queued proposal if eta has passed".  What a queued
\* proposal needs is that its calls are still queued in the timelock.
QueuedIsExecutable ==
  admin = TheDelegate =>
    \A id \in Created :
       State(id) = "Queued" => Entries(proposals[id].calls, proposals[id].eta) \subseteq queued
=============================================================================
