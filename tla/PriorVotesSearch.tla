--------------------------- MODULE PriorVotesSearch --------------------------
(***************************************************************************)
(* VotingPower.getPriorVotes, step by step: the three early returns and the *)
(* binary search over the checkpoints of one account.  The module shows     *)
(* that the search returns the votes the account had at the end of the      *)
(* queried block, for every increasing sequence of checkpoints.             *)
(***************************************************************************)
EXTENDS VotingPower

CONSTANTS
  Blocks,     \* the blocks a checkpoint may be from, and that may be asked for
  Histories   \* the checkpoint sequences an account may have

ASSUME BlocksAssumption == Blocks \subseteq Nat

\* What _writeCheckpoint maintains (CheckpointsOrdered).
ASSUME HistoriesAssumption ==
  \A s \in Histories : s \in Seq([fromBlock : Blocks, votes : Nat]) /\ Ordered(s)

VARIABLES
  cps,          \* checkpoints[account]
  blockNumber,  \* the block asked for
  pc,           \* "start", "loop" or "done"
  lower, upper, \* the bounds of the search
  result        \* the value returned

searchVars == <<cps, blockNumber, pc, lower, upper, result>>

SearchInit ==
  /\ cps \in Histories
  /\ blockNumber \in Blocks
  /\ pc = "start"
  /\ lower = 1
  /\ upper = 1
  /\ result = 0

Return(value) ==
  /\ pc' = "done"
  /\ result' = value
  /\ UNCHANGED <<cps, blockNumber, lower, upper>>

NoCheckpoints == pc = "start" /\ cps = << >> /\ Return(0)

MostRecent ==
  /\ pc = "start"
  /\ cps # << >>
  /\ cps[Len(cps)].fromBlock <= blockNumber
  /\ Return(cps[Len(cps)].votes)

BeforeFirst ==
  /\ pc = "start"
  /\ cps # << >>
  /\ cps[Len(cps)].fromBlock > blockNumber
  /\ cps[1].fromBlock > blockNumber
  /\ Return(0)

StartSearch ==
  /\ pc = "start"
  /\ cps # << >>
  /\ cps[Len(cps)].fromBlock > blockNumber
  /\ cps[1].fromBlock <= blockNumber
  /\ pc' = "loop"
  /\ lower' = 1
  /\ upper' = Len(cps)
  /\ UNCHANGED <<cps, blockNumber, result>>

\* Mutant: rounded down.
CenterDown == lower + (upper - lower) \div 2

\* Rounded up, so that the middle is never the lower bound.
Center == upper - (upper - lower) \div 2

ExactHit ==
  /\ pc = "loop"
  /\ upper > lower
  /\ cps[Center].fromBlock = blockNumber
  /\ Return(cps[Center].votes)

\* Mutant: the middle itself is skipped.
RaiseLowerPast ==
  /\ pc = "loop"
  /\ upper > lower
  /\ cps[Center].fromBlock < blockNumber
  /\ lower' = Center + 1
  /\ UNCHANGED <<cps, blockNumber, pc, upper, result>>

RaiseLower ==
  /\ pc = "loop"
  /\ upper > lower
  /\ cps[Center].fromBlock < blockNumber
  /\ lower' = Center
  /\ UNCHANGED <<cps, blockNumber, pc, upper, result>>

DropUpper ==
  /\ pc = "loop"
  /\ upper > lower
  /\ cps[Center].fromBlock > blockNumber
  /\ upper' = Center - 1
  /\ UNCHANGED <<cps, blockNumber, pc, lower, result>>

LeaveLoop == pc = "loop" /\ upper <= lower /\ Return(cps[lower].votes)

SearchNext ==
  \/ NoCheckpoints \/ MostRecent \/ BeforeFirst \/ StartSearch
  \/ ExactHit \/ RaiseLower \/ DropUpper \/ LeaveLoop

SearchSpec == SearchInit /\ [][SearchNext]_searchVars /\ WF_searchVars(SearchNext)

(***************************************************************************)
(* Properties.                                                              *)
(***************************************************************************)
SearchTyped ==
  /\ cps \in Histories
  /\ blockNumber \in Blocks
  /\ pc \in {"start", "loop", "done"}
  /\ lower \in Nat
  /\ upper \in Nat
  /\ result \in Nat

\* getPriorVotes returns the votes the account had at the end of the block,
\* wherever the block falls between, on or outside the checkpoints.
ReturnsVotesAtBlock == pc = "done" => IsVotesAt(result, cps, blockNumber)

\* The loop keeps the checkpoint looked for inside [lower, upper], and the
\* bounds inside the sequence: cps is never read out of range.
SearchInterval ==
  pc = "loop" =>
    /\ 1 <= lower /\ lower <= upper /\ upper <= Len(cps)
    /\ cps[lower].fromBlock <= blockNumber
    /\ \A j \in 1..Len(cps) : upper < j => cps[j].fromBlock > blockNumber

\* The search always returns, since each turn of the loop shrinks the interval, and
\* what it returns is what the token modules take for it.
Terminates == <>(pc = "done" /\ result = PriorVotes(cps, blockNumber))
=============================================================================
