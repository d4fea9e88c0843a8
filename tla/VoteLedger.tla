----------------------------- MODULE VoteLedger ------------------------------
(***************************************************************************)
(* What the governor relies on when it weighs a vote: a ledger of the votes *)
(* each voter holds in each voting token, whose values can change during a  *)
(* block and are final once the block has ended.  At any moment the votes   *)
(* of all tokens together do not exceed the supply of PACT.                 *)
(*                                                                          *)
(* This is the abstract specification of IHasVotes (contracts/token/        *)
(* interfaces/IHasVotes.sol: getCurrentVotes, getPriorVotes).  PACTToken    *)
(* implements it with one token, Staking with PACT and SPACT; PACTDelegate  *)
(* is built on it.                                                          *)
(***************************************************************************)
EXTENDS Integers, FiniteSets, Functions

CONSTANTS
  Voters,    \* the accounts votes can be delegated to
  Tokens,    \* the voting tokens
  Supply,    \* the supply of PACT
  MaxBlock   \* bound of the model: the last block

ASSUME SupplyAssumption == Supply \in Nat
ASSUME MaxBlockAssumption == MaxBlock \in Nat \ {0}

VARIABLES
  block,  \* block.number
  votes,  \* votes[t][v]: getCurrentVotes(v) of token t
  past    \* past[b][t][v]: getPriorVotes(v, b) of token t, for every b < block

ledgerVars == <<block, votes, past>>

Total(vs) == SumFunction([t \in Tokens |-> SumFunction(vs[t])])

Distributions == [Tokens -> [Voters -> 0..Supply]]

Affordable == {vs \in Distributions : Total(vs) <= Supply}

LedgerTypeOK ==
  /\ block \in 1..MaxBlock
  /\ votes \in Distributions
  /\ past \in [1..(block - 1) -> Distributions]

LedgerInit ==
  /\ block = 1
  /\ votes \in Affordable
  /\ past = << >>

\* Transfers, delegations, mints and burns within the current block.
ChangeVotes ==
  /\ votes' \in Affordable
  /\ UNCHANGED <<block, past>>

\* The votes at the end of a block become the answer of getPriorVotes for it.
NextBlock ==
  /\ block < MaxBlock
  /\ block' = block + 1
  /\ past' = [b \in 1..block |-> IF b = block THEN votes ELSE past[b]]
  /\ UNCHANGED votes

LedgerNext == ChangeVotes \/ NextBlock

LedgerSpec == LedgerInit /\ [][LedgerNext]_ledgerVars

\* getPriorVotes: no votes before the first block; requires blockNumber < block.
PriorVotesOf(t, v, blockNumber) ==
  IF blockNumber = 0 THEN 0 ELSE past[blockNumber][t][v]
=============================================================================
