----------------------------- MODULE VotingPower -----------------------------
(***************************************************************************)
(* The voting-power bookkeeping shared by the PACT and the SPACT token      *)
(* (contracts/token/VotingPower.sol), as operators on the state of one      *)
(* token: a record of balances, chosen delegates, per-delegate checkpoints, *)
(* signature nonces and the total supply.  The modules that own a token     *)
(* (PACTToken, Staking) keep such a record in a variable and apply these    *)
(* operators to it.  A checkpoint sequence is 1-based here, 0-based in the  *)
(* code.                                                                    *)
(***************************************************************************)
EXTENDS Integers, Sequences, FiniteSets, Functions

CONSTANTS
  Accounts,    \* the addresses that hold, delegate or receive tokens
  ZeroAddress  \* address(0): "no delegate"

ASSUME ZeroAddressAssumption == ZeroAddress \notin Accounts
ASSUME AccountsAssumption == IsFiniteSet(Accounts)  \* an address has 20 bytes

Delegatees == Accounts \cup {ZeroAddress}

\* The token records: no amount above maxSupply, no checkpoint after lastBlock.
TokenRecords(maxSupply, lastBlock) ==
  [ balances    : [Accounts -> 0..maxSupply],
    delegates   : [Accounts -> Delegatees],
    checkpoints : [Accounts -> Seq([fromBlock : 1..lastBlock, votes : 0..maxSupply])],
    nonces      : [Accounts -> Nat],
    supply      : 0..maxSupply ]

\* A token nobody holds, in the state its constructor leaves it.
NewToken ==
  [ balances    |-> [a \in Accounts |-> 0],
    delegates   |-> [a \in Accounts |-> ZeroAddress],
    checkpoints |-> [a \in Accounts |-> << >>],
    nonces      |-> [a \in Accounts |-> 0],
    supply      |-> 0 ]

(***************************************************************************)
(* Checkpoints.                                                             *)
(***************************************************************************)

\* The votes of the last checkpoint, 0 when there is none.
CurrentVotes(cps) == IF cps = << >> THEN 0 ELSE cps[Len(cps)].votes

\* Mutant: the last checkpoint is overwritten, whatever its block.
WriteCheckpointOver(cps, blockNumber, newVotes) ==
  <<[fromBlock |-> blockNumber, votes |-> newVotes]>>

\* A second change in the same block overwrites the checkpoint of the first.
WriteCheckpoint(cps, blockNumber, newVotes) ==
  LET cp == [fromBlock |-> blockNumber, votes |-> newVotes]
  IN  IF cps # << >> /\ cps[Len(cps)].fromBlock = blockNumber
      THEN [cps EXCEPT ![Len(cps)] = cp]
      ELSE Append(cps, cp)

\* The loop of getPriorVotes: the interval [lower, upper] halves until one
\* checkpoint is left.
BinarySearch(cps, blockNumber) ==
  LET search[bounds \in (1..Len(cps)) \X (1..Len(cps))] ==
        LET lower == bounds[1]
            upper == bounds[2]
            center == upper - (upper - lower) \div 2
        IN  IF upper <= lower THEN cps[lower].votes
            ELSE IF cps[center].fromBlock = blockNumber THEN cps[center].votes
            ELSE IF cps[center].fromBlock < blockNumber
                 THEN search[<<center, upper>>]
                 ELSE search[<<lower, center - 1>>]
  IN  search[<<1, Len(cps)>>]

PriorVotes(cps, blockNumber) ==
  IF cps = << >> THEN 0
  ELSE IF cps[Len(cps)].fromBlock <= blockNumber THEN cps[Len(cps)].votes
  ELSE IF cps[1].fromBlock > blockNumber THEN 0
  ELSE BinarySearch(cps, blockNumber)

\* What the search needs: at most one checkpoint per block, the later ones last.
Ordered(s) == \A i, j \in 1..Len(s) : i < j => s[i].fromBlock < s[j].fromBlock

\* value is the votes of checkpoints s at the end of block b: those of the
\* last checkpoint not after b, or 0 when all are after b.
IsVotesAt(value, s, b) ==
  \/ value = 0 /\ \A i \in 1..Len(s) : s[i].fromBlock > b
  \/ \E i \in 1..Len(s) :
        /\ s[i].fromBlock <= b
        /\ \A j \in 1..Len(s) : i < j => s[j].fromBlock > b
        /\ value = s[i].votes

(***************************************************************************)
(* Moving votes between representatives.  The subtraction is sub96, which   *)
(* reverts on underflow: CanMove is that guard.                             *)
(***************************************************************************)
Moves(srcRep, dstRep, amount) == srcRep # dstRep /\ amount > 0

CanMove(t, srcRep, dstRep, amount) ==
  Moves(srcRep, dstRep, amount) /\ srcRep # ZeroAddress
    => CurrentVotes(t.checkpoints[srcRep]) >= amount

MoveDelegates(t, srcRep, dstRep, amount, blockNumber) ==
  IF ~Moves(srcRep, dstRep, amount) THEN t
  ELSE [t EXCEPT !.checkpoints = [a \in Accounts |->
         LET cps == t.checkpoints[a]
         IN  IF a = srcRep
             THEN WriteCheckpoint(cps, blockNumber, CurrentVotes(cps) - amount)
             ELSE IF a = dstRep
             THEN WriteCheckpoint(cps, blockNumber, CurrentVotes(cps) + amount)
             ELSE cps]]

(***************************************************************************)
(* Minting, burning, transferring and delegating: first the guard, then the *)
(* token after the call.                                                    *)
(***************************************************************************)
CanMint(t, dst, amount) == dst # ZeroAddress

Mint(t, dst, amount, blockNumber) ==
  MoveDelegates([t EXCEPT !.balances[dst] = @ + amount, !.supply = @ + amount],
                ZeroAddress, t.delegates[dst], amount, blockNumber)

CanBurn(t, src, amount) ==
  /\ t.balances[src] >= amount
  /\ t.supply >= amount
  /\ CanMove(t, t.delegates[src], ZeroAddress, amount)

\* Mutant: the votes of burnt tokens stay.
BurnKeepsVotes(t, src, amount, blockNumber) ==
  [t EXCEPT !.balances[src] = @ - amount, !.supply = @ - amount]

Burn(t, src, amount, blockNumber) ==
  MoveDelegates([t EXCEPT !.balances[src] = @ - amount, !.supply = @ - amount],
                t.delegates[src], ZeroAddress, amount, blockNumber)

CanTransfer(t, src, dst, amount) ==
  /\ src # ZeroAddress
  /\ dst # ZeroAddress
  /\ t.balances[src] >= amount
  /\ CanMove(t, t.delegates[src], t.delegates[dst], amount)

\* Mutant: the votes do not follow.
TransferKeepsVotes(t, src, dst, amount, blockNumber) ==
  [t EXCEPT !.balances = [a \in Accounts |->
     t.balances[a] - (IF a = src THEN amount ELSE 0) + (IF a = dst THEN amount ELSE 0)]]

\* The debit is stored before the credit is read: a transfer to oneself
\* leaves the balance as it was.
Transfer(t, src, dst, amount, blockNumber) ==
  LET debited == [t EXCEPT !.balances[src] = @ - amount]
  IN  MoveDelegates([debited EXCEPT !.balances[dst] = @ + amount],
                    t.delegates[src], t.delegates[dst], amount, blockNumber)

CanDelegate(t, delegator, delegatee) ==
  CanMove(t, t.delegates[delegator], delegatee, t.balances[delegator])

Delegate(t, delegator, delegatee, blockNumber) ==
  MoveDelegates([t EXCEPT !.delegates[delegator] = delegatee],
                t.delegates[delegator], delegatee, t.balances[delegator],
                blockNumber)

\* Mutant: the nonce is not used up.
UseNonceNever(t, signatory) == t

\* nonces[signatory]++ in the middle of delegateBySig and permit.
UseNonce(t, signatory) == [t EXCEPT !.nonces[signatory] = @ + 1]

(***************************************************************************)
(* What the tokens maintain.                                                *)
(***************************************************************************)

\* The checkpoints of every account are fit for the search, and none is from
\* a block to come.
CheckpointsOrdered(t, blockNumber) ==
  \A d \in Accounts :
     LET cps == t.checkpoints[d]
     IN  Ordered(cps) /\ (cps # << >> => cps[Len(cps)].fromBlock <= blockNumber)

Delegators(t, d) == {a \in Accounts : t.delegates[a] = d}

\* The last checkpoint of a delegate is the sum of the balances delegated to it.
VotesFollowBalances(t) ==
  \A d \in Accounts :
     CurrentVotes(t.checkpoints[d]) = SumFunctionOnSet(t.balances, Delegators(t, d))
=============================================================================
