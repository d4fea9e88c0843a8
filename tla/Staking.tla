------------------------------- MODULE Staking -------------------------------
(***************************************************************************)
(* Staking (contracts/staking/StakingImplementation.sol) with its two       *)
(* tokens: holders stake PACT and receive as much SPACT, unstake, wait for   *)
(* the cooldown and claim their PACT back.  Every change of a stake is       *)
(* reported to the DonationMiner, which refuses the call unless its owner    *)
(* has made this contract its staking contract.                              *)
(*                                                                           *)
(* Holders give the contract an infinite PACT allowance, so that             *)
(* transferFrom leaves the allowance alone (see PACTToken for allowances).   *)
(***************************************************************************)
EXTENDS VotingPower

CONSTANTS
  StakingContract,  \* the address of the contract, one of the accounts
  Supply,           \* the supply of PACT
  InitialBalances,  \* who holds it at first
  Cooldowns,        \* the values the owner may set the cooldown to
  Representatives,  \* bound of the model: whom holders delegate to
  Donors,           \* bound of the model: who sends PACT by plain transfer
  MaxBlock          \* bound of the model: the last block

ASSUME StakingAssumption ==
  /\ StakingContract \in Accounts
  /\ Supply \in Nat
  /\ InitialBalances \in [Accounts -> 0..Supply]
  /\ SumFunction(InitialBalances) = Supply
  /\ Cooldowns \subseteq Nat /\ Cooldowns # {}
  /\ Representatives \subseteq Delegatees
  /\ Donors \subseteq Accounts \ {StakingContract}
  /\ MaxBlock \in Nat \ {0}

VARIABLES
  pact, spact,         \* the two token records of VotingPower
  holders,             \* _holders: amount, nextUnstakeId, unstakes
  currentTotalAmount,  \* the sum of the stakes
  cooldown,            \* blocks between unstake and claim
  miner,               \* DonationMiner: the stakes it was told, and whether this is its staking
  block                \* block.number

vars == <<pact, spact, holders, currentTotalAmount, cooldown, miner, block>>

Holders == Accounts \ {StakingContract}
Amounts == 0..Supply
Unstake == [amount : Amounts, cooldownBlock : Nat]

TypeOK ==
  /\ pact \in TokenRecords(Supply, MaxBlock)
  /\ spact \in TokenRecords(Supply, MaxBlock)
  /\ holders \in [Accounts -> [amount : Amounts, nextUnstakeId : Nat, unstakes : Seq(Unstake)]]
  /\ currentTotalAmount \in Amounts
  /\ cooldown \in Cooldowns
  /\ miner \in [linked : BOOLEAN, stakes : [Accounts -> Amounts], total : Amounts]
  /\ block \in 1..MaxBlock

Init ==
  /\ pact = [NewToken EXCEPT !.balances = InitialBalances, !.supply = Supply]
  /\ spact = NewToken
  /\ holders = [a \in Accounts |-> [amount |-> 0, nextUnstakeId |-> 0, unstakes |-> << >>]]
  /\ currentTotalAmount = 0
  /\ cooldown \in Cooldowns
  /\ miner = [linked |-> FALSE, stakes |-> [a \in Accounts |-> 0], total |-> 0]
  /\ block = 1

(***************************************************************************)
(* The stakes.                                                              *)
(***************************************************************************)

\* Mutant: a miner with another staking contract ignores the call.
SetStakingAmountsIgnored(holder, amount, total) ==
  IF miner.linked
  THEN miner' = [miner EXCEPT !.stakes[holder] = amount, !.total = total]
  ELSE UNCHANGED miner

\* DonationMiner.setStakingAmounts: onlyStaking.  The miner has started, and it
\* has no call that pauses it.
SetStakingAmounts(holder, amount, total) ==
  /\ miner.linked
  /\ miner' = [miner EXCEPT !.stakes[holder] = amount, !.total = total]

\* The caller pays, the holder gets the stake.
Stake(caller, holder, amount) ==
  /\ amount > 0
  /\ CanTransfer(pact, caller, StakingContract, amount)
  /\ pact' = Transfer(pact, caller, StakingContract, amount, block)
  /\ spact' = Mint(spact, holder, amount, block)
  /\ holders' = [holders EXCEPT ![holder].amount = @ + amount]
  /\ currentTotalAmount' = currentTotalAmount + amount
  /\ SetStakingAmounts(holder, holders[holder].amount + amount, currentTotalAmount + amount)
  /\ UNCHANGED <<cooldown, block>>

\* Mutant: the total is forgotten.
UnstakeKeepsTotal(holder, amount) ==
  /\ amount > 0
  /\ holders[holder].amount >= amount
  /\ holders' = [holders EXCEPT
       ![holder].unstakes = Append(@, [amount |-> amount, cooldownBlock |-> block + cooldown]),
       ![holder].amount = @ - amount]
  /\ SetStakingAmounts(holder, holders[holder].amount - amount, currentTotalAmount)
  /\ UNCHANGED <<pact, spact, currentTotalAmount, cooldown, block>>

\* SPACT, and the votes it carries, stay with the holder until the claim.
UnstakeAmount(holder, amount) ==
  /\ amount > 0
  /\ holders[holder].amount >= amount
  /\ holders' = [holders EXCEPT
       ![holder].unstakes = Append(@, [amount |-> amount, cooldownBlock |-> block + cooldown]),
       ![holder].amount = @ - amount]
  /\ currentTotalAmount' = currentTotalAmount - amount
  /\ SetStakingAmounts(holder, holders[holder].amount - amount, currentTotalAmount - amount)
  /\ UNCHANGED <<pact, spact, cooldown, block>>

\* Mutant: only the first unpaid entry has to have cooled down.
PayableWithTheFirst(holder, lastUnstakeId) ==
  LET h == holders[holder]
  IN  {i \in h.nextUnstakeId..lastUnstakeId :
         h.unstakes[h.nextUnstakeId + 1].cooldownBlock < block}

\* The entries _claim(lastUnstakeId) pays: from the first unpaid one up to
\* lastUnstakeId, but not past the first one still cooling down.
Payable(holder, lastUnstakeId) ==
  LET h == holders[holder]
  IN  {i \in h.nextUnstakeId..lastUnstakeId :
         \A j \in h.nextUnstakeId..i : h.unstakes[j + 1].cooldownBlock < block}

ClaimAmount(holder, lastUnstakeId) ==
  SumFunction([i \in Payable(holder, lastUnstakeId) |-> holders[holder].unstakes[i + 1].amount])

ClaimUpTo(holder, lastUnstakeId) ==
  LET amount == ClaimAmount(holder, lastUnstakeId)
  IN  /\ amount > 0
      /\ holders' = [holders EXCEPT ![holder].nextUnstakeId =
                       @ + Cardinality(Payable(holder, lastUnstakeId))]
      /\ CanBurn(spact, holder, amount)
      /\ spact' = Burn(spact, holder, amount, block)
      /\ CanTransfer(pact, StakingContract, holder, amount)
      /\ pact' = Transfer(pact, StakingContract, holder, amount, block)
      /\ UNCHANGED <<currentTotalAmount, cooldown, miner, block>>

\* Mutant: the claims need the miner too.
ClaimWhenOpen(holder) ==
  /\ miner.linked
  /\ holders[holder].unstakes # << >>
  /\ ClaimUpTo(holder, Len(holders[holder].unstakes) - 1)

Claim(holder) ==
  /\ holders[holder].unstakes # << >>
  /\ ClaimUpTo(holder, Len(holders[holder].unstakes) - 1)

ClaimPartial(holder, lastUnstakeId) ==
  /\ lastUnstakeId < Len(holders[holder].unstakes)
  /\ ClaimUpTo(holder, lastUnstakeId)

UpdateCooldown(newCooldown) ==
  /\ cooldown' = newCooldown
  /\ UNCHANGED <<pact, spact, holders, currentTotalAmount, miner, block>>

(***************************************************************************)
(* What happens around the contract: plain PACT transfers, delegation of    *)
(* either token, the miner's owner changing its staking contract to another  *)
(* address (that calls nothing) and back, and new blocks.                   *)
(***************************************************************************)
TransferPACT(src, dst, amount) ==
  /\ CanTransfer(pact, src, dst, amount)
  /\ pact' = Transfer(pact, src, dst, amount, block)
  /\ UNCHANGED <<spact, holders, currentTotalAmount, cooldown, miner, block>>

DelegatePACT(delegator, delegatee) ==
  /\ CanDelegate(pact, delegator, delegatee)
  /\ pact' = Delegate(pact, delegator, delegatee, block)
  /\ UNCHANGED <<spact, holders, currentTotalAmount, cooldown, miner, block>>

DelegateSPACT(delegator, delegatee) ==
  /\ CanDelegate(spact, delegator, delegatee)
  /\ spact' = Delegate(spact, delegator, delegatee, block)
  /\ UNCHANGED <<pact, holders, currentTotalAmount, cooldown, miner, block>>

UpdateStaking ==
  /\ miner' = [miner EXCEPT !.linked = ~@]
  /\ UNCHANGED <<pact, spact, holders, currentTotalAmount, cooldown, block>>

NextBlock ==
  /\ block < MaxBlock
  /\ block' = block + 1
  /\ UNCHANGED <<pact, spact, holders, currentTotalAmount, cooldown, miner>>

Next ==
  \/ \E c \in Holders, h \in Accounts, n \in Amounts : Stake(c, h, n)
  \/ \E h \in Holders, n \in Amounts : UnstakeAmount(h, n)
  \/ \E h \in Holders : Claim(h)
  \/ \E h \in Holders : \E last \in 0..Len(holders[h].unstakes) : ClaimPartial(h, last)
  \/ \E n \in Cooldowns : UpdateCooldown(n)
  \/ \E a \in Donors, d \in Accounts, n \in Amounts : TransferPACT(a, d, n)
  \/ \E a \in Holders, d \in Representatives : DelegatePACT(a, d) \/ DelegateSPACT(a, d)
  \/ UpdateStaking
  \/ NextBlock

\* Blocks keep coming, and a holder who can claim does so in the end.
Fairness == WF_vars(NextBlock) /\ \A h \in Holders : WF_vars(Claim(h))

Spec == Init /\ [][Next]_vars
FairSpec == Spec /\ Fairness

(***************************************************************************)
(* Properties.                                                              *)
(***************************************************************************)
Pending(h) == (holders[h].nextUnstakeId + 1)..Len(holders[h].unstakes)

\* A holder's SPACT is what it has staked plus what it has unstaked and not
\* yet claimed, the total is the sum of the stakes, and every SPACT is backed by
\* PACT the contract holds, so that no claim can fail for lack of tokens.
StakesAccounted ==
  /\ TypeOK
  /\ pact.balances[StakingContract] >= spact.supply
  /\ \A h \in Accounts :
       spact.balances[h] = holders[h].amount
         + SumFunction([i \in Pending(h) |-> holders[h].unstakes[i].amount])
  /\ currentTotalAmount = SumFunction([h \in Accounts |-> holders[h].amount])

\* The miner always works with the present stakes: it may refuse a stake or an
\* unstake, but the two contracts never drift apart.
MinerInSync ==
  /\ miner.stakes = [h \in Accounts |-> holders[h].amount]
  /\ miner.total = currentTotalAmount

\* SPACT is only burnt for unstakes whose cooldown block has come, each entry is
\* paid once, and the holder receives exactly as much PACT.  (Whether an entry is paid
\* in that block or after it is what ClaimableFromCooldownBlock is about.)
PaidOnceAfterCooldown ==
  [][\A h \in Accounts : spact'.balances[h] < spact.balances[h] =>
       LET paid == (holders[h].nextUnstakeId + 1)..holders'[h].nextUnstakeId
       IN  /\ \A i \in paid : holders[h].unstakes[i].cooldownBlock <= block
           /\ spact.balances[h] - spact'.balances[h] =
                SumFunction([i \in paid |-> holders[h].unstakes[i].amount])
           /\ pact'.balances[h] - pact.balances[h] =
                spact.balances[h] - spact'.balances[h]]_vars

\* IStaking.sol:11 says of cooldownBlock: "first block number that will allow holder to
\* claim this unstake".  So a claim pays the entries whose cooldown block has come, if
\* those before them can be paid.  It does not: _claim waits for the block after it.
ClaimableFromCooldownBlock ==
  \A h \in Holders : \A i \in Pending(h) :
    (\A j \in Pending(h) : j <= i => holders[h].unstakes[j].cooldownBlock <= block)
      => i - 1 \in Payable(h, Len(holders[h].unstakes) - 1)

\* Every unstake is paid in the end, whether or not the miner is linked and
\* whatever the owner does to the cooldown: an entry waits for those before it.
EveryUnstakePaid ==
  \A h \in Holders, i \in 1..(Supply * MaxBlock) :
     (/\ i <= Len(holders[h].unstakes)
      /\ \A j \in 1..i : holders[h].unstakes[j].cooldownBlock < MaxBlock)
       ~> holders[h].nextUnstakeId >= i

\* The votes PACT and SPACT give together: the ledger of final votes, never
\* worth more than the supply of PACT, that the governor relies on.
TokenOf(t) == IF t = "PACT" THEN pact ELSE spact
Ledger == INSTANCE VoteLedger WITH
  Voters <- Accounts, Tokens <- {"PACT", "SPACT"},
  votes <- [t \in {"PACT", "SPACT"} |->
              [v \in Accounts |-> CurrentVotes(TokenOf(t).checkpoints[v])]],
  past  <- [b \in 1..(block - 1) |-> [t \in {"PACT", "SPACT"} |->
              [v \in Accounts |-> PriorVotes(TokenOf(t).checkpoints[v], b)]]]

ImplementsVoteLedger == Ledger!LedgerSpec
=============================================================================
