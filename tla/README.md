# TLA+ models of the impactMarket smart contracts

impactMarket is a set of Solidity contracts: a token with votes, a governor with a
timelock that owns everything else, staking, a program that rewards donations,
communities that pay a basic income out of a treasury, loans and airdrops; and the
scripts that deploy, wire and upgrade all that and prepare the airdrops.  This directory
holds TLA+ modules that model them, TLC configurations that check them on small
instances, and theorems that TLAPS proves for every instance.

On chain, one transaction is one action: the EVM runs it alone, and a `require` that fails
(or an arithmetic check of Solidity 0.8) undoes all of it, so a failing call is an action
that is not enabled.  What makes the contracts hard is therefore not threads but the order
of transactions of many parties, over many blocks, across contracts that each keep a part
of the same truth.  The scripts are the opposite: they make many transactions or
questions, the chain moves on between two of them, and a script may end after any.

## 1. Inventory

| component (src/contracts, unless said otherwise) | state | operations | correct when |
|---|---|---|---|
| **Voting power, PACT** (token/) | balances, delegates, checkpoints, nonces, allowances | transfer, transferFrom, approve, permit, delegate, delegateBySig, getPriorVotes | delegated votes equal delegated balances; past votes are final; a signature counts once |
| **Staking, SPACT** (staking/) | stakes, unstake queues, SPACT, total | stake, unstake, claim, claimPartial, updateCooldown | every SPACT is backed; an unstake is paid once, in full, after its cooldown; the DonationMiner knows the present stakes |
| **Governor** (governor/PACTDelegate) | proposals, receipts, settings | propose, castVote (3 ways), queue, execute, cancel, setters | votes count once and never exceed the supply; settings change only by an approved, announced proposal |
| **Timelock** (governor/PACTTimelock) | queued calls, admin, delay | queue, cancel, execute, setDelay, handover | every call is announced a minimum delay before, and executed once |
| **Community** (community/) | beneficiaries and their states, claim limits, funds | add, lock, unlock, remove, copy, change address, claim, request funds, donate, parameters | limits and counters agree with the beneficiaries' states; nobody claims more than the maximum or too early |
| **CommunityAdmin** | communities and their states, treasury rules | add, migrate, split, remove, fund, parameters | a community gets funds only while valid, within the treasury's safety limits |
| **DonationMiner** | reward periods, donors, stakes | donate (5 ways), claim, stake rewards, parameters | a period gives its reward once, to those who have a part in it, or carries it over |
| **Microcredit** | wallets, loans, managers | managers, add, cancel, claim, repay, move, corrections | what managers have lent follows the loans; repayments are split right; one loan at a time |
| **Deployment scripts** (src/deploy/prod) | recorded deployments, proposals | first deployment, later ones, upgrades, proposals | everything ends up initialized, wired and governed, also when a run stops halfway and is repeated |
| **First airdrop** (MerkleDistributor, src/airdrop_scripts) | the table, root and claims; claimed indices | parse, build the tree, claim, withdraw | whoever is listed can claim, once, what is listed |
| **Second airdrop** (AirdropV2, src/script/merkleTree) | list, root, terms, claims | generate, change terms and root, claim | the listed are paid, within the terms |
| **Snapshot and count scripts** (src/script) | what they have asked and found | list communities and beneficiaries, count holders | whoever is valid throughout is found; holders are counted |
| **Council** (governor/impactMarketCouncil) | members, proposals | propose, vote, execute, cancel, members, quorum | an account counts once, also when it leaves and comes back; what is decided had the majority and a quorum |
| **Ambassadors** | index tables entity - ambassador - community | add, remove, replace, transfer | the tables agree whatever is replaced or moved; an entity without ambassadors can go |
| **Vesting** (vesting/) | next period, advance | claim | a share of each ended period, once |
| **Moola helpers** (src/integrations/moola) | recorded addresses, lent roles, reserves | initialize and configure reserves, set rates | roles are handed back; reserves are set up as configured, also over several runs |
| **Treasury**, **TreasuryLpSwap** | accepted tokens, positions | convert, fund positions, collect | only known tokens; external Uniswap calls |
| **MicrocreditManager**, **LearnAndEarn**, **ReferralLink**, **AirdropV3**, **Deposit** | rewards, levels, campaigns, claims, balances | fund, claim, cancel, pause | one reward per user; balances are covered |

How they interact: the timelock owns the other contracts, so a governor proposal reaches
them through `executeTransaction`.  The governor reads `getPriorVotes` of PACT and of
SPACT.  Staking moves PACT, mints and burns SPACT and reports stakes to the
DonationMiner, which stakes rewards through it.  Communities ask CommunityAdmin for funds,
which pays from the Treasury.  Microcredit reports virtual donations to the
DonationMiner.  The deployment scripts create these links, and the proposals they write
change them later.  The council owns CommunityAdmin, which adds communities and names their
ambassadors.  The snapshot script reads the communities and writes the list the
second airdrop is made from.

Hard behaviours: votes that move while they are used; settings that change under running
proposals; flags of the timelock shared by proposals; two clocks (blocks and timestamps);
signatures submitted late or twice; queues with different cooldowns; one contract of a pair
refusing its half of a step; counters that many paths maintain; reward periods nobody
started; loans corrected by hand; runs that stop between two transactions and are repeated;
proposals executed long after they were written; answers that arrive in any order while the
chain moves on.  PROJECT.json lists each one as a hazard at its line.

## 2. Modules

### Voting power, the ledger and PACT

* `VotingPower` - token/VotingPower.sol as operators on the record of one token (balances,
  delegates, checkpoints, nonces, supply): guard (`CanTransfer`, ...) and effect
  (`Transfer`, ...) of each call.  `sub96` of `_moveDelegates` is the guard `CanMove`.
* `VoteLedger` - the abstract specification: within a block votes change at will below the
  PACT supply; at its end they are final.  This is what `IHasVotes` promises the governor.
* `PACTToken` - the PACT contract: transfers, allowances (with the infinite one), permit,
  delegation and delegation by signature.  `Messages` are the signatures in circulation,
  which anyone may submit at any time, repeatedly.  It implements `VoteLedger` with one token.
* `PriorVotesSearch` - `getPriorVotes`, one action per branch and per turn of the loop, on
  every increasing checkpoint sequence.  `PACTTokenProofs` proves it correct.
  `MCPACTToken` checks the token and the search in one configuration: a behaviour is of one of them.

### Staking

* `Staking` - StakingImplementation with PACT and SPACT as two `VotingPower` records and
  the DonationMiner's copy of the stakes (`miner`).  The miner takes the report only while
  this is its staking contract (`miner.linked`, changed by its owner); otherwise stake and
  unstake revert.  It is `PausableUpgradeable` but has no call that pauses it.  The module
  shows that PACT and SPACT together implement `VoteLedger`: staked PACT votes through
  SPACT and not twice.

### Governance

* `GovernedSettings` - the settings only an executed proposal can change, the requires of
  their setters, and what a list of calls does to them in order.  `releaseToken`,
  addresses and amounts are small numbers; a call to any other contract is `"external"`.
* `PACTTimelock` - one action per call of the timelock, for a list of calls, because the
  governor queues, cancels or executes all calls of a proposal in one transaction; any call
  that fails undoes all.  `announced` and `performed` are history variables.
* `PACTDelegate` - the governor, EXTENDing the timelock and the ledger: propose, castVote,
  queue, execute, cancel; `State(id)` is `state()`.  Blocks and timestamps advance together
  but at different paces.  A successor the governor names may take the timelock over and then
  uses it as it likes.  It implements `TimelockSpec`.

### Communities

* `Community` - CommunityImplementation.sol as operators on the record `q` of one community:
  parameters, token updates, the states of beneficiaries, claims.  A beneficiary's
  `claimedAmount` is in the token of its `lastClaim`; `ClaimedAmount` converts it, update by
  update, as a recursive function.
* `CommunityAdmin` - CommunityAdminImplementation.sol with its communities and the treasury's
  balances: adding, migrating, splitting, removing, funding, the settings, and the calls of
  managers, beneficiaries and donors of each community.  A claim asks for funds first, in the
  same action, as `claim()` does.
* `CommunityAdminProofs` - theorems about these two and the two below, see section 4.

`q.rules.maxTotalClaim` remembers what the limit was set to, while the contract keeps the running
`maxTotalClaim` alone.  Two variables are histories: `paid[c][p]` is what the person behind an
address received, under all addresses that were joined into it and in the communities before,
converted to the present token when the token changes; `mixed` holds the communities whose amounts
may differ from these.  `NobodyClaimsEarlyOrTooMuch` has two parts: `ClaimsInTime` compares the dates
and the numbers of claims with `paid`, in every community; `ClaimsWithinLimit` compares amounts, where they can be compared (`Comparable`).  They cannot where
the token changed in the block of a claim, or in copies of communities with token updates, for there the
contract's own bookkeeping leaves the right path (see below); nor after a second update, when the amounts
of `_getClaimedAmount`, which converts by the latest update first, are rounded in another order than what was
received; nor where people arrive from such a community, or come to one that has updates of its own.

A call with a list is the single calls in a row within a block; a call with a manager's
signature is that manager's call.  Which ambassador may act for a community is the
Ambassadors contract's business: what it may do, it may do at any time.

* `Ambassadors` - AmbassadorsImplementation.sol: nine tables, tied by indices, and every call that
  changes them, from whoever may make it.  The administration of communities may give any community
  to any ambassador at any time, so the module needs nothing of CommunityAdmin's state.  `mishaps`
  is a history of the calls the tables do not survive.
* `Council` - ImpactMarketCouncilImplementation.sol: members, quorum, proposals, votes.  The calls
  of an executed proposal are those of the other modules' owner.  `quorums` is a history.
* `MCCommunityAdmin` checks the communities, the ambassadors or the council (`Programs`).

### Rewards and loans

* `DonationMiner` - the reward periods, from 0 to `rewardPeriodCount`, with all that a period
  keeps; `Initialized` begins the periods that are missing, as every call does first;
  `CalculateReward` is `_calculateRewardByPeriodNumber` with its running sums over the window of
  `againstPeriods`.  Donations of every kind, stakes reported by Staking, claims and staked
  rewards, whole or in part, and the owner's settings.  `stakedAt`, `received` and `forgone` are
  histories, from which the properties compute the shares anew.
* `Microcredit` - managers with limits, wallets that point to users and on to other wallets, the
  loans of every user; interest by the day, the split of a repayment between contract and revenue
  address, the reward of the last repayment, which a DonationMiner that refuses it makes fail.
  `canceled` and `mended` are histories: what was canceled, and what the owner has set by hand.
* `MCFunding` checks one or the other.  `FundingProofs` - see section 4.

### Deployment

* `DeployScripts` - the 38 scripts of deploy/prod as data: each is the list of its transactions in
  order, with the scripts it depends on, the network its hard-coded addresses belong to and the
  scripts that had to be run before for these addresses to exist.
* `Deployment` - runs of the scripts.  The operator starts a run of a tag; hardhat-deploy orders the
  scripts by their dependencies; a step is accepted or reverts, and a run may be interrupted before
  any step and repeated.  What was deployed is not deployed again, everything else is sent again.
  Proposals are voted on and made by the timelock, all of their calls or none.  `world` keeps owners,
  initialization, implementations, links and the shares of the supply sent.  A trial call that reads a list
  at an index (`ViewAt`: `communityListAt(2)` and `(200)`, `beneficiaryListAt(20)`) reverts while the list is
  shorter; `Join` makes a list long enough.  `External` contracts are there from the start: Ambassadors
  and the council, whose scripts are among the tests', and on alfajores ReferralLink.  The addresses in
  referralLink_upgrade.ts are alfajores' (mainnet's are commented out, its proxy is empty), and the script that
  deploys ReferralLink is mainnet's, so no script run here makes the proxy the proposal upgrades; the
  recorded deployments have it (deployments/alfajores/ReferralLinkProxy.json), with an owner the repository
  does not name.

### Off-chain scripts and airdrops

* `MerkleTree` - both trees (the scripts' own and the library's), proofs, and the contracts' check.
  A hash is the term it is the hash of, so that equal hashes are hashes of equal things, in a notation in
  which none begins another, so that what `CombinedHash` joins can be taken apart again.  `InOrder` is what
  sorting and dropping doubles makes of the elements: the set of them, each at its rank.
* `MerkleDistributor` - table, parser, tree and file of the first airdrop, and the contract that pays.
  `Keccak` is what a leaf may be the hash of: numbers that differ where index, account or amount do, in
  any order.  `taken` is a history of what the owner took out, against which the balance is measured.
  Claimants submit the file's proofs, shortened ones, and `OtherProofs`, which are arbitrary: the theorem
  is about any, the run has three, one of them empty.
* `BeneficiarySnapshot` - getCommunities.ts and getBeneficiaries.ts: one action for a question's
  answer, taken at its own moment, while people join, leave and move.
* `AirdropV2` - EXTENDS the snapshot: the list becomes a root, and the contract pays tranches.
* `HolderCount` - transferInfo.ts: balances of three tokens rebuilt from events, day by day.
* `ReserveSetup` - init-helpers.ts and oracles-helpers.ts, which set up a Moola market: a run computes its
  transactions from deployed-contracts.json and the pool, sends one after the other, and may stop
  between any two; the next run starts from what is there.  The pool's contracts are external.
* `MCOffchain` checks one of the four programs in each behaviour.  `OffchainProofs` - see section 4.

## 3. Runs

All bounds are CONSTANTS of the configurations, but those of the second instance of CommunityAdmin in the
community run (`Family`), which MCCommunityAdmin gives.

| run | instance | shows |
|---|---|---|
| pact_token | 2 holders, supply 2, 4 blocks, messages of which two share a nonce; or a search in all 64 checkpoint sequences over 6 blocks, for blocks 0..7 | supply kept and votes = delegated balances; a message takes effect at most once; refines VoteLedger; the search is right and ends |
| staking | 1 holder + the contract, cooldowns {0, 1}, 3 blocks, fair | backing, accounts, miner in step, paid once, not before the cooldown block, and eventually; PACT + SPACT refine VoteLedger |
| governor | 2 voters, supply 2, 2 competing proposals | tallies = receipts, within the supply; owners of queued calls; refines TimelockSpec |
| governor_settings | 1 holder, 2 proposals of 4 kinds, handover to a successor, fair | one live proposal, once only, minimum notice, lifecycle; every proposal settles: voting ends, and what is queued is executed, canceled or expires |
| community | 1 community, 2 people, 2 tokens, limits 3 and 6, 3 blocks; or 2 communities (migrated or split), 2 people, 1 token, 2 blocks; or 2 accounts, 2 entities, 2 ambassadors; or 3 people in the council, quorums 1 and 2, a proposal | types and balances; counters and limits = states; the claim affordable; nobody early or too much, also across communities; nobody who left is readmitted; the ambassadors' tables agree; the council counts accounts once and decides by a quorum |
| deployment | all 38 scripts, 3 networks, 3 runs of which one may be interrupted, 2 proposals, fair | shares sent once; a completed deployment is governed and wired, and stays so; proposals can be executed; an undisturbed first run completes |
| offchain | every table of 2 rows over 2 accounts, tables of 1 to 5 accounts, 4 orders of hashes; or 2 people, 3 communities, 2 snapshots, 2 changes of the chain; or 2 holders, 3 tokens, 3 days; or 2 markets, 3 runs of 4 helpers, each of which may stop anywhere | the listed can claim and are paid as listed; the snapshot takes the valid; the count counts once; roles are handed back, reserves are as configured |
| funding | 2 donors, 6 blocks in periods of 1 or 2, 5 calls; or 2 wallets, 2 managers, 2 loans each, 7 calls | shares given once and exactly, and claimed rewards not again; books follow loans, so that the last repayment is possible; one loan at a time |

The other four runs show what the code does not keep, below.

The timelock alone has no run of its own: it is proved for every instance, and checked inside
the two governor runs.

Why these bounds are enough for the questions: two holders show every move of votes between
delegates (source, destination, nobody, oneself), and the staking contract counts as a second
account; three blocks give a checkpoint, an overwritten one, and one in between; supply 2 lets
amounts be split and over-spent; two proposals are the smallest number that compete; voting
delays and periods of one or two blocks reach each state in its first and last block; a grace
period of one or two units lets a proposal expire.  The governor run lets votes move
(`ChangeBlocks`) where it matters: around the block the vote starts and the block it is cast in.

For communities: two people are enough to count, join and separate; a limit of three claims less
one for each beneficiary is exhausted, shared and grows again; a base interval of two
blocks and an increment of one make the second claim wait; the treasury's two units run
out; a change of the token doubles or keeps amounts (both exact, no rounding).

State constraints keep some of the runs small.  `EarlyMessages` (PACT): allowances and messages are used
in the first two blocks, the rest is for transfers and delegations.  `OneOrEvenVotes` (governor):
either one proposal and votes that move, or competing proposals and votes that stay.
`HandOverOrSettings` (governor_settings): the proposals change settings, or hand the timelock over
beside a change of its delay.  `AloneOrFamily` (community): managers stay
in place and communities start with cUSD; a family stays unlocked, and those of it that were not split are removed
in the last block only (`LateRemovals`); a community alone may be locked, or the council change the settings, in
the last block (`LateChanges`).  Donations and income come
in the blocks `IncomeBlocks`.
Two of them belong to runs with liveness: `HandOverOrSettings` looks at the calls alone, so it
never cuts a step of a clock; `EarlyMessages` holds throughout in the behaviours of a search, the
only ones that must end.

For rewards: FirstReward 8 and a decay of one half give odd shares, so that what is rounded shows;
periods of two blocks, or one, over six blocks give three to five periods, with windows of one or two
before; the PACT of the contract runs out; five calls are a donation or a stake, one or two changes,
and claims before and after.  For loans: 50 percent a day on an amount of two gives debts that are
and are not multiples of the repayments; two wallets and two managers are the least that can be
exchanged, and a day of two moments lets a repayment come with and without new interest.  `SYMMETRY`
is over people who are managers as well, in the offchain run over the holders, and only invariants are checked with it.

For the deployment: one run that is interrupted, one that repeats it and one more are enough for
whatever a repeated script breaks for another; two proposals are one that spoils the other.  The
three networks differ in which hard-coded addresses exist.  Lists start empty, so that a trial call is
refused or accepted depending on whether `Join` came first.  For the airdrops: five leaves give
layers of odd length twice; an order of hashes that is none of the order of addresses shows that pairs are
sorted; ChunkSize 2 leaves an incomplete chunk of the three questions; two changes are a person that leaves
and one that comes while the script is between the two.  For the Moola helpers: the market of five reserves
in chunks of four, as in the code, has an incomplete chunk, and so has the configuration in chunks of two
(20 in the code, which is more than all reserves); three runs are one that stops, one that repeats it,
and one of another helper.  The second market has what the first has not: an asset that is no collateral,
one that is not to be configured, and one aware of delegation.

For ambassadors: two accounts are the least that can replace each other, and two indices outlive them; three
accounts, or two communities, were checked once by hand (1.7 and 2 million states) and take too long to be in a
run.  For the council: three people are one more than the highest quorum, voting on one proposal ends in
the second of three blocks; proposals have no state in common.

Runs that may stop say CHECK_DEADLOCK FALSE: clocks end at `MaxBlock` and `MaxTime`, calls and runs of
scripts at their bounds, and a search has an end of its own.  In the staking run somebody can always act
(delegate to oneself, change the cooldown), and deadlock is checked.

### What the code does not keep

Four runs check a sentence of the repository that the code contradicts (`findings` in
PROJECT.json).

* governor_queued: a canceled proposal canceled again clears the timelock flags of another
  proposal with the same calls and eta, which stays Queued and cannot be executed.
* staking_cooldown: `_claim` waits for `cooldownBlock < block.number` (StakingImplementation.sol:256), one
  block longer than IStaking.sol:11 says, which calls `cooldownBlock` the "first block number that will
  allow holder to claim this unstake".  The comment of `claim` says "older than cooldown", as the code does.
* funding_newcomer: `setStakingAmounts` takes somebody whose first stake was in period 1 for a
  newcomer when that stake changes, and skips the rewards of the periods in between.
* funding_canceled: `editLoanClaimDeadlines` gives a canceled loan, whose deadline is 0 "to prevent
  claiming", a new deadline, and it can be claimed.

Other divergences, seen while modelling and part of the models as the code has them:

* Governor.  An executed proposal becomes Defeated when the quorum is raised, and can then be
  canceled (PACTDelegate.sol:370).  Votes count in `endBlock` itself, which PACTDelegateStorageV1
  excludes.  `_setProposalThreshold` accepts a threshold above the quorum, which `_setQuorumVotes`
  and `initialize` refuse.
* Communities.  A beneficiary copied after a change of the token has the claimed amount converted
  twice, once by the original and once by the copy (CommunityImplementation.sol:1304).  What is
  claimed in the block of a token update, before it, is not converted (:1538).  Copying an address
  nobody knows makes it Copied in the original, and neither side can add it any more (:1296).
* DonationMiner.  `currentRewardPeriodNumber` counts the last block of a period to the next one
  (DonationMinerImplementation.sol:852).  The shares of stakes that were withdrawn before the end of
  a period whose window has donations are given to nobody and carried over to nobody.  When
  `againstPeriods` has changed, the view of the current period's rewards can subtract more than it has added.
* Ambassadors.  `setCommunityToAmbassador` of a community that has an ambassador leaves it in the old
  one's set, who can then not be removed any more (AmbassadorsImplementation.sol:490).
  `replaceEntityAccount` to another entity's account, or to the old one, leaves an index that no account leads
  to (:304).  Indices are compared without asking for 0, so that an account that is no ambassador passes for the
  ambassador of a community without one, and `removeAmbassador` of nobody lowers a count (:338).
* Council.  A proposal that has succeeded is Active again when the quorum is raised, and a quorum may
  be higher than the number of members (ImpactMarketCouncilImplementation.sol:366).
* Moola helpers.  `initTokenReservesByHelper` tells the strategies it deploys the asset where the address
  provider belongs, and looks up a name for debt tokens that no helper writes.  A `setInitialMarketRates...` that stops leaves
  the oracle with the helper's contract, and every later run reverts (oracles-helpers.ts:47).  A
  `configureReservesByHelper` that stops after the last chunk leaves the pool admin's role there, as
  there is nothing left to configure (init-helpers.ts:353).
* Microcredit.  `editLoan` may set a debt below the principal that is left: the last repayment then
  always reverts (MicrocreditImplementation.sol:654).  Giving a loan to another manager leaves what
  the two have lent as it is.
* Deployment.  `merkleDistribuitor.ts` sends a billion PACT again when it is repeated.  Microcredit's
  revenue proxy is wired in without being initialized (laterDeployment/microcredit.ts:48).
  AirdropV2 is never handed over to the timelock, and `donationMiner_upgrade.ts` names mainnet's PACT on
  alfajores: their proposals can be voted through and never executed.  Two upgrades make trial calls of
  `communityListAt` and `beneficiaryListAt`, and cannot be executed while there are fewer communities, or
  people, than the index.  `vote+queue+execute.ts` lists
  four proposals and leaves out the newest.
* Snapshot.  Whoever has changed the address is valid under one that is on no list
  (CommunityImplementation.sol:1486), and misses the second airdrop.  `transferInfo.ts` counts whoever has
  LP and SPACT but no PACT twice, and the zero address once something was burned.

The properties of the passing runs are stated so as to hold all the same:
`LifecycleForward` allows a change of the quorum to defeat what had passed, or to pass what was defeated,
and nothing else; `PaidOnceAfterCooldown` asks that the cooldown block has come, which the code and the
interface both promise; `QueuedCallsOwned` says that
what is queued has an owner, not that every owner has what it needs, `Comparable` leaves out
communities whose tokens changed in the ways above or twice, `SharesGivenOnce` asks only for an upper bound
of who staked in the first period, `BooksFollowLoans` and `OneLoanAtATime` leave out what was `mended`, and
`AllocationsSentOnce`, `WiredToInitialized`, `QueuedProposalsExecutable`, `CountedOnceOrExplained`,
`HandedBack`, `ReservesAsConfigured` and `TablesAgree` (by `mishaps`) name the exceptions.

### Fairness

`WF(NextBlock)`, `WF(ProduceBlock)`: the chain produces blocks.  `WF(Claim(h))` in Staking: a
holder who can claim eventually does; it is the holder's own interest, and the property is
that the contract then pays.  The search of `getPriorVotes` is one call and runs to its end:
`WF(SearchNext)`.  A script that was started sends its next transaction unless it is interrupted:
`WF(Step \/ Complete \/ Revert)` in Deployment.  No fairness is assumed of proposers, voters,
executors, owners or operators.

## 4. Proofs

| module | theorem | says |
|---|---|---|
| `SumTheorems` | `SumOfGroups` | a finite sum taken group by group is the sum over all groups |
| `VotingPowerProofs` | `PriorVotesCorrect` | `PriorVotes`, the function, returns the votes at the end of the block asked for |
| | `VotesAreBacked` | the votes of all delegates are the delegated balances, within the supply |
| `PACTTokenProofs` | `TokenVotesAreDelegatedBalances` | every call keeps votes, balances and supply in step |
| | `TokenSignatureUsedOnce` | no signed message takes effect twice |
| | `TokenImplementsVoteLedger` | the token implements the ledger the governor relies on |
| | `SearchReturnsVotesAtBlock`, `SearchStaysInside` | the binary search returns the votes at the block, from inside its bounds |
| `StakingProofs` | `StakingStakesAccounted` | SPACT is stake not yet paid back, and PACT stands behind all of it |
| | `StakingMinerInSync` | the DonationMiner's copy of a stake is the stake while it is linked |
| | `StakingPaidOnceAfterCooldown` | a claim pays unstakes whose cooldown block has come, each once, and exactly |
| | `StakingImplementsVoteLedger` | PACT and SPACT together implement the ledger: staked PACT votes once |
| `PACTDelegateProofs` | `TimelockTyped`, `TimelockPerformsOnce`, `TimelockGivesNotice` | types, once only, minimum notice for every admin, delay and eta |
| | `DelegateTyped` | type correctness of the governor, its timelock and the ledger |
| | `OneLive` | one live proposal per proposer |
| | `TalliesAreReceipts` | tallies are the receipts added up, within the supply: no PACT votes twice |
| | `ProposalsMoveForward` | no call and no clock leads a proposal back, and another quorum only judges anew what was voted on |
| | `QueuedOwned` | queued calls belong to a queued, uncanceled, unexecuted proposal |
| | `GovernorPerformsOnce`, `GovernorGivesNotice` | the timelock's two promises, inside the governor |
| | `SettingsByProposal` | settings change only by an approved and announced proposal |
| | `GovernorImplementsTimelock` | the governor implements the timelock's specification |
| `CommunityAdminProofs` | `CommunityClaimsAffordable` | a claim is within the original amount, and the limit leaves room for one |
| | `CommunityLimitsMatch` | the counter counts the valid beneficiaries, and the limit follows it |
| | `CommunityNeverReadmits` | who was removed, moved or copied never becomes a beneficiary again |
| | `CommunityTyped` | types: no community and no balance of the treasury is ever overdrawn |
| | `CommunityClaimsRight` | a claim waits for all that was received under the addresses joined, and pays at most the original amount; all of it stays within the limit, where amounts can be compared |
| | `CouncilDecides` | an account votes once; voting ends with the vote that decides; what was executed had a majority and a quorum |
| | `AmbassadorTablesAgree` | communities, ambassadors and entities are tied in both directions, and entities count their ambassadors |
| `FundingProofs` | `BorrowersHaveOneLoan` | a user is at one wallet and has one loan at a time, unless it was mended |
| | `BooksAreKept` | managers' books, pool and revenue follow the loans; a debt nobody edited covers the principal left |
| | `MinerTypesHold` | types: no balance is overdrawn, and the periods are without a gap |
| | `SharesAreGivenOnce` | every donor is given the shares of the periods claimed, each once and exactly, and all of it is within the rewards there were |
| `OffchainProofs` | `HoldersAreCounted` | once all events are seen, the count is of the accounts that hold, but for the exceptions named |
| | `RolesAreHandedBack` | between runs a helper holds a lent role only if the last run that tried was stopped, or refused |
| | `ReservesSetUpAsConfigured` | reserves have what their rows name, and a helper that is done has left none out |
| | `SnapshotIsOfTheValid` | the file has who was valid throughout, and nobody more often than they were valid somewhere |
| | `TheListedAreProvedAndPaid` | everybody on the list proves it, nobody else does, and nobody is paid more than was offered |
| | `TheFileIsPaid` | every claim of the first airdrop's file passes the check, there is enough for all that are left, and nobody is paid twice or another amount |

Assumptions: the named ASSUMEs of the modules (limits are naturals, minimum delays are not 0,
the deployment's settings are within the limits, signers are accounts and nonces naturals);
`GovernorImplementsTimelock` also that the model's etas cover what the governor can compute.
`Accounts`, `Voters`, `People`, `Donors`, `Holders` and the snapshot's `Communities` are finite, because sums and counts
are taken over them; nothing bounds their number, nor that of tokens, proposals or blocks, nor the length of the lists,
tables and events of the programs off chain.  That different addresses of the second airdrop, and different claims of the
first, have different leaves, and that a hash is a hash of one thing only, stands for the collision resistance of keccak256.
A table's earnings are no more than `Supply`: merkleDistribuitor.ts sends a billion PACT, and neither it nor the
contract looks whether the table fits in.

**Sums.**  A vote count is a sum over accounts, and the provers have neither sums nor induction over
finite sets.  `SumTheorems` starts from the definition of the community modules' fold, whose recursive
function is the one that `WFMin` of the library's well-founded induction pins down: were there a set on
which a fact about sums fails, there would be a smallest one, and that is refuted.  A property that is
proved by induction is given as the *set* of numbers that have it (`NaturalInduction`), for an operator
parameter cannot be instantiated.  What the other modules cite is what one call does to a sum: `SumSame`,
`SumChange` (one value changes), `SumPair` (an amount moves from one to another), `SumPlus` and `SumUnion` (an element joins),
`SumElement` (a part is below the whole) and `SumOfGroups`.

**Voting power.**  The invariant of a token record, `TokenSound`, says that the last checkpoint of a
delegate is the sum of the balances delegated to it, that checkpoints have increasing blocks of the past,
and that the balances add up to the supply.  Each call of VotingPower.sol is an operator with a lemma of
its own: a sound record leads to a sound one, with the votes at the end of earlier blocks what they were.
The last part is what makes PACT, and PACT with SPACT, an implementation of `VoteLedger`.
The search's invariant is the interval: the answer lies in `[lower, upper]`.  For signatures the token's
invariant adds `NoncesSpent`: what was used has a nonce below the signer's.

**Staking.**  `StakesAccounted` is not inductive.  Its invariant, `StakingIInv`, needs that both token records
are sound; that the contract itself never delegates its PACT and holds at least as much as there is SPACT, or staking would let
one PACT vote twice; that the sum `currentTotalAmount` is the sum of what holders have staked; that a
holder's next unstake to pay is at most the first one not yet made; and that the cooldowns of what was paid are over.
The list of unstakes is summed by position, so that a claim, which pays an interval of it, splits the sum in two.

**Governor.**  The timelock's inductive invariant adds to the types that (a) whatever is queued was
announced, (b) every announcement was made `MinDelay` before its eta at the least, (c) what was
performed is past its eta, so it cannot be queued again - queueing needs an eta in the future
because `delay >= MinDelay > 0` - and is not queued now.  Without (c) "once" is not
inductive: a state with a performed call still queued would execute it again.  The governor
adds that proposals not yet created are blank, start before they end, that only the latest
proposal of a proposer may be live, and that a proposal's eta is 0 or was announced.
For the tallies, `TalliesIInv` adds that every receipt is backed: its votes are at most what the voter
had in PACT and the release token when the proposal started, a block whose votes are final by the time anyone can vote.
The release token may be replaced, or removed, during a vote; what stays is that the votes of *all* accounts in *all* tokens at that
block were within the supply, and that a voter has one receipt.  With it goes that a created proposal's first block is not 0 and lies
ahead of the block of its creation.  For `LifecycleForward` each call and each tick of a clock is compared
with `StateIn`, the state of a proposal as a function of its record, its time and the quorum; an execution that
changes the quorum leaves the other proposals' records and clocks alone, so `QuorumRejudges` says all of it.

**Communities.**  `CommunityAdminProofs` first shows of each operator on one community's record that a
*sound* record leads to one that *follows* it.  `Sound`: the counter is the
number of valid beneficiaries, the limit is what the owner set less a step for each of them and
at least one claim, and a claim is at most the original amount.  `Follows`: sound again, of the same
origin, and nobody who is gone is back.  The count needs the library's theorems on adding one
element to a finite set and removing one.  Then it lifts this to the actions.  The invariant adds
that `copyOf` and `previousCommunity` are communities, for a person comes with the record
the other community tells of; and to every action applies one of `OneFollows` (one community
changes), `TwoFollow` (a person is copied) and `NewFollows` (migration and split).

On that rest the types, which say that nothing is overdrawn: a claim pays no more than the balance, a tranche is a share
of what the treasury has, and a limit stays natural because it leaves room for a claim.  `ClaimedAmount` is a recursive function
over the updates; `AmountsExist` shows by `NaturalInduction` that there is one, `ClaimedAmountNat` that it is natural,
and `ConvertedIs` what it is after at most one update.

Claims need a third invariant, `HInv`, which ties the history to the records: a community *agrees* (`Agrees`)
with what its people received if it counts as many claims for each of them, puts the last one no earlier (`Recorded`) and, where amounts can
be compared, has claimed amounts that cover what was received, in the token of now (`Counted`).  Dates and
counts agree everywhere; the amounts are where the contract is fragile.  That a person without a state has claimed nothing is
needed for `addBeneficiaries`, which moves the date of the last claim and would lose a conversion; that two addresses made one
lose nothing rests on rounding down (`FloorsAdd`: converted together, amounts are worth no less than apart); and that an update of the
token converts everybody, on nobody having claimed in its block.  Calls that touch no claims are all of one kind, `SameClaims`.

**Loans.**  For Microcredit the invariant adds to `OneLoanAtATime` that every loan of a user but the last has
ended - `addLoan` looks at the last one only - and that a wallet without a user has not been moved;
without the first, a new loan could join an older open one.  An ended loan stays ended, or is marked as
mended, and only this has to be shown of the calls on one loan (`OneLoanChanges`); `addLoan` and
`changeUserAddress` have a lemma each.  The provers know records only as elements of some set, which is why `LoansShaped`
speaks of sequences of sequences over any shapes.

`BooksFollowLoans` compares three accounts with sums over all loans.  `BooksIInv` adds what its terms rest on: loans are typed; nothing
is repaid or owed before the claim; what was claimed is not canceled; dates are not in the future; and unless it was mended, a debt
covers the principal not yet repaid.  Every action but `addLoan` changes the loans one at a time or
not at all, so `CallKeepsBooks` asks of a call only by how much a loan's terms and the accounts move, and `TotalsChange` and
`TotalsGrow` carry that into the sums.  The debt is a recursive function over days, about which the provers
know nothing until it is known to exist: `DebtsExist` shows that it does, by `NaturalInduction` on the days, and `DebtGrows` that a day never lessens it.
`MaxLoans` may not be 0, for a new user gets a loan whatever the bound.

**Rewards.**  `SharesGivenOnce` says of a sum over periods, which the contract never has before it as a whole, that a
donor was given exactly that.  The invariant, `MinerIInv`, is about the books, a sequence of periods (`Books`): each period's
amounts are those of its donors added up; its reward goes on to the next period exactly if nobody had a part in it, donated
in its window or staked; and the contract knows of a donor's stake, from the last claim on, the
amount of each period or that it did not change.  Then it follows that the shares of a period add up to
its reward at the most, because they are rounded down, and that none is given of a reward that is carried on (`PeriodShares`,
`GivenWithinBases`).  The periods that begin with a call
(`Initialized`, a recursive function) keep the books one by one, by `NaturalInduction`, and so does the walk of
`CalculateReward`, whose invariant is that its running sums are those of the present period's window.

**Council and ambassadors.**  The council's tables hold by themselves once it is known that receipts are of proposals there are: a
new proposal then begins with as many receipts as votes, none.  For the ambassadors the
invariant adds that an account's index leads back to the account and is below the next index
(`EntitiesKnown`, `AmbassadorsKnown`): no two accounts share an index, so that replacing one takes nothing
from another.  `EntitiesApart` and `CommunitiesApart` say what a call about entities, or about communities,
leaves alone; the count of an entity's ambassadors needs the theorems on finite sets.

**Holders.**  The invariant is about what the script would have if it looked now: its amounts, with the events it has not seen
added up on top (`TokenEvents`), are the balances of all holders (`Agree`).  An event more is one addition more (`ReplayOneMore`),
and as the sender of a transfer had the amount, none of the script's corrections is ever made for a holder.  The zero address has an
account in the script and no balance in a token: that is an exception the property names, and so is whoever is counted for LP and
again for SPACT.  The number is then compared as cardinalities of finite sets.

**Reserves.**  A run's list of transactions is a plan, made when it started.  `PlanGood` says of what is left of it that together
with what was done it will do all: `initReserves` chunks cover the symbols (`InitPlan`), what is configured and what is still to be
are all that is meant (`ConfigurePlan`), the rates likewise (`RatesPlan`); and that the first call lends the role and the last one hands it
back; a plan without calls is no run, and leaves the outcome and the role as the last run left them.  A run that stops leaves `OutcomesGood` and `RolesGood`, from which the next one starts.  Chunks of any size leave
nothing of a table out and add nothing to it (`ChunkCovers`).

**Snapshots.**  Two things are compared while they change: the script and the chain.  For who is in the file, the invariant says of every
steady person that it was found or somebody is still to be asked about it.  For the copies it counts: the places of a person
in the file are no more than the pairs of a community and that person that were seen valid and will not be asked about
any more (`Told`).  An answer takes one pair out of what is pending, and adds one place at the most; a
new pair is asked about at no place, as the questions were fixed when the lengths came.  Lists only grow, and
name nobody twice, which is why a place stands for a person throughout.

**Merkle trees.**  Two facts are needed: the proof of every leaf leads to the root, and no proof leads anything else there.
For the first: `Precedes` is total, so `CombinedHash` does not depend on the side (`HashedEitherWay`).  The layers are a
tower that ends with one node, because each is shorter than the one below (`LayersAreTree`, by induction on the
length).  The walk of `Proof` keeps that the hash above the leaf, with the proof so far, is the node of the present layer at
its index; hence it ends with the root, in trees with any number of leaves, odd layers and equal leaves
(`ProofLeadsUp`).  For the second it is enough to look at the numbers a hash is made of: all of a root's are numbers of
its leaves (`RootMadeOf`), and the hash above a node keeps all the node's own, whatever pairs the proof gives
(`HashAboveHas`).  So what a proof leads to the root is one of the leaves (`OnlyLeavesLeadUp`).

The second airdrop's invariant follows: the root is that of the list in use, and whoever was paid was on a list whose root
the contract had.  The first one sorts accounts and leaves.  `InOrder` puts each at its rank, the number of those
that are less; ranks in a total order are different and all below the size of the set, so by counting every
place is taken and everybody has one (`InOrderIs`), and leaves are in the order of their
numbers (`LeavesPrecede`, `NodesInOrder`).  The file is then good once and for all (`FileGood`): its claims pass, differ in
index and in account, and no proof serves anything else.  On chain, balance, what the owner took and the claims made add
up to `Supply`, and the claims are worth no more, since they are a table's earnings under other names (`SumRenamed`);
so what is left covers what is unclaimed.

**Only model-checked.**  Liveness (`Terminates`, `EveryUnstakePaid`, `EveryProposalSettles`,
`FirstProdCompletes`), which is out of the prover's reach.  Deployment's four invariants: what is true of them is true
of the lists of the 38 scripts, which TLC goes through.

## 5. Not modelled

* uint96, uint32 and uint256 overflow of amounts and block numbers: the supply is 10^28 < 2^96
  and fixed.
* Event logs, names, descriptions of proposals, hashes and signature bytes (a message recovers
  to its signer exactly when nonce and content match; hashes of different things differ).
* Calls of an executed proposal back into the governor's public functions; an external call
  that reverts is the same as an execution that is not enabled.
* The list of all past stakeholders of Staking, which nothing reads on chain.
* `cancel` of the dummy proposal 0, which changes nothing.
* Of communities: the amounts per token, the list of beneficiaries and the totals `treasuryFunds` and
  `privateFunds`, which only views read; balances of tokens a community does not use;
  tokens sent to a community without `donate`; versions 1 and 2; `updatePreviousCommunity` and
  `updateCommunityAdmin` of a community, which its owner, the CommunityAdmin, never calls; and
  CommunityAdmin's calls that replace the contracts around it.
* The PACT balance of the second airdrop's contract: a claim it cannot pay reverts.  The code of
  generateMerkleTree.ts reads a list for tests, with the import of the snapshot's commented out; the model takes the snapshot's.
* Of proposals, the amounts of tokens that are moved (`MoveToken`): that the balance is there.
* The price of a swap: `SwapRates` says what the exchange gives, within the bounds of the instance.
* Of DonationMiner: the branch for donors who last claimed under version 2
  (DonationMinerImplementation.sol:1079), which changes nothing for those of this version; pausing, replacing the contracts around it, the conversion of donated tokens
  (a donation is its converted amount) and the list of single donations.
* Of Microcredit: the zero address as a wallet's new one (`changeUserAddress` accepts it); tokens other than cUSD and their conversions, maintainers, `transferERC20`, and the
  revenue contract beyond the amount it receives.
* `deploy/test` and everything under `test` and `mocks`: set-ups of tests.
* Of src/integrations (Moola): the getters and the deployment of single contracts, which are one call each,
  the tables of the other markets, and the code that verifies sources.
* Of Ambassadors: `updateCommunityAdmin`, which is for tests, and accounts replaced by the zero address.
* Vesting, LearnAndEarn, ReferralLink, Deposit, AirdropV3: left out for the time it
  takes, see the plan; their deployment and upgrades are part of `Deployment`.
* MicrocreditManager: this version of Microcredit does not call it, the call is commented out.
* Treasury and TreasuryLpSwap beyond balances and links: calls to Uniswap, whose pools would have to be
  invented.
* Scripts that print the answer of one call (getCommunityDetails.ts and the like);
  getCommunityRemoveBeneficiaryLog.ts refers to an address it does not define.

## 6. Plan

1. Governance, staking, PACT: done.
2. `Community` and `CommunityAdmin`: done.  Left to prove: how far amounts that are converted twice, or in another order,
   can be from what was received.
3. `DonationMiner` and `Microcredit`: done and proved.  Left to prove: the limits of managers; left to model: `Vesting` on
   top of the reward periods.
4. Deployment, airdrops and their scripts: done but for AirdropV3.
5. `Ambassadors` and `Council`: done, each by itself.  Left: who may lock a community, as a composition of
   Ambassadors and CommunityAdmin.  The Moola helpers: done.
6. `LearnAndEarn`, `ReferralLink`, `Deposit`, the Treasury's token table.
7. Further proofs: see the end of section 4 for what is only model-checked.
