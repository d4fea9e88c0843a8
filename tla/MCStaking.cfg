\* One holder stakes for itself and for the contract, delegates, gives PACT away,
\* unstakes and claims, while the owners change the cooldown and the miner's
\* staking contract.
SPECIFICATION FairSpec
CONSTANTS
  alice = alice
  bob = bob
  staking = staking
  ZeroAddress = ZeroAddress
  Accounts = {alice, staking}
  StakingContract = staking
  Supply = 2
  InitialBalances <- MCInitialBalances
  Cooldowns = {0, 1}
  Representatives = {alice}
  Donors = {alice}
  MaxBlock = 3
INVARIANTS
  StakesAccounted
  MinerInSync
PROPERTIES
  PaidOnceAfterCooldown
  EveryUnstakePaid
  ImplementsVoteLedger
