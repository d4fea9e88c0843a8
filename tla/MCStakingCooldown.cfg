\* One holder stakes, unstakes with a cooldown of a block and claims.
SPECIFICATION Spec
CONSTANTS
  alice = alice
  bob = bob
  staking = staking
  ZeroAddress = ZeroAddress
  Accounts = {alice, staking}
  StakingContract = staking
  Supply = 2
  InitialBalances <- MCInitialBalances
  Cooldowns = {1}
  Representatives = {alice}
  Donors = {alice}
  MaxBlock = 3
INVARIANTS
  ClaimableFromCooldownBlock
