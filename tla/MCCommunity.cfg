\* One community: beneficiaries come, move, are locked and removed, claim, while
\* the parameters, the token and the funds change.  A family of communities, the
\* ambassadors and the council, each by itself.
SPECIFICATION MCSpec
CONSTANTS
  alice = alice
  bob = bob
  manager = manager
  here = here
  there = there
  usd = usd
  eur = eur
  nobody = nobody
  Programs = {"community", "family", "ambassadors", "council"}
  Accounts = {alice, bob}
  Owner = manager
  NoAccount = nobody
  Assigned = {here}
  MaxEntities = 2
  MaxAmbassadors = 2
  Candidates = {alice, bob, manager}
  FirstMembers = {alice, bob}
  FirstQuorum = 1
  Quorums = {1, 2}
  MaxVotingPeriod = 1
  MaxCouncilBlock = 2
  MaxCouncilProposals = 1
  People = {alice, bob}
  Unit = 2
  RatioPrecision = 1
  DefaultAmount = 1
  MaxTokenListLength = 3
  NoCommunity = NoCommunity
  Communities = {here, there}
  NewCommunities = {here}
  Managers = {manager}
  Tokens = {usd, eur}
  CUSD = usd
  ManagerGift = 1
  InitialTreasury <- OneFund
  InitialSettings <- Careful
  SettingsChoices <- GenerousOnly
  RulesChoices <- TwoRules
  TrancheChoices <- SmallTranche
  MaxBeneficiariesChoices = {0}
  NewTokens = {eur}
  SwapRates = {1}
  Donations = {1}
  MaxBalance = 1
  MaxTreasury = 0
  IncomeBlocks = {3}
  MaxBlock = 3
INVARIANTS
  TypeOK
  LimitsMatchStates
  ClaimAffordable
  TablesAgree
  CouncilDecidesByQuorum
PROPERTIES
  NobodyClaimsEarlyOrTooMuch
  NeverReadmitted
SYMMETRY Symmetric
CONSTRAINT AloneOrFamily
CHECK_DEADLOCK FALSE
