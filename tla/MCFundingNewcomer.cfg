\* A donor who staked in the first period changes the stake in a later one.
SPECIFICATION MCSpec
CONSTANTS
  ana = ana
  ben = ben
  Donors = {ana, ben}
  StartingBlock = 1
  FirstReward = 8
  InitialSettings <- MCSettings
  SettingChanges <- MCSettingChanges
  InitialBalance = 16
  DonationAmounts = {1}
  StakeAmounts = {0, 1}
  MaxCalls = 5
  MaxBlock = 6
  None = None
  Wallets = {w1, w2}
  Managers = {ana, ben}
  InitialPool = 4
  Limits = {4}
  LoanAmounts = {2}
  Interests = {50}
  RepaymentAmounts = {1, 3}
  Corrections = {0, 1}
  Day = 2
  MaxTime = 4
  MaxLoans = 2
  MaxTransactions = 7
PROPERTY SkippedByNewcomersOnly
CHECK_DEADLOCK FALSE
