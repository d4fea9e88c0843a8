\* Two holders, two tokens, four blocks; one spender and three signed messages,
\* used in the first two blocks; or a search in every history of six blocks.
SPECIFICATION MCSpec
CONSTANTS
  alice = alice
  bob = bob
  pactToken = pactToken
  ZeroAddress = ZeroAddress
  Accounts = {alice, bob}
  InitialOwner = alice
  TokenContract = pactToken
  MaxSupply = 2
  MaxAllowance = 9
  Spenders = {bob}
  Messages <- MCMessages
  TimeSteps = {1}
  MaxBlock = 4
  MaxFrom = 6
  Blocks <- MCBlocks
  Histories <- MCHistories
INVARIANTS
  VotesAreDelegatedBalances
  SignatureUsedOnce
  ReturnsVotesAtBlock
PROPERTIES
  ImplementsVoteLedger
  Terminates
CONSTRAINT EarlyMessages
CHECK_DEADLOCK FALSE
