\* Two holders: votes that move while they are cast, and competing proposals.
SPECIFICATION Spec
CONSTANTS
  alice = alice
  bob = bob
  governor = governor
  MinDelay = 1
  MaxDelay = 2
  MinVotingDelay = 1
  MaxVotingDelay = 2
  MinVotingPeriod = 1
  MaxVotingPeriod = 2
  MinThreshold = 0
  MaxThreshold = 2
  GracePeriod = 2
  InitialConfig <- MCInitialConfig
  CallLists <- CompetingCalls
  Etas <- MCEtas
  TimeSteps = {1}
  MaxTime = 6
  Voters = {alice, bob}
  Tokens = {"PACT", "SPACT"}
  Supply = 2
  MaxBlock = 6
  ProposalMaxOperations = 2
  Creator = governor
  MaxProposals = 2
  ChangeBlocks = {3, 4}
INVARIANTS
  TalliesMatchReceipts
  QueuedCallsOwned
PROPERTIES
  ImplementsTimelock
CONSTRAINT OneOrEvenVotes
SYMMETRY Symmetric
CHECK_DEADLOCK FALSE
