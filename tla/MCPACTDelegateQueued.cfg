\* execute: a queued proposal can be executed once its eta has passed.
SPECIFICATION Spec
CONSTANTS
  alice = alice
  bob = bob
  governor = governor
  MinDelay = 1
  MaxDelay = 2
  MinVotingDelay = 1
  MaxVotingDelay = 2
  MinVotingPeriod = 1
  MaxVotingPeriod = 2
  MinThreshold = 0
  MaxThreshold = 2
  GracePeriod = 2
  InitialConfig <- MCInitialConfig
  CallLists <- PaymentOnly
  Etas <- MCEtas
  TimeSteps = {1}
  MaxTime = 8
  Voters = {alice, bob}
  Tokens = {"PACT", "SPACT"}
  Supply = 2
  MaxBlock = 8
  ProposalMaxOperations = 2
  Creator = governor
  MaxProposals = 2
  ChangeBlocks = {}
INVARIANTS
  QueuedIsExecutable
CHECK_DEADLOCK FALSE
