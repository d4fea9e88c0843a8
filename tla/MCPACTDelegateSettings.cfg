\* One holder with two proposals that change the settings or hand the timelock
\* over to a successor.
SPECIFICATION FairSpec
CONSTANTS
  alice = alice
  bob = bob
  governor = governor
  MinDelay = 1
  MaxDelay = 2
  MinVotingDelay = 1
  MaxVotingDelay = 2
  MinVotingPeriod = 1
  MaxVotingPeriod = 2
  MinThreshold = 0
  MaxThreshold = 2
  GracePeriod = 2
  InitialConfig <- MCInitialConfig
  CallLists <- HandOverCalls
  Etas = {8}
  TimeSteps = {1}
  MaxTime = 9
  Voters = {alice}
  Tokens = {"PACT", "SPACT"}
  Supply = 1
  MaxBlock = 9
  ProposalMaxOperations = 2
  Creator = governor
  MaxProposals = 2
  ChangeBlocks = {}
INVARIANTS
  OneLiveProposal
  PerformedOnce
  MinimumNotice
PROPERTIES
  LifecycleForward
  EveryProposalSettles
CHECK_DEADLOCK FALSE
CONSTRAINT HandOverOrSettings
