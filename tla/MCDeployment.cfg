\* Three runs of any scripts, and two proposals, on one of three networks.
SPECIFICATION Spec
CONSTANTS
  Networks = {"mainnet", "alfajores", "local"}
  Tags <- AllTags
  MaxInvocations = 3
  MaxInterrupted = 1
  MaxProposals = 2
INVARIANTS
  AllocationsSentOnce
  CompletedProdIsGoverned
  WiredToInitialized
  QueuedProposalsExecutable
PROPERTIES
  FirstProdCompletes
CHECK_DEADLOCK FALSE
