\* One of the two airdrops, the holder count, or the setup of reserves.
SPECIFICATION MCSpec
CONSTANTS
  ana = ana
  ben = ben
  zero = zero
  Tables <- MCTables
  Keccak <- MCKeccak
  OtherProofs <- MCOtherProofs
  Supply = 9
  ClaimPeriod = 0
  MaxBlock = 1
  People = {ana, ben}
  Communities = {1, 2, 3}
  ChunkSize = 2
  MaxRuns = 2
  MaxChanges = 2
  InitialCommunities <- MCInitialCommunities
  InitialLists <- MCInitialLists
  LeafOf <- MCLeafOf
  InitialTerms <- MCTerms
  TermChanges <- MCTermChanges
  MaxTime = 1
  hal = hal
  ida = ida
  Holders = {hal, ida}
  ZeroAddress = zero
  MaxSupply = 2
  MaxTransfers = 2
  MaxEpoch = 3
  Markets <- MCMarkets
  InitChunks = 4
  EnableChunks = 2
  MaxHelperRuns = 3
SYMMETRY Symmetry
INVARIANTS
  ClaimsPaidAsListed
  SnapshotTakesTheValid
  AirdropPaysTheListed
  CountedOnceOrExplained
  HandedBack
  ReservesAsConfigured
CHECK_DEADLOCK FALSE
