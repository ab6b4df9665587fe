CONSTANTS
  N = 3
  Types <- AllTypes
  RootPositions <- Anywhere
  DataCounts <- MCDataCounts
  Rounds = 2
  Crashes = TRUE
SPECIFICATION FairSpec
INVARIANTS TypeOK RoundIntact NoSpuriousEnd TeamEndComplete DeletedUnused
PROPERTY AllFinalize
