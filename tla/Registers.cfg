SPECIFICATION FairSpec
CONSTANTS
  Pairs <- MCPairs
  CoreSets <- MCCoreSets
  LastCore = 3
  MAX_CPUS = 2
  MaxKernel = 1
INVARIANTS TypeOK NoUpdateLost CoresReached SettingsRestored
PROPERTY Ends
