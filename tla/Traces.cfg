SPECIFICATION FairSpec
CONSTANTS
  Tools <- MCTools
  Rates = {100, 1000}
  MaxLines = 11
  MaxLag = 1
  Levels <- MCLevels
INVARIANTS TypeOK Debounced TracesAreWhole PulsesAreLong BouncesStartNothing
PROPERTY Ends
