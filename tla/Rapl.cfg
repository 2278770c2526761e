SPECIFICATION FairSpec
CONSTANTS
  Programs <- MCPrograms
  Machines <- MCMachines
  Word = 3
  ClockWord = 4
  First <- MCFirst
  MaxEnergy = 4
INVARIANTS TypeOK Accurate EveryPackageIsShown
PROPERTY Ends
