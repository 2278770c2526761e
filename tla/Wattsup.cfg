SPECIFICATION FairSpec
CONSTANTS
  Programs <- MCPrograms
  Requests <- MCRequests
  MaxRuns = 2
  MaxFaults = 1
  LineMax = 4
  ReadMax = 2
INVARIANTS TypeOK RepliesAreOwn DataIsData CountIsPrinted LogIsStopped SettingsTaken
PROPERTY Ends
