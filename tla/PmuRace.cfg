CONSTANTS
    Word = 4
    MaxEvents = 14
    TimerInExit = TRUE
SPECIFICATION Spec
INVARIANT ReportIsTheCount
