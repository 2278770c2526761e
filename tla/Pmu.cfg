CONSTANTS
    Word = 4
    MaxEvents = 14
    TimerInExit = FALSE
SPECIFICATION Spec
INVARIANTS TypeOK TotalIsExact ReportIsTheCount NoTimerOutlivesModule
PROPERTY CatchesUp
