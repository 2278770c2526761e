\* Threads of any speed, transfers that fall short or are refused.
CONSTANTS
    NumPoints = 8
    NumChannels = 2
    MaxSamples = 12
    MaxFailures = 2
    Timely = FALSE
    Faults = {"short", "submit"}
SPECIFICATION SafetySpec
INVARIANTS TypeOK InBounds ColumnsKeepTheirChannel WholeLines
