\* The threads keep their schedule; only pthread_create may fail.
CONSTANTS
    NumPoints = 8
    NumChannels = 2
    MaxSamples = 19
    MaxFailures = 0
    Timely = TRUE
    Faults = {"create"}
SPECIFICATION Spec
INVARIANT WrapsToZero
PROPERTIES ImplementsStream Drains Stops
