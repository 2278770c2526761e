\* A number of channels that does not divide half the ring.
CONSTANTS
    NumPoints = 8
    NumChannels = 3
    MaxSamples = 12
    MaxFailures = 0
    Timely = TRUE
    Faults = {}
SPECIFICATION Spec
INVARIANT HalfAtATime
