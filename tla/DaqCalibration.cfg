CONSTANTS
    Word = 262144
    Scale = 1000
    Requests <- MCOneRequest
    NumDevices = 1
    QueueSize = 1
    MaxLost = 1
    Faults = {"message"}
SPECIFICATION Spec
INVARIANT CalibrationIsOwn
