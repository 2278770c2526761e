CONSTANTS
    Word = 262144
    Scale = 1000
    Requests <- MCRequests
    NumDevices = 2
    QueueSize = 2
    MaxLost = 1
    Faults = {"message", "descriptor", "flush", "scanning"}
SPECIFICATION Spec
INVARIANTS TypeOK SizesFit ScanIsAsRequested CalibrationIsOwnIfAnswered
PROPERTY Ends
