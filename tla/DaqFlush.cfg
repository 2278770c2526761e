CONSTANTS
    Word = 262144
    Scale = 1000
    Requests <- MCOneRequest
    NumDevices = 1
    QueueSize = 2
    MaxLost = 0
    Faults = {"scanning"}
SPECIFICATION Spec
PROPERTY StopsEarlierScan
