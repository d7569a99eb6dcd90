CONSTANTS
    Ops = {"sign"}
    IdWord = 4
    MaxRequests = 1
    MaxSends = 2
    MaxKeys = 1
    MaxMs = 1
SPECIFICATION IpcSpec
INVARIANT ServedOnce
CHECK_DEADLOCK FALSE
