CONSTANTS
    Sessions = {"s"}
    Operators = {"ann", "bob"}
    FirstByte <- FirstBytes
    None = None
    Timeout = 2
    MaxLog = 9
    MaxTime = 3
    Holders = {"alice"}
    ShortIds = {"k1"}
    EventKinds = {"KeyGen", "Destroy"}
    MaxMillis = 1
    MaxEvents = 3
    Artifacts = {"x"}
    MaxClock = 2
    Ops = {"sign"}
    IdWord = 4
    MaxRequests = 2
    MaxSends = 3
    MaxKeys = 2
    MaxMs = 2
    Subjects = {"s1", "s2"}
    Objects = {"Secret", "TopSecret", "FveyTopSecret"}
    Destinations = {"loopback4", "loopback6", "net10", "net172public", "public"}
    AttemptWord = 2
    NoZone = None
    Machines = {"m1", "m2"}
    HostNames = {"h"}
    Fallback = "fallback"
    Registers = {0, 7}
    MaxIndices = 3
    MaxBlobs = 1
    Pids = {1}
    EntropyWindow = 2
    WriteRateCap = 2
    WindowTicks = 2
    MaxWrites = 4
    MaxInstant = 3
    Bits = 3
    PrimPoly = 11
    Parity = 3
    Messages <- OneMessage
    Leaves = {0, 1}
    MaxBlocks = 5
    Places = {0, 3, 6}
    Noise = {6}
SPECIFICATION OmegaSpec
INVARIANTS LedgerHolds SessionAccounts BirthsInOrder ServedInTime Throttled
    NothingFlowsDown BoundToMachine DamageIsHandled
PROPERTIES ExpiredForGood NoOutletOpens
CHECK_DEADLOCK FALSE
