CONSTANTS
    p1 = p1  p2 = p2
    v1 = v1  v2 = v2
    Procs = {p1, p2}
    Payloads = {v1, v2}
    NoFile = NoFile
    Empty = Empty
    Torn = Torn
    Exclusive = TRUE
    BarePath = FALSE
    IoFaults = TRUE
    Passphrases = {"p", "q"}
    Texts = {"empty", "x", "y"}
    MaxSalts = 2
    Vault = {"a"}
    Elsewhere = {"c"}
    Passwords = {"p"}
    Default = "local"
    Portable = {"d1", "d2"}
    None = "none"
    Keys = {"k", "l"}
    Contents <- FileContents
    MaxFiles = 2
    MaxDamages = 2
    Names = {"f", "g"}
    CacheLimit = 1
    MaxLength = 1
    MaxHandles = 2
    MaxIds = 1
SPECIFICATION VolumesSpec
INVARIANTS TypeOK VolumeWhole LogCoversRename ChainTells InstalledRuns
    TextsSurvive
PROPERTIES AckedIsDurable  OnlyFormatTouches MountHolds
CHECK_DEADLOCK FALSE
