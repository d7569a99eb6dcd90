CONSTANTS
    Passphrases = {"alice", "bob"}
    MaxSlots = 3
    MaxMasters = 2
    MaxIds = 4
    Phrases = {"alice", "bob"}
    Plain = {"x"}
    DataSectors = 2
    Fips = TRUE
    Devices = {"blank", "legacy"}
    MaxFormats = 2
    MaxDamages = 1
    Runs = {"r"}
    Recipients = {"alice", "bob"}
    MaxOps = 5
    Half = 2
    Times = {0, 1}
    MaxWrites = 2
    Contents = {"x", "y"}
    MaxVersions = 3
    MaxEdits = 1
SPECIFICATION DiskSpec
INVARIANTS VolumeComesBack PastIsGone SealedTogether SnapshotsTell
PROPERTIES SlotsHold SharesHold
CHECK_DEADLOCK FALSE
