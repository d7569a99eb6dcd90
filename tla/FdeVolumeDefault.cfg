CONSTANTS
    Phrases = {"alice", "bob"}
    Plain = {"x"}
    DataSectors = 2
    Fips = FALSE
    Devices = {"blank"}
    MaxFormats = 1
    MaxDamages = 0
SPECIFICATION FdeSpec
INVARIANT Reopens
