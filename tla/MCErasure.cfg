CONSTANTS
    Blocks <- ThreeBlocks
    MaxIdle = 1
    MaxErases = 2
    Files = {"f"}
    Outside = "o"
    Passes = 2
    MaxSize = 2
    MaxRuns = 2
    Width = 3
    Prim = 11
    Configs <- TwoCodes
    Plaintexts <- ThreePlaintexts
    Labels = {0, 1, 2}
    MaxSets = 2
    MaxDamages = 1
    Bits = 3
    Poly = 11
    Secrets = {6}
    Draws = {0, 3}
    MaxShares = 3
    MaxSplits = 2
SPECIFICATION RecoverySpec
INVARIANT AnyKOfN
CHECK_DEADLOCK FALSE
