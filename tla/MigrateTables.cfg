SPECIFICATION MigrationSpec
CONSTANTS
    d1 = d1
    d2 = d2
    Bucket = {1, 2}
    Server = {d1, d2}
    Dead = {d2}
    Plans <- AllPlans
    MaxDisturbances = 1
    Key = {k1, k2, k3}
    Value = {v1, v2}
    Absent = absent
    PacketMax = 2
    MaxWrites = 2
    MaxSends = 3
SYMMETRY Symmetries
INVARIANTS
    DoneMeansCopied
    MovedMeansCopied
    RemovedWereMigrated
    
CHECK_DEADLOCK FALSE
