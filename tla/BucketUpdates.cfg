SPECIFICATION Spec
CONSTANTS
    Key = {k1, k2, k3}
    Value = {v1, v2}
    Absent = absent
    PacketMax = 2
    MaxWrites = 2
    MaxSends = 3
INVARIANT
    UpdatesWhileMigratingArrive
CHECK_DEADLOCK FALSE
