SPECIFICATION FairSpec
CONSTANTS
    s1 = s1  s2 = s2  b1 = b1
    Sessions = {s1}
    Builders = {b1}
    WalkOrder <- WalkOne
    Limits = {0}
    Modes = {"auto"}
    Rejected = {}
    ChunkCount <- Huge
    MaxPendingAttempts = 1
    LastRevision <- DeliveredOnce
    MaxPolicy = 1
    MaxFaults = 0
    Faults = {}
PROPERTIES
    DroppedSessionReturns
