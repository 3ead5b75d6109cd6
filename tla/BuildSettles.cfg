SPECIFICATION FairSpec
CONSTANTS
    s1 = s1  s2 = s2  b1 = b1
    Sessions = {s1, s2}
    Builders = {b1}
    WalkOrder <- WalkTwo
    Limits = {1}
    Modes = {"auto"}
    Rejected <- RefusedOnce
    ChunkCount <- LargeFirst
    MaxPendingAttempts = 1
    LastRevision <- DeliveredOnce
    MaxPolicy = 2
    MaxFaults = 1
    Faults = {"read", "feed", "sequence", "write", "kill", "projector", "raise"}
PROPERTIES
    EverySessionSettles
