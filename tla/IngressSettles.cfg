SPECIFICATION FairSpec
CONSTANTS
    m1 = m1  m2 = m2  m3 = m3  m4 = m4
    Msgs = {m1, m3, m4}
    Wire <- SettlesWire
    Keys = {"k1", "k2"}
    Hashes = {"h1", "h2"}
    NoHash = NoHash
    NoPayload = NoPayload
    NoOwner = NoOwner
    DrainOwner = DrainOwner
    Drains = {}
    MaxDeliver = 5
    WorkerMaxAttempts = 5
    DrainMaxAttempts = 1
    Outcomes = {"succeeded", "uncertain", "failed_retryable", "quarantined"}
    Faults = {}
CHECK_DEADLOCK FALSE
PROPERTIES
    EveryMessageSettles
