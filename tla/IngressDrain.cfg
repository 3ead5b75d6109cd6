SPECIFICATION Spec
CONSTANTS
    m1 = m1  m2 = m2  m3 = m3  m4 = m4
    Msgs = {m1, m2}
    Wire <- ClashWire
    Keys = {"k1"}
    Hashes = {"h1", "h2"}
    NoHash = NoHash
    NoPayload = NoPayload
    NoOwner = NoOwner
    DrainOwner = DrainOwner
    Drains = {d1, d2}
    MaxDeliver = 2
    WorkerMaxAttempts = 2
    DrainMaxAttempts = 1
    Outcomes = {"succeeded", "uncertain"}
    Faults = {"slow"}
CHECK_DEADLOCK FALSE
INVARIANTS
    TypeOK
    RetainedPayloadMatches
    AttemptBudget
PROPERTIES
    KeepsPromise
    LiveLeaseIsRespected
