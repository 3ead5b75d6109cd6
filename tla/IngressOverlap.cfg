SPECIFICATION Spec
CONSTANTS
    m1 = m1  m2 = m2  m3 = m3  m4 = m4
    Msgs = {m1}
    Wire <- OneWire
    Keys = {"k1"}
    Hashes = {"h1"}
    NoHash = NoHash
    NoPayload = NoPayload
    NoOwner = NoOwner
    DrainOwner = DrainOwner
    Drains = {}
    MaxDeliver = 3
    WorkerMaxAttempts = 2
    DrainMaxAttempts = 1
    Outcomes = {"succeeded", "uncertain", "failed_retryable", "quarantined", "raises"}
    Faults = {"ack_wait", "slow", "crash", "error"}
CHECK_DEADLOCK FALSE
INVARIANTS
    SucceededIsStored
    RemovedIsSettled
    LoggedDeliveryIsCanonical
    QuarantineKeepsPayload
PROPERTIES
    KeepsPromise
    TerminalIsFinal
    UncertaintyStaysVisible
