SPECIFICATION Spec
CONSTANTS
    t1 = t1
    a = a
    b = b
    w1 = w1
    w2 = w2
    None = None
    Targets = {t1}
    Contents = {a, b}
    Workers = {w1, w2}
    MaxRetries = 2
    BatchSize = 2
    MaxJobs = 4
    MaxWrites = 2
    MaxRequeues = 1
PROPERTIES
    ReadyIsKept
