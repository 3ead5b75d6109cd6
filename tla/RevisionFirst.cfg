SPECIFICATION Spec
CONSTANTS
    d1 = d1  d2 = d2  e1 = e1  e2 = e2
    Deliveries = {d1, d2}
    Extractors = {e1}
    Chunks = {"c0", "c1", "c2"}
    Bodies = {"b1", "b2"}
    Generations = {"g1", "g2"}
    None = None
    ChunkOf <- OneChunk
    BodyOf <- TwoBodies
    GenerationOf <- NewEvidence
    StartChunks <- Seeded
    StartBundles = {None, "g1"}
    StartPinned = FALSE
    MaxAttempts = 2
    Retries = 3
    Interrupts = 1
CHECK_DEADLOCK FALSE
INVARIANTS
    TypeOK
    ActiveResolves
    SettledIsCovered
PROPERTIES
    ActiveChunksOnlyGrow
