SPECIFICATION Spec
CONSTANTS
    d1 = d1  d2 = d2  e1 = e1  e2 = e2
    Deliveries = {d1}
    Extractors = {e1}
    Chunks = {"c0", "c1", "c2"}
    Bodies = {"b1", "b2"}
    Generations = {"g1", "g2"}
    None = None
    ChunkOf <- JustC1
    BodyOf <- JustB1
    GenerationOf <- NewEvidence
    StartChunks <- Seeded
    StartBundles = {"g1"}
    StartPinned = FALSE
    MaxAttempts = 1
    Retries = 3
    Interrupts = 0
CHECK_DEADLOCK FALSE
INVARIANT
    AcceptedChunksStayActive
