SPECIFICATION FairSpec
CONSTANTS
    d1 = d1  d2 = d2  e1 = e1  e2 = e2
    Deliveries = {d1, d2}
    Extractors = {}
    Chunks = {"c0", "c1", "c2"}
    Bodies = {"b1", "b2"}
    Generations = {"g1", "g2"}
    None = None
    ChunkOf <- TwoChunks
    BodyOf <- SameBody
    GenerationOf <- NoExtraction
    StartChunks <- Seeded
    StartBundles = {None, "g1"}
    StartPinned = TRUE
    MaxAttempts = 4
    Retries = 3
    Interrupts = 2
CHECK_DEADLOCK FALSE
INVARIANTS
    AcceptedChunksStayActive
    SettledIsCovered
PROPERTIES
    EveryDeliveryIsStored
