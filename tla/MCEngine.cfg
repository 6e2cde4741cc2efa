SPECIFICATION Spec
CONSTANTS
    Batches <- SpoolBatches
    RecordType = 1
    MaxTotal = 4
    MaxOps = 8
    Contexts <- ActivationContexts
    Staged <- ActivationStaged
    Epochs = {"e0", "e1", "e2"}
    Slots = {1, 2}
    Perfcache = 1
    Providers = {"p1", "p2"}
    Offer <- ActivationOffer
    NoEpoch = NoEpoch
    MaxReceipts = 8
    Callers = {"c1", "c2", "c3"}
    Workers = {1, 2}
    Items <- RuntimeItems
    ChunkItems <- RuntimeChunkItems
    StateOf <- RuntimeStateOf
    Serial = {"c3"}
    Programs <- IsaPrograms
    Address <- IsaAddress
    Binding <- IsaBinding
    Bad <- IsaBad
    Roots <- IsaRoots
    MemoryGrant = 3
    MaxU = 15
    MaxU32 = 3
    HeaderBytes = 3
    DigestBytes = 2
    WordBytes = 1
    ReadWord <- LayoutWord
    Contracts <- LayoutContracts
    Cell = {0, 1, 2}
    MaxCells = 6
    MaxMetadata = 1
    MaxChanges = 1
    Parts = {"spool", "activation", "stream", "layout", "root", "tier0", "isa", "grant", "runtime"}
INVARIANTS
    SpoolIsFaithful
    ReceiptsAreReal
    
    LayoutIsCanonical
    RootIsCanonical
    Tier0IsExact
    ProgramIsOfItsInputs
    GrantsAreExact
    RunsAreExact
PROPERTY
    EveryRunReturns
CHECK_DEADLOCK FALSE
