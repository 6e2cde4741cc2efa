SPECIFICATION Spec
CONSTANTS
    Parts = {"persistence", "highway", "root", "composition", "working set", "references", "world", "lineage",
             "standing", "reflection", "materialization"}
    Backends = {"w1", "w2", "w3", "w4"}
    Work <- DepositWork
    Partition <- PartitionOf
    BatchGrant = 2
    ReadCommitted = {"w1", "w3"}
    Unstorable <- Refused
    Sessions = {b1, b2}
    Libraries <- HighwayLibraries
    CallContexts <- HighwayContexts
    PerfcacheEpochs = {1, 2}
    MaxSequence = 3
    RootBackends = {b1, b2}
    RootFrames <- SampleRoots
    RootRequests <- SampleRequests
    RootTables <- FoundTables
    MaxBuilds = 3
    MaxBuildFaults = 1
    Multiplier = 4
    Overhead = 1
    MinFrame = 2
    ReverseBytes = 1
    WorldSessions = {b1, b2}
    Contexts = {1}
    ProfileBatches <- WorldProfileBatches
    TestimonyBatches <- WorldTestimonyBatches
    WorldRequests <- WorldRequestBatches
    OccurrenceOf <- WorldOccurrenceOf
    Lineages <- WorldLineages
    Compositions <- WorldCompositions
    NoReceipt = NoReceipt
    MaxCount = 3
    MaxRequests = 3
    Executors = {b1, b2}
    Requests <- SampleCalls
    Plans = {"small", "large"}
    RowPartition <- PartitionOf
    MaxCalls = 2
    Raters = {b1, b2}
    RatingPeriods = {"p1"}
    Onboarded <- StandingOnboarded
    RootLists <- StandingRoots
    CounterLimit = 3
    MaxRatings = 2
SYMMETRY Symmetric
INVARIANTS
    RootDepositIsWhole
    StandingIsWhole
    DepositsAreExact
    HighwayIsOneChain
    ExecutionsAreGrounded
    ReferencesAreGrounded
    WorldIsBound
    CalculationsAreExact
    ViewsAreColdReadable
    

    
CHECK_DEADLOCK FALSE
