SPECIFICATION Spec
CONSTANTS
    Parts = {"lineage"}
    Backends = {"w1", "w2", "w3", "w4"}
    Work <- DepositWork
    Partition <- PartitionOf
    BatchGrant = 2
    ReadCommitted = {"w1", "w3"}
    Unstorable <- Refused
    Sessions = {b1, b2}
    Libraries <- HighwayLibraries
    CallContexts <- HighwayContexts
    PerfcacheEpochs = {1, 2}
    MaxSequence = 3
    RootBackends = {b1, b2}
    RootFrames <- SampleRoots
    RootRequests <- SampleRequests
    RootTables <- FoundTables
    MaxBuilds = 3
    MaxBuildFaults = 1
    Multiplier = 4
    Overhead = 1
    MinFrame = 2
    ReverseBytes = 1
    WorldSessions = {b1, b2}
    Contexts = {1}
    ProfileBatches <- WorldProfileBatches
    TestimonyBatches <- WorldTestimonyBatches
    WorldRequests <- WorldRequestBatches
    OccurrenceOf <- WorldOccurrenceOf
    Lineages <- WorldLineages
    Compositions <- WorldCompositions
    NoReceipt = NoReceipt
    MaxCount = 3
    MaxRequests = 3
    Executors = {b1, b2}
    Requests <- SampleCalls
    Plans = {"small", "large"}
    RowPartition <- PartitionOf
    MaxCalls = 2
    Raters = {b1, b2}
    RatingPeriods = {"p1"}
    Onboarded <- StandingOnboarded
    RootLists <- StandingRoots
    CounterLimit = 3
    MaxRatings = 2
INVARIANT
    StoredLineageIsAcyclic
CHECK_DEADLOCK FALSE
