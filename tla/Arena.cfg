CONSTANTS
    Threads = {t1, t2}
    NoThread = NoThread
    Null = Null
    ChunkSize = 2
    MaxChunks = 2
SPECIFICATION FairSpec
INVARIANTS NoDoubleAllocation NothingLost
PROPERTIES ImplementsAllocator CallsReturn
