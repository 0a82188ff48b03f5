\* Volumes of two and three clusters with every FAT.  A virtio disk of two
\* sectors behind a queue whose indices wrap after four requests, which stays
\* silent once it has missed a deadline.  A USB disk behind a control ring
\* whose size does not divide into TDs, a command ring of two and an event ring
\* of three TRBs, all of which wrap; reads of one or two chunks, and two faults,
\* so that one can hit the recovery from the other.  The number of submissions
\* is bounded, so a run may stop.
CONSTANTS
    SectorBytes = 2
    FatEntriesPerSector = 5
    MinClusters = 2
    DeviceBlocks = 8
    Disks <- MCDisks
    Sizes = {1, 5, 9}
    Offsets = {0, 3, 6}
    Lengths = {0, 5}
    MaxComponents = 2
    SECTOR_SIZE = 2
    CapacitySectors = 2
    QueueSize = 4
    IndexLimit = 4
    LbaLimit = 4
    Values = {0, 1}
    MaxBytes = 4
    LateAnswers = FALSE
    ControlTrbs = 7
    BulkTrbs = 3
    CommandTrbs = 2
    EventTrbs = 3
    FirstControl = 1
    Blocks = {0}
    MaxChunks = 2
    ReadyAttempts = 2
    MaxSubmitted = 17
    MaxFaults = 2
SPECIFICATION StorageSpec
INVARIANT ReadsInVolume
INVARIANT ReadFollowsChain
INVARIANT AnswersTrue
INVARIANT CompletionIsOwn
INVARIANT NothingRunsTwice
INVARIANT ReadReturnsBlocks
PROPERTY NoDmaReuse
PROPERTY WalkEnds
PROPERTY UsbCallsReturn
CHECK_DEADLOCK FALSE
