\* A device may answer after the driver has stopped waiting.
CONSTANTS
    SECTOR_SIZE = 2
    CapacitySectors = 2
    QueueSize = 4
    IndexLimit = 4
    LbaLimit = 4
    Values = {0, 1}
    MaxBytes = 4
    LateAnswers = TRUE
SPECIFICATION VirtioSpec
INVARIANT OneInFlight
CHECK_DEADLOCK FALSE
