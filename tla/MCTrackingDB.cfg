SPECIFICATION FairSpec
CONSTANTS
    BatchMaxSize = 2
    BatchInterval = 2
    SchemaAttempts = 2
    MaxRecords = 3
    MaxFlushes = 2
INVARIANTS
    TypeOK
    FlushedRecordsAreSettled
    StoppedWorkerSettledAll
PROPERTIES
    ImplementsLog
    EveryRecordSettles
    EveryFlushIsServed
CHECK_DEADLOCK FALSE
