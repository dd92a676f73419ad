CONSTANTS
    Members = {m1, m2}
    Nobody = Nobody
    MaxRecordsPerBatch = 2
    CommitThreshold = 2
    MaxRecords = 3
    MaxFaults = 2
    MaxStops = 1
SPECIFICATION FairSpec
INVARIANTS
    TypeOK
    NothingSkipped
    RepeatsPaidFor
PROPERTIES
    ImplementsRecordDelivery
    EveryRecordDelivered
