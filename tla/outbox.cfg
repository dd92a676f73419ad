\* Three events, a batch of two, one event that is refused for ever.
CONSTANTS
    e1 = e1
    e2 = e2
    e3 = e3
    c1 = c1
    c2 = c2
    Events = {e1, e2, e3}
    Refused = {e3}
    Cycles = {c1, c2}
    BatchSize = 2
    MaxFaults = 2
SPECIFICATION FairSpec
INVARIANTS
    TypeOK
    PublishedWasSent
    CopiesBounded
PROPERTIES
    EveryEventAnnounced
