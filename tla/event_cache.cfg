CONSTANTS
    Events = {e1}
    NoEvent = NoEvent
    Readers = {r1}
    Refresher = Refresher
    Ttl = 4
    MaxHold = 1
    MaxFaults = 2
SPECIFICATION FairSpec
INVARIANTS
    TypeOK
    StalenessBounded
PROPERTIES
    RefreshAhead
    ActiveEventsStayCached
