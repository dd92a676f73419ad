\* One fault is enough to strand a reservation.
CONSTANTS
    k1 = k1
    c1 = c1
    c2 = c2
    Pairs = {k1}
    Calls = {c1, c2}
    NoCall = NoCall
    PairOf <- AskedTwice
    Unpublishable = {}
    Sweeps = {s1}
    Consumer = Consumer
    MaxPublishAttempts = 2
    MaxDeliveryAttempts = 2
    BatchSize = 1
    MaxFaults = 1
    MaxExpiries = 0
SPECIFICATION Spec
INVARIANT ReservationRecoverable
