\* One pair asked for twice; two faults; one expiry.
CONSTANTS
    k1 = k1
    c1 = c1
    c2 = c2
    Pairs = {k1}
    Calls = {c1, c2}
    NoCall = NoCall
    PairOf <- AskedTwice
    Unpublishable = {}
    Sweeps = {s1, s2}
    Consumer = Consumer
    MaxPublishAttempts = 2
    MaxDeliveryAttempts = 2
    BatchSize = 1
    MaxFaults = 2
    MaxExpiries = 1
SYMMETRY SweepSymmetry
SPECIFICATION Spec
INVARIANTS
    TypeOK
    ResultTruthful
    SuccessCarriesCode
    AcceptedIsTracked
    AcceptedOnce
    RepublishCapped
PROPERTY ImplementsReservation
