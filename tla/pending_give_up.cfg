\* A late answer of server-c after the scheduler gave up; no fault at all.
CONSTANTS
    k1 = k1
    c1 = c1
    c2 = c2
    Pairs = {k1}
    Calls = {c1, c2}
    NoCall = NoCall
    PairOf <- AskedTwice
    Unpublishable = {}
    Sweeps = {s1}
    Consumer = Consumer
    MaxPublishAttempts = 2
    MaxDeliveryAttempts = 2
    BatchSize = 1
    MaxFaults = 0
    MaxExpiries = 0
SPECIFICATION Spec
INVARIANT GaveUpMeansNotIssued
