\* Two users and a third for one coupon, one request that cannot be published,
\* batches of one, one fault, under fairness.
CONSTANTS
    u1 = u1
    u2 = u2
    u3 = u3
    t1 = t1
    c1 = c1
    c2 = c2
    r3 = r3
    Users = {u1, u2, u3}
    Types = {t1}
    Others = {r3}
    UserOf <- Callers
    TypeOf <- Asked
    Total <- OneLeft
    MaxTotal = 2
    Pairs <- UserKeys
    Calls = {c1, c2}
    NoCall = NoCall
    PairOf <- AskedFor
    Unpublishable <- UserZero
    Sweeps = {s1}
    Consumer = Consumer
    MaxPublishAttempts = 2
    MaxDeliveryAttempts = 1
    BatchSize = 1
    MaxFaults = 1
    MaxExpiries = 0
SPECIFICATION SystemSpec
INVARIANT AnswersAddUp
PROPERTIES
    AcceptedConcludes
    SweepDrains
