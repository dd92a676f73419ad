\* Two workers, one good record and two poison ones, one crash, no restock,
\* under fairness.
CONSTANTS
    u1 = u1
    u2 = u2
    t1 = t1
    r1 = r1
    r2 = r2
    r3 = r3
    m1 = m1
    m2 = m2
    m3 = m3
    Users = {u1, u2}
    Types = {t1}
    Requests = {r1, r2, r3}
    NoRequest = NoRequest
    UserOf <- PoisonUserOf
    TypeOf <- PoisonTypeOf
    Total <- OneLeft
    MaxTotal = 1
    Workers = {w1, w2}
    NoWorker = NoWorker
    Records = {m1, m2, m3}
    NoRecord = NoRecord
    RequestOf <- PoisonOf
    UnknownEvent = {r2}
    UnknownType = {r3}
    MaxAttempts = 2
    MaxCrashes = 1
SPECIFICATION FairSpec
PROPERTY EveryRecordConcludes
