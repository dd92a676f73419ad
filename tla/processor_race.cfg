\* Two workers, two users, one coupon left and a second one after a restock;
\* the first user asks under two requestIds.
CONSTANTS
    u1 = u1
    u2 = u2
    t1 = t1
    r1 = r1
    r2 = r2
    r3 = r3
    m1 = m1
    m2 = m2
    m3 = m3
    Users = {u1, u2}
    Types = {t1}
    Requests = {r1, r2, r3}
    NoRequest = NoRequest
    UserOf <- RaceUserOf
    TypeOf <- RaceTypeOf
    Total <- OneLeft
    MaxTotal = 2
    Workers = {w1, w2}
    NoWorker = NoWorker
    Records = {m1, m2, m3}
    NoRecord = NoRecord
    RequestOf <- RaceOf
    UnknownEvent = {}
    UnknownType = {}
    MaxAttempts = 2
    MaxCrashes = 1
SYMMETRY WorkerSymmetry
SPECIFICATION Spec
INVARIANTS
    TypeOK
    InventoryConserved
    ResultRecordedOnce
    NoSilentLoss
PROPERTIES
    SoldOutTruthful
    ImplementsCouponIssuing
