\* Four calls, three of them by the owner of the one coupon they name.
CONSTANTS
    a = a
    b = b
    u1 = u1
    u2 = u2
    r1 = r1
    r2 = r2
    r3 = r3
    r4 = r4
    Coupons = {a, b}
    Users = {u1, u2}
    OwnerOf <- TwoCoupons
    Calls = {r1, r2, r3, r4}
    NoCall = NoCall
    UserOf <- Callers
    CodeOf <- Codes
SPECIFICATION FairSpec
INVARIANTS
    TypeOK
    RedeemedOnce
    ReplayTruthful
    RaceHasWinner
PROPERTIES
    EveryCallAnswered
