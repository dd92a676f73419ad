\* Two requests in flight, one pair, a window of two, three faults.
CONSTANTS
    p1 = p1
    Slots = {s1, s2}
    Pairs = {p1}
    Size = 2
    MinimumCalls = 2
    MaxRetries = 1
    BadAnswers = {"ERROR", "EMPTY", "DUPLICATE"}
    MaxFaults = 3
SPECIFICATION FairSpec
INVARIANTS
    TypeOK
    AnswersTruthful
PROPERTIES
    OpenSparesServerB
    BreakerRecovers
    EveryRequestAnswered
