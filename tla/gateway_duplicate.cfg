\* One request at a time, one fault, and no error answer of server-b: the retry
\* after a timeout meets the reservation of the first attempt.
CONSTANTS
    p1 = p1
    Slots = {s1}
    Pairs = {p1}
    Size = 2
    MinimumCalls = 2
    MaxRetries = 1
    BadAnswers = {}
    MaxFaults = 1
SPECIFICATION Spec
INVARIANT DuplicateFollowsAcceptance
