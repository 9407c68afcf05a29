\* Calls return: two concurrent calls, no replacement entry.
CONSTANTS
    e1 = e1
    e2 = e2
    e3 = e3
    c1 = c1
    c2 = c2
    None = None
    Entry = {e1}
    Value = {"v1"}
    ValueOf <- EntryValue
    InitialKeys <- OneKey
    Caller = {c1, c2}
    Strategy = "random"
    Status = {0, 401, 403, 429, 500}
    FanoutCount = 1
    CounterMod = 2
    ConsecThreshold = 1
    PauseMultiplier = 1
    PauseMax = 1
    AdminPause = 2
    MaxConsec = 2
    MaxLent = 2
SPECIFICATION FairSpec
PROPERTY CallReturns
