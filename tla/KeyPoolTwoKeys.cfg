\* One selection call at a time over two keys; reports of another attempt, operators
\* and time fall inside the call (MaxLent = 2: the call and one attempt per key).
CONSTANTS
    e1 = e1
    e2 = e2
    e3 = e3
    c1 = c1
    c2 = c2
    None = None
    Entry = {e1, e2}
    Value = {"v1", "v2"}
    ValueOf <- EntryValue
    InitialKeys <- TwoKeys
    Caller = {c1}
    Strategy = "round-robin"
    Status = {0, 401, 429}
    FanoutCount = 1
    CounterMod = 2
    ConsecThreshold = 1
    PauseMultiplier = 1
    PauseMax = 1
    AdminPause = 2
    MaxConsec = 2
    MaxLent = 2
SPECIFICATION Spec
INVARIANTS
    TypeOK
    ThresholdMeansPaused
    NilOnlyWhenExhausted
