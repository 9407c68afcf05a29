\* Two concurrent calls on one key value that is removed and added again.
CONSTANTS
    e1 = e1
    e2 = e2
    e3 = e3
    c1 = c1
    c2 = c2
    None = None
    Entry = {e1, e3}
    Value = {"v1"}
    ValueOf <- EntryValue
    InitialKeys <- OneKey
    Caller = {c1, c2}
    Strategy = "random"
    Status = {0, 401, 403, 429, 500}
    FanoutCount = 1
    CounterMod = 2
    ConsecThreshold = 2
    PauseMultiplier = 1
    PauseMax = 5
    AdminPause = 2
    MaxConsec = 3
    MaxLent = 2
SPECIFICATION Spec
SYMMETRY CallerSymmetry
INVARIANTS
    HandedOutWasOpen
    ExcludingPicksMember
PROPERTY SkipEndsOnlyByResume
