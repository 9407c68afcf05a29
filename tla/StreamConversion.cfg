\* All twelve directions, answers of up to four fragments.
CONSTANTS
    Sources = {"chat", "responses", "messages", "generateContent"}
    Targets = {"chat", "responses", "messages", "generateContent"}
    MaxFragments = 4
    MaxCalls = 2
    Json <- MCJson
SPECIFICATION FairSpec
INVARIANTS
    TypeOK
    ItemsWellFormed
    BlocksWellFormed
    TextDelivered
    CallsDelivered
    SuccessIsComplete
    FailureIsTold
PROPERTY HandlerReturns
\* The model is of one stream, which ends.
CHECK_DEADLOCK FALSE
