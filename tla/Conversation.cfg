\* All twelve directions, conversations of up to five steps.
CONSTANTS
    Clients = {"chat", "responses", "messages", "generateContent"}
    Upstreams = {"chat", "responses", "messages", "generateContent"}
    MaxSteps = 5
    MaxTexts = 2
    MaxCalls = 2
    MaxTools = 2
SPECIFICATION Spec
INVARIANTS
    EveryCallAnswered
    ResultsArrive
    RolesAlternate
    UserIsHeard
    AnswerArrives
    ToolsOffered
\* The model is of one conversation, which ends.
CHECK_DEADLOCK FALSE
