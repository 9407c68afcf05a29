\* A Claude client of a Chat upstream: the two protocols of the documentation's
\* example.
CONSTANTS
    Clients = {"messages"}
    Upstreams = {"chat"}
    MaxSteps = 5
    MaxTexts = 1
    MaxCalls = 2
    MaxTools = 0
SPECIFICATION Spec
INVARIANT ToolResultsArrive
CHECK_DEADLOCK FALSE
