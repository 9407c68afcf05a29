\* Three keys, every mode, every order of results and cancellations.
CONSTANTS
    Worker = {w1, w2, w3}
    Modes = {"first", "all", "stream"}
    Results = {"ok", "badRequest", "unauthorized", "serverError", "network"}
    NoOne = NoOne
    Nobody = Nobody
SPECIFICATION FairSpec
INVARIANTS
    ReportedAtMostOnce
    WinnerUndisturbed
    BlameMatchesOutages
PROPERTIES
    EverythingSettles
    ImplementsRace
\* The model is of one request, which ends.
CHECK_DEADLOCK FALSE
