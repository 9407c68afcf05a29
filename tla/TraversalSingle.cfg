\* Failover off: one request stays on the one channel chosen for it, and ends.
CONSTANTS
    a1 = a1
    a2 = a2
    b1 = b1
    r1 = r1
    r2 = r2
    None = None
    Request = {r1}
    Route = {a1, a2, b1}
    Candidates <- AB
    Owner <- OwnerOf
    RotationRounds <- TwoRounds
    RetryDelay = 1
    Failover = FALSE
    Deadline = FALSE
    Fallback = {"B"}
    Classes = {"success", "unauthorized", "rateLimited", "badRequest", "clientError", "localError"}
    FailureThreshold = 2
    RecoveryCooldown = 0
SPECIFICATION FairSpec
INVARIANTS
    NoKeyFaultShown
    AnsweredWhileAlive
PROPERTY EveryRequestEnds
