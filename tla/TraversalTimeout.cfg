\* The request's time runs out while routes are left.
CONSTANTS
    a1 = a1
    a2 = a2
    b1 = b1
    r1 = r1
    r2 = r2
    None = None
    Request = {r1}
    Route = {a1, a2}
    Candidates <- OnlyA
    Owner <- OwnerOf
    RotationRounds <- OneRound
    RetryDelay = 1
    Failover = TRUE
    Deadline = FALSE
    Fallback = {}
    Classes = {"success", "unauthorized", "rateLimited", "serverError", "streamBroken"}
    FailureThreshold = 2
    RecoveryCooldown = 0
SPECIFICATION Spec
INVARIANTS
    TimeoutIsAnswered
