\* One request over three routes of two channels, two rounds on A; a channel's deadline may
\* pass before the request's.
CONSTANTS
    a1 = a1
    a2 = a2
    b1 = b1
    r1 = r1
    r2 = r2
    None = None
    Request = {r1}
    Route = {a1, a2, b1}
    Candidates <- AB
    Owner <- OwnerOf
    RotationRounds <- ATwoRounds
    RetryDelay = 1
    Failover = TRUE
    Deadline = TRUE
    Fallback = {}
    Classes = {"success", "rateLimited", "streamBroken"}
    FailureThreshold = 2
    RecoveryCooldown = 0
SPECIFICATION Spec
SYMMETRY RouteSymmetry
INVARIANTS
    AtMostOncePerRound
    NoReplayAfterReply
    NoMonopoly
    GivesUpOnlyWhenExhausted
PROPERTY CooldownRespected
