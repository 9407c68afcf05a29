\* Two requests share the health and the key of one channel.
CONSTANTS
    a1 = a1
    a2 = a2
    b1 = b1
    r1 = r1
    r2 = r2
    None = None
    Request = {r1, r2}
    Route = {a1}
    Candidates <- OnlyA
    Owner <- OwnerOf
    RotationRounds <- TwoRounds
    RetryDelay = 1
    Failover = TRUE
    Deadline = FALSE
    Fallback = {}
    Classes = {"success", "badRequest", "serverError"}
    FailureThreshold = 2
    RecoveryCooldown = 0
SPECIFICATION Spec
SYMMETRY RequestSymmetry
INVARIANTS
    UnhealthyOnlyByFailures
    BlamedOnlyForOutages
