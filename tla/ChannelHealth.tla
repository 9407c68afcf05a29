---------------------------- MODULE ChannelHealth ----------------------------
(***************************************************************************)
(* The health of one channel (internal/channel/health.go), as operators on *)
(* a record.  Every method holds h.mu, so each operator is one atomic step *)
(* of the modules that use it.                                             *)
(*                                                                         *)
(* "left" is recoveryAt - now in ticks.  IsHealthy asks for an instant     *)
(* strictly after recoveryAt, so left stops at Recovered = -1.             *)
(***************************************************************************)
EXTENDS Integers

CONSTANTS
    FailureThreshold,  \* NewChannelHealth's threshold, 3 in channel.go
    RecoveryCooldown   \* NewChannelHealth's cooldown in ticks

ASSUME ChannelHealthAssumption ==
    /\ FailureThreshold \in Nat \ {0}
    /\ RecoveryCooldown \in Nat

Recovered == -1

Healths ==
    [healthy : BOOLEAN,
     failures : Nat,
     left : Nat \cup {Recovered}]

NewChannelHealth == [healthy |-> TRUE, failures |-> 0, left |-> Recovered]

IsHealthy(h) == h.healthy \/ h.left = Recovered

\* Mutant: the failures before a success still count after it.
ReportSuccessKeepingCount(h) == [h EXCEPT !.healthy = TRUE]

ReportSuccess(h) == [h EXCEPT !.healthy = TRUE, !.failures = 0]

ReportFailure(h) ==
    IF h.failures + 1 >= FailureThreshold
    THEN [healthy |-> FALSE, failures |-> h.failures + 1, left |-> RecoveryCooldown]
    ELSE [h EXCEPT !.failures = @ + 1]

\* One tick of the clock.
Recover(h) == IF h.left = Recovered THEN h ELSE [h EXCEPT !.left = @ - 1]
=============================================================================
