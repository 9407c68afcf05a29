------------------------------ MODULE KeyState ------------------------------
(***************************************************************************)
(* The availability half of one upstream key's health record               *)
(* (internal/channel/keystate.go), as operators on a record.  Every method *)
(* of KeyState locks ks.mu for its whole body, so each operator below is   *)
(* one atomic step of the modules that use it.                             *)
(*                                                                         *)
(* Time is the number of ticks left: "left" is PauseUntil - now, which a   *)
(* Tick of the using module decreases.  It stops at Expired, the first     *)
(* instant strictly after PauseUntil, because IsAvailable (not before) and *)
(* IsPauseExpired (after) disagree exactly when now = PauseUntil.          *)
(*                                                                         *)
(* The counters that no branch of the pool reads (RequestCount, ErrorCount *)
(* and its breakdown, the latency total, the 429 window) are left out.     *)
(***************************************************************************)
EXTENDS Integers

CONSTANTS
    ConsecThreshold,   \* retry.consec_error_threshold as configured, may be <= 0
    PauseMultiplier,   \* retry.pause_multiplier_sec as configured, in ticks
    PauseMax,          \* retry.pause_max_sec as configured, in ticks
    AdminPause         \* the 24 hours of an operator's pause, in ticks

ASSUME KeyStateAssumption ==
    /\ ConsecThreshold \in Int
    /\ PauseMultiplier \in Int
    /\ PauseMax \in Int
    /\ AdminPause \in Nat \ {0}

Expired == -1

\* NewKeyState replaces a threshold, multiplier or maximum that is not positive.
OrDefault(configured, default) == IF configured <= 0 THEN default ELSE configured

Threshold  == OrDefault(ConsecThreshold, 3)
Multiplier == OrDefault(PauseMultiplier, 30)
MaxPause   == OrDefault(PauseMax, 600)

KeyStates ==
    [consec  : Nat,
     paused  : BOOLEAN,
     left    : Nat \cup {Expired},
     skipped : BOOLEAN]

NewKeyState == [consec |-> 0, paused |-> FALSE, left |-> Expired, skipped |-> FALSE]

-----------------------------------------------------------------------------
\* Queries

\* Mutant: the permanent skip is forgotten.
IsAvailableIgnoringSkip(s) == s.paused => s.left <= 0

IsAvailable(s) == ~s.skipped /\ (s.paused => s.left <= 0)

IsPauseExpired(s) == s.paused /\ s.left < 0

-----------------------------------------------------------------------------
\* Updates

PauseFor(s, d) == [s EXCEPT !.paused = TRUE, !.left = d]

\* Mutant: the consecutive errors survive the pause.
ResetPauseKeepingCount(s) == [s EXCEPT !.paused = FALSE, !.left = Expired]

ResetPause(s) == [s EXCEPT !.paused = FALSE, !.left = Expired, !.consec = 0]

Resume(s) == [s EXCEPT !.paused = FALSE, !.left = Expired, !.consec = 0, !.skipped = FALSE]

\* Mutant: a success also ends the permanent skip.
OnSuccessUnskipping(s) ==
    [s EXCEPT !.consec = 0, !.paused = FALSE, !.left = Expired, !.skipped = FALSE]

OnSuccess(s) == [s EXCEPT !.consec = 0, !.paused = FALSE, !.left = Expired]

On401(s) == [s EXCEPT !.skipped = TRUE]

\* The pause after the n-th consecutive error, n at or over the threshold.
PauseLength(n) ==
    LET wanted == (n - Threshold + 1) * Multiplier
    IN  IF wanted > MaxPause THEN MaxPause ELSE wanted

\* recordError: 400, 403, 404, other 4xx, network and stream errors.  The new
\* PauseUntil replaces whatever pause was running, a longer one included.
RecordError(s) ==
    LET n == s.consec + 1
    IN  IF n >= Threshold
        THEN [s EXCEPT !.consec = n, !.paused = TRUE, !.left = PauseLength(n)]
        ELSE [s EXCEPT !.consec = n]

\* On429 and recordErrorWithoutPause (5xx) only count.
RecordOnly(s) == s

\* One tick of the clock, seen by this key.
Elapse(s) == IF s.left = Expired THEN s ELSE [s EXCEPT !.left = @ - 1]
=============================================================================
