--------------------------------- MODULE Race ---------------------------------
(***************************************************************************)
(* What sending one request to several contenders promises: the answer is   *)
(* that of a contender that did well, and there is none only when all did   *)
(* badly.                                                                    *)
(***************************************************************************)
CONSTANTS Contender, NoOne, Nobody

VARIABLES
    ended,   \* how each contender ended, if it has
    answer   \* the contender whose answer is used; NoOne yet, or Nobody

raceVars == <<ended, answer>>

\* A contender that does not take part counts as one that did badly.
RaceInit == ended \in [Contender -> {"running", "bad"}] /\ answer = NoOne

EndWell(c) ==
    /\ ended[c] = "running"
    /\ ended' = [ended EXCEPT ![c] = "well"]
    /\ UNCHANGED answer

EndBadly(c) ==
    /\ ended[c] = "running"
    /\ ended' = [ended EXCEPT ![c] = "bad"]
    /\ UNCHANGED answer

Win(c) ==
    /\ answer = NoOne
    /\ ended[c] = "well"
    /\ answer' = c
    /\ UNCHANGED ended

Lose ==
    /\ answer = NoOne
    /\ \A c \in Contender : ended[c] = "bad"
    /\ answer' = Nobody
    /\ UNCHANGED ended

RaceNext ==
    \/ \E c \in Contender : EndWell(c) \/ EndBadly(c) \/ Win(c)
    \/ Lose

RaceSpec == RaceInit /\ [][RaceNext]_raceVars
=============================================================================
