----------------------------- MODULE KeyPoolProps -----------------------------
(***************************************************************************)
(* What the key pool promises.                                              *)
(***************************************************************************)
EXTENDS KeyPool

Pcs == ReadSection \cup {"idle", "gap", "lock", "unlocked", "return"}

\* The variables keep the types of the Go fields they stand for.
TypeOK ==
    /\ keys \in Seq(Entry)
    /\ unused \subseteq Entry
    /\ state \in [Entry -> KeyStates]
    /\ counter \in Nat
    /\ lent \in [Value -> Nat]
    /\ pc \in [Caller -> Pcs]
    /\ op \in [Caller -> {"next", "excluding", "getn"}]
    /\ pos \in [Caller -> Nat \ {0}]
    /\ avail \in [Caller -> Seq(Entry)]
    /\ expired \in [Caller -> BOOLEAN]
    /\ excl \in [Caller -> SUBSET Value]
    /\ pick \in [Caller -> Entry \cup {None}]
    /\ shut \in [Caller -> SUBSET Entry]
    /\ open \in [Caller -> SUBSET Entry]

\* A key whose consecutive errors reached the threshold is paused, whatever
\* selections, reports and operator actions interleaved (recordError sets the
\* pause, ResetPause, Resume and OnSuccess clear both): the error count never
\* outlives the pause that it caused.
ThresholdMeansPaused ==
    \A e \in Entry : state[e].consec >= Threshold => state[e].paused

\* Every candidate and every key a selection call settles on was eligible at
\* some instant of that call: the call never serves a key that was skipped or
\* inside its pause all along (IsAvailable in Next, NextExcluding and GetN).
HandedOutWasOpen ==
    \A c \in Caller : (ToSet(avail[c]) \cup {pick[c]}) \cap shut[c] = {}

\* Next and NextExcluding say "no key" only if no candidate stayed eligible
\* for the whole call, however reports and operator actions raced with it.
NilOnlyWhenExhausted ==
    \A c \in Caller : (pc[c] = "return" /\ pick[c] = None) => open[c] = {}

\* NextExcluding settles on a key that is still in the pool: RemoveKey cannot
\* run between its scan and its choice.
ExcludingPicksMember ==
    \A c \in Caller :
        (op[c] = "excluding" /\ pc[c] \in {"check", "reset"}) => pick[c] \in ToSet(keys)

\* docs/06 3.1: a key skipped for a 401 comes back only by an explicit Resume,
\* not by a late success, an expired pause or the reset in Next.
SkipEndsOnlyByResume ==
    [][\A e \in Entry :
          (state[e].skipped /\ ~state'[e].skipped) => ResumeKey(ValueOf[e])]_vars

\* A call never runs for ever: it neither deadlocks on kp.mu (Next releases
\* the read lock before it takes the write lock) nor loops.
CallReturns == \A c \in Caller : pc[c] # "idle" ~> pc[c] = "idle"

-----------------------------------------------------------------------------
(* The inductive invariant behind HandedOutWasOpen and SkipEndsOnlyByResume. *)

\* A caller between two calls holds no key.
IdleClean == \A c \in Caller : pc[c] = "idle" => avail[c] = <<>> /\ pick[c] = None

\* An entry that AddKey has not created yet is not in the pool nor skipped.
UnusedFresh == \A e \in unused : e \notin ToSet(keys) /\ ~state[e].skipped

IInv == TypeOK /\ IdleClean /\ UnusedFresh /\ HandedOutWasOpen

-----------------------------------------------------------------------------
(* The inductive invariants behind NilOnlyWhenExhausted and                  *)
(* ExcludingPicksMember: what a call knows at each of its labels.            *)

\* A call starts its scan at the first key.
IdleAtStart == \A c \in Caller : pc[c] = "idle" => pos[c] = 1

\* No candidate is missed: the positions already scanned are settled, a full
\* candidate list covers every key open all along, and the labels reached with
\* no candidate leave none open.
NoneMissed(c) ==
    /\ pc[c] # "idle" => open[c] \subseteq ToSet(keys)
    /\ pc[c] \in {"scan", "probe"} =>
          \A i \in DOMAIN keys : i < pos[c] /\ keys[i] \in open[c] => keys[i] \in ToSet(avail[c])
    /\ pc[c] \in {"gap", "final"} => open[c] \subseteq ToSet(avail[c])
    /\ pc[c] \in {"lock", "unlocked", "rescan"} => open[c] = {}
    /\ pc[c] \in {"check", "reset"} => pick[c] \in Entry
    /\ pc[c] = "return" /\ pick[c] = None => open[c] = {}

\* NextExcluding never leaves the read section between its scan and its
\* choice, so its candidates and its choice are in the pool.
StaysInPool(c) ==
    op[c] = "excluding" =>
        /\ pc[c] \in {"idle", "scan", "check", "reset", "return"}
        /\ pc[c] \in {"scan", "check", "reset"} => ToSet(avail[c]) \subseteq ToSet(keys)
        /\ pc[c] \in {"check", "reset"} => pick[c] \in ToSet(keys)

CallInv == IdleAtStart /\ \A c \in Caller : NoneMissed(c) /\ StaysInPool(c)

=============================================================================
