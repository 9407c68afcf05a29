------------------------------- MODULE KeyPool -------------------------------
(***************************************************************************)
(* The key pool of one channel (internal/channel/keypool.go) under          *)
(* concurrent selection calls, late reports of earlier attempts, operator   *)
(* actions and time.                                                        *)
(*                                                                          *)
(* kp.mu is a readers-writer lock.  Reports, scans and FindAvailable hold   *)
(* the read side, so they interleave with each other one KeyState call at   *)
(* a time; PauseKey, ResumeKey, RemoveKey, AddKey and the reset in Next     *)
(* hold the write side and wait for every reader.  A selection call is a    *)
(* process: pc names the critical section it is in, pos the next position   *)
(* it reads.                                                                *)
(*                                                                          *)
(* An Entry is a *KeyEntry, ValueOf[e] its API key.  Removing a key and     *)
(* adding the same value again makes a new entry; reports find the entry    *)
(* by value, so a late one lands on the new entry.                          *)
(***************************************************************************)
EXTENDS KeyState, Sequences, SequencesExt

CONSTANTS
    Entry,        \* key entries that exist during the run
    Value,        \* API key values
    ValueOf,      \* the value of each entry
    InitialKeys,  \* the configured keys, in order
    Caller,       \* concurrent selection calls
    Strategy,     \* key_strategy
    Status,       \* upstream statuses an attempt ends with, 0 for no response
    FanoutCount,  \* fanout.count, the n of GetN
    CounterMod,   \* the round-robin counter is a uint64: 2^64 in the code
    None,         \* no entry
    MaxConsec,    \* bound: consecutive errors counted per key
    MaxLent       \* bound: attempts outstanding per key value

ASSUME KeyPoolAssumption ==
    /\ ValueOf \in [Entry -> Value]
    /\ InitialKeys \in Seq(Entry)
    /\ \A i, j \in DOMAIN InitialKeys :
          ValueOf[InitialKeys[i]] = ValueOf[InitialKeys[j]] => i = j
    /\ Status \subseteq Nat
    /\ FanoutCount \in Nat
    /\ CounterMod \in Nat \ {0}
    /\ None \notin Entry
    /\ MaxConsec \in Nat
    /\ MaxLent \in Nat

VARIABLES
    keys,     \* kp.keys
    unused,   \* entries AddKey can still create
    state,    \* the KeyState of each entry
    counter,  \* kp.counter
    lent,     \* attempts that will still report, per value
    pc, op, pos, avail, expired, excl, pick,  \* the selection call of each caller
    shut,     \* history: entries closed ever since the call began
    open      \* history: candidates open ever since the call began

callVars == <<op, pos, avail, expired, excl, pick>>
poolVars == <<keys, unused, counter>>
vars == <<keys, unused, state, counter, lent, pc, op, pos, avail, expired, excl, pick, shut, open>>

-----------------------------------------------------------------------------
\* Open says what the documents mean by an eligible key: not permanently
\* skipped and not inside its pause.  The history variables use it, the code
\* uses IsAvailable.
Open(s) == ~(s.skipped \/ (s.paused /\ s.left > 0))

Watch ==
    /\ shut' = [c \in Caller |->
          {e \in (IF pc[c] = "idle" THEN Entry ELSE shut[c]) : ~Open(state'[e])}]
    /\ open' = [c \in Caller |->
          {e \in (IF pc[c] = "idle" THEN Entry ELSE open[c]) :
              Open(state'[e]) /\ e \in ToSet(keys') /\ ValueOf[e] \notin excl'[c]}]

\* Mutants: the read lock is dropped after the scan, or kept by Next while it
\* waits for the write lock.
ReadSectionScanOnly == {"scan", "probe", "rescan"}
ReadSectionUpgrade == {"scan", "probe", "rescan", "final", "check", "reset", "lock"}

\* Callers that hold kp.mu.RLock.
ReadSection == {"scan", "probe", "rescan", "final", "check", "reset"}
NoReader == \A c \in Caller : pc[c] \notin ReadSection

EntriesOf(v) == {e \in ToSet(keys) : ValueOf[e] = v}

GoTo(c, label) == pc' = [pc EXCEPT ![c] = label]

-----------------------------------------------------------------------------
\* Selection: Next, NextExcluding and GetN

\* A call takes the read lock.  Only NextExcluding has an exclusion set.
StartCall(c) ==
    /\ pc[c] = "idle"
    /\ \A v \in Value : lent[v] + Cardinality({d \in Caller : pc[d] # "idle"}) < MaxLent
    /\ \E o \in {"next", "excluding", "getn"}, X \in SUBSET Value :
          /\ o # "excluding" => X = {}
          /\ o = "getn" => FanoutCount > 0
          /\ op' = [op EXCEPT ![c] = o]
          /\ excl' = [excl EXCEPT ![c] = X]
    /\ GoTo(c, "scan")
    /\ UNCHANGED <<state, lent, pos, avail, expired, pick, poolVars>>
    /\ Watch

\* One turn of "for _, k := range kp.keys": the availability test of one key.
\* The first scan of Next goes on to ask whether an unavailable key's pause
\* has expired.
ScanKey(c) ==
    /\ pc[c] \in {"scan", "rescan"}
    /\ pos[c] <= Len(keys)
    /\ LET e == keys[pos[c]] IN
          /\ avail' = [avail EXCEPT ![c] =
                IF IsAvailable(state[e]) /\ ValueOf[e] \notin excl[c] THEN Append(@, e) ELSE @]
          /\ IF pc[c] = "scan" /\ op[c] = "next" /\ ~IsAvailable(state[e])
             THEN GoTo(c, "probe")
             ELSE UNCHANGED pc
    /\ pos' = [pos EXCEPT ![c] = @ + 1]
    /\ UNCHANGED <<keys, unused, state, counter, lent, op, expired, excl, pick>>
    /\ Watch

ProbeExpired(c) ==
    /\ pc[c] = "probe"
    /\ expired' = [expired EXCEPT ![c] = @ \/ IsPauseExpired(state[keys[pos[c] - 1]])]
    /\ GoTo(c, "scan")
    /\ UNCHANGED <<keys, unused, state, counter, lent, op, pos, avail, excl, pick>>
    /\ Watch

\* Mutant: the scan stops one key early.
EndNextScanEarly(c) ==
    /\ pc[c] = "scan"
    /\ op[c] = "next"
    /\ pos[c] >= Len(keys)
    /\ GoTo(c, IF avail[c] # <<>> THEN "gap" ELSE IF expired[c] THEN "lock" ELSE "return")
    /\ UNCHANGED <<state, lent, callVars, poolVars>>
    /\ Watch

\* Next drops the read lock after its first scan.
EndNextScan(c) ==
    /\ pc[c] = "scan"
    /\ op[c] = "next"
    /\ pos[c] > Len(keys)
    /\ GoTo(c, IF avail[c] # <<>> THEN "gap" ELSE IF expired[c] THEN "lock" ELSE "return")
    /\ UNCHANGED <<state, lent, callVars, poolVars>>
    /\ Watch

\* Under the write lock Next resets every key that is not permanently skipped.
LockReset(c) ==
    /\ pc[c] = "lock"
    /\ NoReader
    /\ state' = [e \in Entry |->
          IF e \in ToSet(keys) /\ ~state[e].skipped THEN ResetPause(state[e]) ELSE state[e]]
    /\ GoTo(c, IF \A e \in ToSet(keys) : state[e].skipped THEN "return" ELSE "unlocked")
    /\ UNCHANGED <<lent, callVars, poolVars>>
    /\ Watch

\* Mutant: positions from zero.
RelockAtZero(c) ==
    /\ \/ pc[c] = "unlocked" /\ GoTo(c, "rescan")
       \/ pc[c] = "gap" /\ GoTo(c, "final")
    /\ pos' = [pos EXCEPT ![c] = 0]
    /\ UNCHANGED <<keys, unused, state, counter, lent, op, avail, expired, excl, pick>>
    /\ Watch

\* The read lock is taken again, for the second scan or the final validation.
Relock(c) ==
    /\ \/ pc[c] = "unlocked" /\ GoTo(c, "rescan")
       \/ pc[c] = "gap" /\ GoTo(c, "final")
    /\ pos' = [pos EXCEPT ![c] = 1]
    /\ UNCHANGED <<keys, unused, state, counter, lent, op, avail, expired, excl, pick>>
    /\ Watch

EndRescan(c) ==
    /\ pc[c] = "rescan"
    /\ pos[c] > Len(keys)
    /\ GoTo(c, IF avail[c] # <<>> THEN "gap" ELSE "return")
    /\ UNCHANGED <<state, lent, callVars, poolVars>>
    /\ Watch

\* Next's re-validation after the lock gap: availability only, not membership.
Revalidate(c) ==
    /\ pc[c] = "final"
    /\ pos[c] <= Len(avail[c])
    /\ IF IsAvailable(state[avail[c][pos[c]]])
       THEN pos' = [pos EXCEPT ![c] = @ + 1] /\ UNCHANGED avail
       ELSE avail' = [avail EXCEPT ![c] = RemoveAt(@, pos[c])] /\ UNCHANGED pos
    /\ UNCHANGED <<keys, unused, state, counter, lent, pc, op, expired, excl, pick>>
    /\ Watch

\* The candidates are complete and still under the read lock.
Filtered(c) ==
    \/ pc[c] = "final" /\ pos[c] > Len(avail[c])
    \/ pc[c] = "scan" /\ op[c] = "excluding" /\ pos[c] > Len(keys)

\* The strategies: round-robin advances the shared counter; the others choose
\* by statistics that are not modelled here, so any candidate may be chosen.
Chosen(candidates, n) ==
    IF Strategy = "round-robin"
    THEN {candidates[(n % Len(candidates)) + 1]}
    ELSE ToSet(candidates)

PickKey(c) ==
    /\ Filtered(c)
    /\ avail[c] # <<>>
    /\ counter' = IF Strategy = "round-robin" THEN (counter + 1) % CounterMod ELSE counter
    /\ \E e \in Chosen(avail[c], counter') : pick' = [pick EXCEPT ![c] = e]
    /\ GoTo(c, "check")
    /\ UNCHANGED <<keys, unused, state, lent, op, pos, avail, expired, excl>>
    /\ Watch

PickNone(c) ==
    /\ Filtered(c)
    /\ avail[c] = <<>>
    /\ GoTo(c, "return")
    /\ UNCHANGED <<state, lent, callVars, poolVars>>
    /\ Watch

\* "if selected.State.IsPauseExpired() { selected.State.ResetPause() }" is two
\* critical sections of the key's own lock.
CheckPick(c) ==
    /\ pc[c] = "check"
    /\ GoTo(c, IF IsPauseExpired(state[pick[c]]) THEN "reset" ELSE "return")
    /\ UNCHANGED <<state, lent, callVars, poolVars>>
    /\ Watch

ResetPick(c) ==
    /\ pc[c] = "reset"
    /\ state' = [state EXCEPT ![pick[c]] = ResetPause(@)]
    /\ GoTo(c, "return")
    /\ UNCHANGED <<lent, callVars, poolVars>>
    /\ Watch

\* The call's locals go out of scope.
Leave(c) ==
    /\ GoTo(c, "idle")
    /\ op' = [op EXCEPT ![c] = "next"]
    /\ pos' = [pos EXCEPT ![c] = 1]
    /\ avail' = [avail EXCEPT ![c] = <<>>]
    /\ expired' = [expired EXCEPT ![c] = FALSE]
    /\ excl' = [excl EXCEPT ![c] = {}]
    /\ pick' = [pick EXCEPT ![c] = None]

\* Next and NextExcluding return one key, or nil.
Return(c) ==
    /\ pc[c] = "return"
    /\ lent' = IF pick[c] = None THEN lent ELSE [lent EXCEPT ![ValueOf[pick[c]]] = @ + 1]
    /\ Leave(c)
    /\ UNCHANGED <<state, poolVars>>
    /\ Watch

\* GetN returns every available key, or FanoutCount of them after a shuffle.
ReturnMany(c) ==
    /\ pc[c] = "scan"
    /\ op[c] = "getn"
    /\ pos[c] > Len(keys)
    /\ \E S \in SUBSET ToSet(avail[c]) :
          /\ \/ Len(avail[c]) <= FanoutCount /\ S = ToSet(avail[c])
             \/ Len(avail[c]) > FanoutCount /\ Cardinality(S) = FanoutCount
          /\ lent' = [v \in Value |->
                IF \E e \in S : ValueOf[e] = v THEN lent[v] + 1 ELSE lent[v]]
    /\ Leave(c)
    /\ UNCHANGED <<state, poolVars>>
    /\ Watch

\* FindAvailable returns the key with this value if it is available; it never
\* resets a pause.
FindAvailable(v) ==
    /\ lent[v] + Cardinality({d \in Caller : pc[d] # "idle"}) < MaxLent
    /\ \E e \in EntriesOf(v) : IsAvailable(state[e])
    /\ lent' = [lent EXCEPT ![v] = @ + 1]
    /\ UNCHANGED <<state, pc, callVars, poolVars>>
    /\ Watch

-----------------------------------------------------------------------------
\* Reports of attempts

\* ReportError's switch over the status, as an update of the key.
ErrorEffect(status, s) ==
    CASE status = 401                      -> On401(s)
      [] status = 429 \/ status >= 500     -> RecordOnly(s)
      [] status \notin {401, 429} /\ status < 500 -> RecordError(s)

Settle(v, Effect(_)) ==
    /\ lent[v] > 0
    /\ lent' = [lent EXCEPT ![v] = @ - 1]
    /\ state' = [e \in Entry |-> IF e \in EntriesOf(v) THEN Effect(state[e]) ELSE state[e]]
    /\ \A e \in Entry : state'[e].consec <= MaxConsec
    /\ UNCHANGED <<pc, callVars, poolVars>>
    /\ Watch

ReportSuccess(v) == Settle(v, OnSuccess)

ReportError(v, status) ==
    LET Effect(s) == ErrorEffect(status, s) IN Settle(v, Effect)

ReportStreamError(v) == Settle(v, RecordError)

\* An attempt cancelled by its request, or a fanout loser, reports nothing.
Abandon(v) ==
    LET Effect(s) == s IN Settle(v, Effect)

-----------------------------------------------------------------------------
\* Operator actions (internal/web) and time

Operate(v, Effect(_)) ==
    /\ NoReader
    /\ EntriesOf(v) # {}
    /\ state' = [e \in Entry |-> IF e \in EntriesOf(v) THEN Effect(state[e]) ELSE state[e]]
    /\ UNCHANGED <<lent, pc, callVars, poolVars>>
    /\ Watch

PauseKey(v) ==
    LET Effect(s) == PauseFor(s, AdminPause) IN Operate(v, Effect)

ResumeKey(v) == Operate(v, Resume)

SkipKey(v) == Operate(v, On401)

RemoveKey(v) ==
    /\ NoReader
    /\ \E i \in DOMAIN keys : ValueOf[keys[i]] = v /\ keys' = RemoveAt(keys, i)
    /\ UNCHANGED <<unused, state, counter, lent, pc, callVars>>
    /\ Watch

\* The new entry starts from a new KeyState.
AddKey(v) ==
    /\ NoReader
    /\ EntriesOf(v) = {}
    /\ \E e \in unused :
          /\ ValueOf[e] = v
          /\ keys' = Append(keys, e)
          /\ unused' = unused \ {e}
          /\ state' = [state EXCEPT ![e] = NewKeyState]
    /\ UNCHANGED <<counter, lent, pc, callVars>>
    /\ Watch

Tick ==
    /\ \E e \in Entry : state[e].left # Expired
    /\ state' = [e \in Entry |-> Elapse(state[e])]
    /\ UNCHANGED <<lent, pc, callVars, poolVars>>
    /\ Watch

-----------------------------------------------------------------------------
Init ==
    /\ keys = InitialKeys
    /\ unused = Entry \ ToSet(InitialKeys)
    /\ state = [e \in Entry |-> NewKeyState]
    /\ counter = 0
    /\ lent = [v \in Value |-> 0]
    /\ pc = [c \in Caller |-> "idle"]
    /\ op = [c \in Caller |-> "next"]
    /\ pos = [c \in Caller |-> 1]
    /\ avail = [c \in Caller |-> <<>>]
    /\ expired = [c \in Caller |-> FALSE]
    /\ excl = [c \in Caller |-> {}]
    /\ pick = [c \in Caller |-> None]
    /\ shut = [c \in Caller |-> {}]
    /\ open = [c \in Caller |-> ToSet(InitialKeys)]

\* The steps of a call that is under way.
CallStep(c) ==
    \/ ScanKey(c) \/ ProbeExpired(c) \/ EndNextScan(c) \/ LockReset(c)
    \/ Relock(c) \/ EndRescan(c) \/ Revalidate(c)
    \/ PickKey(c) \/ PickNone(c) \/ CheckPick(c) \/ ResetPick(c)
    \/ Return(c) \/ ReturnMany(c)

Report(v) ==
    \/ ReportSuccess(v)
    \/ \E status \in Status : ReportError(v, status)
    \/ ReportStreamError(v)
    \/ Abandon(v)

Operator(v) == PauseKey(v) \/ ResumeKey(v) \/ SkipKey(v) \/ RemoveKey(v) \/ AddKey(v)

Next ==
    \/ \E c \in Caller : StartCall(c) \/ CallStep(c)
    \/ \E v \in Value : FindAvailable(v) \/ Report(v) \/ Operator(v)
    \/ Tick

Spec == Init /\ [][Next]_vars

\* A goroutine inside a call keeps running, and RWMutex does not starve a
\* writer: once one waits, new readers queue behind it.
FairSpec == Spec /\ \A c \in Caller : WF_vars(CallStep(c)) /\ SF_vars(LockReset(c))
=============================================================================
