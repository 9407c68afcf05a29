------------------------------ MODULE Lifecycle ------------------------------
(***************************************************************************)
(* The statistics of one key over the life of the server: the key pools    *)
(* that a process creates one after the other (start, configuration        *)
(* reloads), the sync loop of each, the orderly stop, crashes and          *)
(* restarts, and the key_stats table that outlives them (channel.go,       *)
(* keypool.go, main.go).                                                    *)
(*                                                                         *)
(* A key state, a snapshot of it and its row are the set of updates they   *)
(* reflect: an update is what one request reports of the key.              *)
(***************************************************************************)
EXTENDS Integers

CONSTANTS
    Update,    \* requests that report on the key
    MaxPools,  \* pools one process creates
    MaxBoots   \* starts of the server

ASSUME BoundsAssumption == MaxPools \in Nat \ {0} /\ MaxBoots \in Nat \ {0}

Pool == 1..MaxPools

VARIABLES
    disk,      \* the row of the key
    created,   \* this process has created the pools 1..created
    current,   \* the pool that cm.channels leads new requests to
    state,     \* the key state of each pool
    loop,      \* the sync loop of each pool: "waiting", "saving", "over"
    snapshot,  \* the row the loop is about to write
    stopped,   \* pools whose stopCh is closed
    reload,    \* Reload: where it is, the pool it replaces, the row it writes
    server,    \* main: where it is, the row Stop writes, whether that succeeded
    phase,     \* of each request: "new", "running", "done"
    pool,      \* the pool it runs on
    boots
\* What an observer remembers; no guard reads them.
VARIABLES
    saved,     \* updates the table has ever held
    exposed,   \* updates that fell into one of the windows named below
    told       \* updates the process had been told when it was asked to stop

progress == <<created, current, loop, snapshot, stopped>>
requests == <<phase, pool>>
vars == <<disk, progress, state, reload, server, requests, boots, saved, exposed, told>>

NoReload == [at |-> "none", old |-> 1, row |-> {}]
Running == [at |-> "up", row |-> {}, ok |-> FALSE]
Down == [at |-> "down", row |-> {}, ok |-> FALSE]
Alive == server.at # "down"
\* cm.Stop reads cm.channels and holds its read lock from here to there.
Stopping == server.at \in {"closing", "saving"}

-----------------------------------------------------------------------------
(* The table.  A batch is one transaction; that it failed is only logged.   *)

SaveKeyStatsBatch(row) == disk' = row /\ saved' = saved \cup row
SaveFails == UNCHANGED <<disk, saved>>

\* A new pool starts from the row, or from nothing when that cannot be read
\* (the second, taken always, is also a mutant: no loadFromDB).
NothingLoaded == {}
LoadKeyStats == disk
Loadable == {LoadKeyStats, NothingLoaded}

-----------------------------------------------------------------------------
(* The windows in which an update may be lost although the table held it.   *)

\* Another pool than p may still write the row of the key.
OlderMayWrite(p) ==
    \E q \in 1..created \ {p} :
        \/ loop[q] # "over"
        \/ reload.at \in {"swapped", "saving"} /\ reload.old = q
        \/ Stopping /\ current = q
\* An update is told to a pool that is not the only one left.
ToldLate(p) == p # created \/ OlderMayWrite(p)
\* An update is in one of two rows that are about to be written for pool p.
Pending(p) ==
    (IF loop[p] = "saving" THEN {snapshot[p]} ELSE {})
        \cup (IF reload.at = "saving" /\ reload.old = p THEN {reload.row} ELSE {})
        \cup (IF server.at = "saving" /\ current = p THEN {server.row} ELSE {})
Overtaking(p) == UNION {state[p] \ row : row \in Pending(p)}
\* A pool that starts could not read the table.
Unread(row) == IF row = LoadKeyStats THEN {} ELSE saved

-----------------------------------------------------------------------------
(* Requests                                                                 *)

\* A request selects its channel, and with it the pool of that moment; one that
\* was accepted before the listeners closed may do so while the server drains.
Begin(u) ==
    /\ Alive
    /\ phase[u] = "new"
    /\ phase' = [phase EXCEPT ![u] = "running"]
    /\ pool' = [pool EXCEPT ![u] = current]
    /\ UNCHANGED <<disk, progress, state, reload, server, boots, saved, exposed, told>>

\* It reports to that pool, whatever has become of the pool.
Report(u) ==
    /\ Alive
    /\ phase[u] = "running"
    /\ phase' = [phase EXCEPT ![u] = "done"]
    /\ state' = [state EXCEPT ![pool[u]] = @ \cup {u}]
    /\ exposed' = IF ToldLate(pool[u]) THEN exposed \cup {u} ELSE exposed
    /\ UNCHANGED <<disk, progress, pool, reload, server, boots, saved, told>>

-----------------------------------------------------------------------------
(* The sync loop.  When both channels are ready, select takes either.       *)

Tick(p) ==
    /\ Alive
    /\ loop[p] = "waiting"
    /\ loop' = [loop EXCEPT ![p] = "saving"]
    /\ snapshot' = [snapshot EXCEPT ![p] = state[p]]
    /\ exposed' = exposed \cup Overtaking(p)
    /\ UNCHANGED <<disk, created, current, stopped, state, reload, server, requests, boots, saved, told>>

Synced(p) ==
    /\ Alive
    /\ loop[p] = "saving"
    /\ loop' = [loop EXCEPT ![p] = "waiting"]
    /\ snapshot' = [snapshot EXCEPT ![p] = {}]
    /\ UNCHANGED <<created, current, stopped, state, reload, server, requests, boots, exposed, told>>
Sync(p) == Synced(p) /\ SaveKeyStatsBatch(snapshot[p])
SyncFails(p) == Synced(p) /\ SaveFails

LoopReturns(p) ==
    /\ Alive
    /\ loop[p] = "waiting"
    /\ stopped[p]
    /\ loop' = [loop EXCEPT ![p] = "over"]
    /\ UNCHANGED <<disk, created, current, snapshot, stopped, state, reload, server, requests, boots, saved, exposed, told>>

-----------------------------------------------------------------------------
(* Reload, one at a time under configMu                                     *)

\* NewChannelManager: the new pool loads and its loop starts.
Build(row) ==
    /\ Alive
    /\ reload.at = "none"
    /\ created < MaxPools
    /\ row \in Loadable
    /\ created' = created + 1
    /\ state' = [state EXCEPT ![created + 1] = row]
    /\ loop' = [loop EXCEPT ![created + 1] = "waiting"]
    /\ reload' = [at |-> "built", old |-> 1, row |-> {}]
    /\ exposed' = exposed \cup (state[current] \ row) \cup Unread(row)
    /\ UNCHANGED <<disk, current, snapshot, stopped, server, requests, boots, saved, told>>

\* Mutant: the new manager is published before its pool exists.
SwapAhead ==
    /\ Alive
    /\ reload.at = "none"
    /\ created < MaxPools
    /\ current' = created + 1
    /\ UNCHANGED <<disk, created, state, loop, snapshot, stopped, reload, server, requests, boots, saved, exposed, told>>

\* The swap takes the write lock.
Swap ==
    /\ Alive
    /\ reload.at = "built"
    /\ ~Stopping
    /\ current' = created
    /\ reload' = [at |-> "swapped", old |-> current, row |-> {}]
    /\ UNCHANGED <<disk, created, state, loop, snapshot, stopped, server, requests, boots, saved, exposed, told>>

ReloadSnapshot ==
    /\ Alive
    /\ reload.at = "swapped"
    /\ reload' = [at |-> "saving", old |-> reload.old, row |-> state[reload.old]]
    /\ exposed' = exposed \cup Overtaking(reload.old)
    /\ UNCHANGED <<disk, progress, state, server, requests, boots, saved, told>>

ReloadSave ==
    /\ Alive
    /\ reload.at = "saving"
    /\ reload' = [at |-> "saved", old |-> reload.old, row |-> {}]
    /\ SaveKeyStatsBatch(reload.row) \/ SaveFails
    /\ UNCHANGED <<progress, state, server, requests, boots, exposed, told>>

\* Mutant: the loop of the new pool is stopped instead of the old one's.
ReloadStopCurrent ==
    /\ Alive
    /\ reload.at = "saved"
    /\ stopped' = [stopped EXCEPT ![current] = TRUE]
    /\ reload' = NoReload
    /\ UNCHANGED <<disk, created, current, state, loop, snapshot, server, requests, boots, saved, exposed, told>>

\* Closing a stopCh that cm.Stop has closed panics: net/http recovers, the
\* handler's defer unlocks configMu, and the channel stays closed.
ReloadStop ==
    /\ Alive
    /\ reload.at = "saved"
    /\ stopped' = [stopped EXCEPT ![reload.old] = TRUE]
    /\ reload' = NoReload
    /\ UNCHANGED <<disk, created, current, state, loop, snapshot, server, requests, boots, saved, exposed, told>>

-----------------------------------------------------------------------------
(* The server                                                               *)

\* A signal: cm.Stop closes the stopCh of the current pool.
StopLoop ==
    /\ server.at = "up"
    /\ stopped' = [stopped EXCEPT ![current] = TRUE]
    /\ server' = [at |-> "closing", row |-> {}, ok |-> FALSE]
    /\ told' = UNION {state[p] : p \in 1..created}
    /\ UNCHANGED <<disk, created, current, state, loop, snapshot, reload, requests, boots, saved, exposed>>

StopSnapshot ==
    /\ server.at = "closing"
    /\ server' = [at |-> "saving", row |-> state[current], ok |-> FALSE]
    /\ exposed' = exposed \cup Overtaking(current)
    /\ UNCHANGED <<disk, progress, state, reload, requests, boots, saved, told>>

\* Mutant: the stop ends the loop and saves nothing.
StopWithoutSave ==
    /\ server.at = "saving"
    /\ server' = [at |-> "draining", row |-> {}, ok |-> TRUE]
    /\ UNCHANGED <<disk, progress, state, reload, requests, boots, saved, exposed, told>>

\* Then server.Shutdown closes the listeners and waits for the requests.
StopSave ==
    /\ server.at = "saving"
    /\ \/ SaveKeyStatsBatch(server.row) /\ server' = [at |-> "draining", row |-> {}, ok |-> TRUE]
       \/ SaveFails /\ server' = [at |-> "draining", row |-> {}, ok |-> FALSE]
    /\ UNCHANGED <<progress, state, reload, requests, boots, exposed, told>>

\* A crash, at any point, or the end of main, when the last request has ended
\* or after 30 seconds: what was in memory is gone.
Die ==
    /\ Alive
    /\ server' = Down
    /\ created' = 1 /\ current' = 1
    /\ state' = [p \in Pool |-> {}]
    /\ loop' = [p \in Pool |-> "over"]
    /\ snapshot' = [p \in Pool |-> {}]
    /\ stopped' = [p \in Pool |-> FALSE]
    /\ reload' = NoReload
    /\ phase' = [u \in Update |-> IF phase[u] = "new" THEN "new" ELSE "done"]
    /\ told' = {}
    /\ UNCHANGED <<disk, pool, boots, saved, exposed>>

\* main creates the channel manager, and that the first pool.
Boot(row) ==
    /\ ~Alive
    /\ boots < MaxBoots
    /\ row \in Loadable
    /\ server' = Running
    /\ state' = [state EXCEPT ![1] = row]
    /\ loop' = [loop EXCEPT ![1] = "waiting"]
    /\ boots' = boots + 1
    /\ exposed' = exposed \cup Unread(row)
    /\ UNCHANGED <<disk, created, current, snapshot, stopped, reload, requests, saved, told>>

-----------------------------------------------------------------------------
Init ==
    /\ disk = {} /\ created = 1 /\ current = 1
    /\ state = [p \in Pool |-> {}]
    /\ loop = [p \in Pool |-> IF p = 1 THEN "waiting" ELSE "over"]
    /\ snapshot = [p \in Pool |-> {}]
    /\ stopped = [p \in Pool |-> FALSE]
    /\ reload = NoReload /\ server = Running
    /\ phase = [u \in Update |-> "new"]
    /\ pool = [u \in Update |-> 1]
    /\ boots = 1
    /\ saved = {} /\ exposed = {} /\ told = {}

Next ==
    \/ \E u \in Update : Begin(u) \/ Report(u)
    \/ \E p \in Pool : Tick(p) \/ Sync(p) \/ SyncFails(p) \/ LoopReturns(p)
    \/ \E row \in Loadable : Build(row) \/ Boot(row)
    \/ Swap \/ ReloadSnapshot \/ ReloadSave \/ ReloadStop
    \/ StopLoop \/ StopSnapshot \/ StopSave
    \/ Die

Spec == Init /\ [][Next]_vars

\* The ticker of a running loop fires, Reload runs on, and the database does
\* not fail for ever.  Nothing makes a request, a signal or a crash happen.
Fairness ==
    /\ \A p \in Pool : WF_vars(Tick(p)) /\ WF_vars(Sync(p) \/ SyncFails(p)) /\ SF_vars(Sync(p))
    /\ WF_vars(Swap) /\ WF_vars(ReloadSnapshot) /\ WF_vars(ReloadSave) /\ WF_vars(ReloadStop)
FairSpec == Spec /\ Fairness
=============================================================================
