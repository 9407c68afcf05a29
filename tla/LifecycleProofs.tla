--------------------------- MODULE LifecycleProofs ---------------------------
(***************************************************************************)
(* Proofs that what the table has held stays held, and that a stop saves    *)
(* what was told, for any number of updates, pools and starts.              *)
(***************************************************************************)
EXTENDS LifecycleProps, TLAPS

USE BoundsAssumption DEF Pool, Row

-----------------------------------------------------------------------------
(* Types and pools                                                          *)

\* The server starts with variables of their types.
LEMMA InitType == Init => TypeOK
  BY BoundsAssumption DEF Init, TypeOK, NoReload, Running, Reloads, Servers

\* Every step keeps the types (all actions).
LEMMA TypeStep == TypeOK /\ PoolsInv /\ [Next]_vars => TypeOK'
<1> SUFFICES ASSUME TypeOK, PoolsInv, [Next]_vars PROVE TypeOK'
  OBVIOUS
<1>0. Running \in Servers /\ Down \in Servers /\ NoReload \in Reloads
  BY BoundsAssumption DEF Running, Down, NoReload, Servers, Reloads
<1> USE BoundsAssumption DEF TypeOK, progress, requests
<1>1. ASSUME NEW u \in Update, Begin(u) PROVE TypeOK'
  BY <1>1 DEF Begin
<1>2. ASSUME NEW u \in Update, Report(u) PROVE TypeOK'
  BY <1>2 DEF Report
<1>3. ASSUME NEW p \in Pool, Tick(p) PROVE TypeOK'
  <2>1. Overtaking(p) \subseteq Update
    BY DEF Overtaking
  <2> QED
    BY <1>3, <2>1 DEF Tick
<1>4. ASSUME NEW p \in Pool, Sync(p) \/ SyncFails(p) PROVE TypeOK'
  <2>1. disk' \in Row /\ saved' \in Row
    BY <1>4 DEF Sync, SyncFails, SaveKeyStatsBatch, SaveFails
  <2> QED
    BY <1>4, <2>1 DEF Sync, SyncFails, Synced
<1>5. ASSUME NEW p \in Pool, LoopReturns(p) PROVE TypeOK'
  BY <1>5 DEF LoopReturns
<1>6. ASSUME NEW row \in Loadable, Build(row) PROVE TypeOK'
  <2>1. row \in SUBSET Update /\ Unread(row) \in SUBSET Update /\ created + 1 \in Pool
    BY <1>6 DEF Build, Loadable, LoadKeyStats, NothingLoaded, Unread
  <2>2. reload' \in Reloads
    BY <1>6, BoundsAssumption DEF Build, Reloads
  <2> QED
    BY <1>6, <2>1, <2>2 DEF Build
<1>7. ASSUME NEW row \in Loadable, Boot(row) PROVE TypeOK'
  <2>1. row \in SUBSET Update /\ Unread(row) \in SUBSET Update
    BY <1>7 DEF Loadable, LoadKeyStats, NothingLoaded, Unread
  <2> QED
    BY <1>0, <1>7, <2>1 DEF Boot
<1>8. CASE Swap
  <2>1. reload' \in Reloads
    BY <1>8 DEF Swap, Reloads
  <2> QED
    BY <1>8, <2>1 DEF Swap
<1>9. CASE ReloadSnapshot
  <2>0. reload.old \in Pool
    BY DEF Reloads
  <2>1. Overtaking(reload.old) \subseteq Update
    BY <2>0 DEF Overtaking
  <2>2. reload' \in Reloads
    BY <1>9 DEF ReloadSnapshot, Reloads
  <2> QED
    BY <1>9, <2>1, <2>2 DEF ReloadSnapshot
<1>10. CASE ReloadSave
  <2>1. reload' \in Reloads /\ reload.row \in Row
    BY <1>10 DEF ReloadSave, Reloads
  <2>2. disk' \in Row /\ saved' \in Row
    BY <1>10, <2>1 DEF ReloadSave, SaveKeyStatsBatch, SaveFails
  <2> QED
    BY <1>10, <2>1, <2>2 DEF ReloadSave
<1>11. CASE ReloadStop
  BY <1>0, <1>11 DEF ReloadStop
<1>12. CASE StopLoop
  <2>1. server' \in Servers
    BY <1>12 DEF StopLoop, Servers
  <2>2. told' \in Row
    BY <1>12 DEF StopLoop
  <2> QED
    BY <1>12, <2>1, <2>2 DEF StopLoop
<1>13. CASE StopSnapshot
  <2>1. Overtaking(current) \subseteq Update
    BY DEF Overtaking
  <2>2. server' \in Servers
    BY <1>13 DEF StopSnapshot, Servers
  <2> QED
    BY <1>13, <2>1, <2>2 DEF StopSnapshot
<1>14. CASE StopSave
  <2>0. server.row \in Row
    BY DEF Servers
  <2>1. server' \in Servers
    <3>1. server' = [at |-> "draining", row |-> {}, ok |-> TRUE]
            \/ server' = [at |-> "draining", row |-> {}, ok |-> FALSE]
      BY <1>14 DEF StopSave
    <3>2. /\ [at |-> "draining", row |-> {}, ok |-> TRUE] \in Servers
          /\ [at |-> "draining", row |-> {}, ok |-> FALSE] \in Servers
      BY DEF Servers
    <3> QED
      BY <3>1, <3>2
  <2>2. disk' \in Row /\ saved' \in Row
    BY <1>14, <2>0 DEF StopSave, SaveKeyStatsBatch, SaveFails
  <2> QED
    BY <1>14, <2>1, <2>2 DEF StopSave
<1>15. CASE Die
  BY <1>0, <1>15 DEF Die
<1>16. CASE UNCHANGED vars
  BY <1>16 DEF vars
<1> QED
  BY <1>1, <1>2, <1>3, <1>4, <1>5, <1>6, <1>7, <1>8, <1>9, <1>10, <1>11, <1>12, <1>13, <1>14,
     <1>15, <1>16 DEF Next

\* Every step keeps the order of pools (Build, Swap and Die change it).
LEMMA PoolsStep == TypeOK /\ PoolsInv /\ [Next]_vars => PoolsInv'
<1> SUFFICES ASSUME TypeOK, PoolsInv, [Next]_vars PROVE PoolsInv'
  OBVIOUS
<1> USE BoundsAssumption DEF TypeOK, PoolsInv, progress, requests, NoReload, Running, Down, Alive, Reloads, Servers
<1>1. ASSUME NEW u \in Update, Begin(u) PROVE PoolsInv'
  BY <1>1 DEF Begin
<1>2. ASSUME NEW u \in Update, Report(u) PROVE PoolsInv'
  BY <1>2 DEF Report
<1>3. ASSUME NEW p \in Pool, Tick(p) PROVE PoolsInv'
  BY <1>3 DEF Tick
<1>4. ASSUME NEW p \in Pool, Sync(p) \/ SyncFails(p) PROVE PoolsInv'
  BY <1>4 DEF Sync, SyncFails, Synced
<1>5. ASSUME NEW p \in Pool, LoopReturns(p) PROVE PoolsInv'
  BY <1>5 DEF LoopReturns
<1>6. ASSUME NEW row \in Loadable, Build(row) PROVE PoolsInv'
  BY <1>6 DEF Build
<1>7. ASSUME NEW row \in Loadable, Boot(row) PROVE PoolsInv'
  BY <1>7 DEF Boot
<1>8. CASE Swap
  BY <1>8 DEF Swap
<1>9. CASE ReloadSnapshot
  BY <1>9 DEF ReloadSnapshot
<1>10. CASE ReloadSave
  BY <1>10 DEF ReloadSave
<1>11. CASE ReloadStop
  BY <1>11 DEF ReloadStop
<1>12. CASE StopLoop
  BY <1>12 DEF StopLoop
<1>13. CASE StopSnapshot
  BY <1>13 DEF StopSnapshot
<1>14. CASE StopSave
  BY <1>14 DEF StopSave
<1>15. CASE Die
  BY <1>15 DEF Die
<1>16. CASE UNCHANGED vars
  BY <1>16 DEF vars
<1> QED
  BY <1>1, <1>2, <1>3, <1>4, <1>5, <1>6, <1>7, <1>8, <1>9, <1>10, <1>11, <1>12, <1>13, <1>14,
     <1>15, <1>16 DEF Next

-----------------------------------------------------------------------------
(* Rows and writers                                                         *)

\* A pool with a row to write may write, and every other pool is told late.
LEMMA PendingWrites ==
    ASSUME TypeOK, PoolsInv, NEW p \in 1..created, NEW row \in Pending(p)
    PROVE  MayWrite(p) /\ \A q \in Pool : q # p => OlderMayWrite(q)
<1>1. \/ loop[p] = "saving"
      \/ reload.at = "saving" /\ reload.old = p
      \/ server.at = "saving" /\ current = p
  BY DEF Pending
<1>2. MayWrite(p)
  BY <1>1 DEF MayWrite, TypeOK
<1>3. ASSUME NEW q \in Pool, q # p PROVE OlderMayWrite(q)
  <2>1. loop[p] # "over" \/ (reload.at \in {"swapped", "saving"} /\ reload.old = p)
          \/ (Stopping /\ current = p)
    BY <1>1 DEF Stopping
  <2>2. p \in 1..created \ {q}
    BY <1>3
  <2> QED
    BY <2>1, <2>2 DEF OlderMayWrite
<1> QED
  BY <1>2, <1>3

\* A row that is written takes nothing from the pools that may still write,
\* nor from the other rows on their way.
LEMMA WrittenRow ==
    ASSUME TypeOK, PoolsInv, StatesInv, RowsInv, Alive,
           NEW p \in 1..created, NEW row \in Pending(p)
    PROVE  /\ row \subseteq Update
           /\ saved \ exposed \subseteq row
           /\ row \subseteq state[p]
           /\ \A q \in 1..created : MayWrite(q) => row \ exposed \subseteq state[q]
           /\ \A q \in 1..created : \A other \in Pending(q) : row \ exposed \subseteq other
<1>0. p \in Pool /\ state[p] \subseteq Update
  BY DEF TypeOK
<1>1. row \subseteq state[p] /\ saved \ exposed \subseteq row /\ row \subseteq Update
  BY <1>0 DEF RowsInv
<1>2. ASSUME NEW q \in 1..created, MayWrite(q) PROVE row \ exposed \subseteq state[q]
  <2>1. q = p \/ q < p \/ p < q
    BY DEF TypeOK
  <2> QED
    BY <1>1, <1>2, <2>1 DEF StatesInv
<1>3. ASSUME NEW q \in 1..created, NEW other \in Pending(q) PROVE row \ exposed \subseteq other
  <2>1. CASE q = p
    BY <2>1 DEF RowsInv
  <2>2. CASE q # p
    BY <1>1, <2>2 DEF RowsInv
  <2> QED
    BY <2>1, <2>2
<1> QED
  BY <1>1, <1>2, <1>3

-----------------------------------------------------------------------------
(* StatesInv                                                                *)

\* It survives a step that changes no pool and makes no pool a writer.
LEMMA StatesQuiet ==
    ASSUME TypeOK, StatesInv, Alive, created' = created, state' = state, saved' = saved,
           exposed \subseteq exposed', \A p \in Pool : MayWrite(p)' => MayWrite(p)
    PROVE  StatesInv'
<1>1. SUFFICES ASSUME NEW a \in 1..created, NEW b \in 1..created
               PROVE  /\ a < b => state[a] \ exposed' \subseteq state[b]
                      /\ a < b /\ MayWrite(a)' => state[b] \ exposed' \subseteq state[a]
                      /\ MayWrite(a)' => saved \ exposed' \subseteq state[a]
  BY DEF StatesInv
<1>a. a \in Pool
  BY DEF TypeOK
<1>2. MayWrite(a)' => MayWrite(a)
  BY <1>a
<1>3. /\ a < b => state[a] \ exposed \subseteq state[b]
      /\ a < b /\ MayWrite(a) => state[b] \ exposed \subseteq state[a]
      /\ MayWrite(a) => saved \ exposed \subseteq state[a]
  BY DEF StatesInv
<1> QED
  BY <1>2, <1>3

LEMMA StatesWrite ==
    ASSUME TypeOK, PoolsInv, StatesInv, RowsInv, Alive, created' = created, state' = state,
           NEW p \in 1..created, NEW row \in Pending(p), saved' = saved \cup row,
           exposed' = exposed, \A q \in Pool : MayWrite(q)' => MayWrite(q)
    PROVE  StatesInv'
<1>1. \A q \in 1..created : MayWrite(q) => row \ exposed \subseteq state[q]
  BY WrittenRow
<1>2. SUFFICES ASSUME NEW a \in 1..created, NEW b \in 1..created
               PROVE  /\ a < b => state[a] \ exposed \subseteq state[b]
                      /\ a < b /\ MayWrite(a)' => state[b] \ exposed \subseteq state[a]
                      /\ MayWrite(a)' => (saved \cup row) \ exposed \subseteq state[a]
  BY DEF StatesInv
<1>a. a \in Pool
  BY DEF TypeOK
<1>3. MayWrite(a)' => MayWrite(a)
  BY <1>a
<1>4. /\ a < b => state[a] \ exposed \subseteq state[b]
      /\ a < b /\ MayWrite(a) => state[b] \ exposed \subseteq state[a]
      /\ MayWrite(a) => saved \ exposed \subseteq state[a]
  BY DEF StatesInv
<1> QED
  BY <1>1, <1>3, <1>4

LEMMA StatesStep == IInv /\ TypeOK' /\ [Next]_vars => StatesInv'
<1> SUFFICES ASSUME IInv, TypeOK', [Next]_vars PROVE StatesInv'
  OBVIOUS
<1> USE DEF progress, requests
<1>0. TypeOK /\ PoolsInv /\ StatesInv /\ RowsInv /\ DiskInv
  BY DEF IInv
<1>1. ASSUME NEW u \in Update, Begin(u) PROVE StatesInv'
  <2>1. Alive /\ \A p \in Pool : MayWrite(p)' => MayWrite(p)
    BY <1>1 DEF Begin, MayWrite, Alive
  <2> QED
    BY <1>0, <1>1, <2>1, StatesQuiet DEF Begin
<1>2. ASSUME NEW u \in Update, Report(u) PROVE StatesInv'
  <2> DEFINE p == pool[u]
  <2>1. p \in 1..current /\ p \in 1..created /\ created \in Pool
    BY <1>0, <1>2 DEF Report, PoolsInv, TypeOK
  <2>2. /\ created' = created /\ saved' = saved /\ Alive
        /\ state'[p] = state[p] \cup {u}
        /\ \A q \in Pool : q # p => state'[q] = state[q]
        /\ \A q \in Pool : MayWrite(q)' <=> MayWrite(q)
        /\ exposed' = IF ToldLate(p) THEN exposed \cup {u} ELSE exposed
    BY <1>0, <1>2, <2>1 DEF Report, TypeOK, MayWrite
  <2>3. ASSUME NEW q \in 1..created, q # p, q < p => MayWrite(q) PROVE u \in exposed'
    <3>1. ToldLate(p)
      BY <1>0, <2>1, <2>3 DEF ToldLate, OlderMayWrite, MayWrite, TypeOK
    <3> QED
      BY <2>2, <3>1
  <2>4. exposed \subseteq exposed'
    BY <2>2
  <2> HIDE DEF p
  <2>5. SUFFICES ASSUME NEW a \in 1..created, NEW b \in 1..created
                 PROVE  /\ a < b => state'[a] \ exposed' \subseteq state'[b]
                        /\ a < b /\ MayWrite(a) => state'[b] \ exposed' \subseteq state'[a]
                        /\ MayWrite(a) => saved \ exposed' \subseteq state'[a]
    <3>1. \A a \in 1..created : MayWrite(a)' <=> MayWrite(a)
      BY <1>0, <2>2 DEF TypeOK
    <3> QED
      BY <2>2, <3>1 DEF StatesInv
  <2>a. a \in Pool /\ b \in Pool
    BY <1>0 DEF TypeOK
  <2>6. state[a] \subseteq state'[a] /\ state[b] \subseteq state'[b]
    BY <2>a, <2>2
  <2>7. MayWrite(a) => saved \ exposed' \subseteq state'[a]
    BY <1>0, <2>2, <2>4, <2>6 DEF StatesInv
  <2>8. ASSUME a < b PROVE state'[a] \ exposed' \subseteq state'[b]
    <3>1. state[a] \ exposed \subseteq state[b]
      BY <1>0, <2>2, <2>8 DEF StatesInv
    <3>2. a = p => u \in exposed'
      BY <2>1, <2>3, <2>8
    <3> QED
      BY <2>a, <2>2, <2>4, <2>6, <3>1, <3>2
  <2>9. ASSUME a < b, MayWrite(a) PROVE state'[b] \ exposed' \subseteq state'[a]
    <3>1. state[b] \ exposed \subseteq state[a]
      BY <1>0, <2>2, <2>9 DEF StatesInv
    <3>2. b = p => u \in exposed'
      BY <2>1, <2>3, <2>9
    <3> QED
      BY <2>a, <2>2, <2>4, <2>6, <3>1, <3>2
  <2> QED
    BY <2>7, <2>8, <2>9
<1>3. ASSUME NEW p \in Pool, Tick(p) PROVE StatesInv'
  <2>1. \A q \in Pool : MayWrite(q)' => MayWrite(q)
    BY <1>0, <1>3 DEF Tick, MayWrite, TypeOK
  <2> QED
    BY <1>0, <1>3, <2>1, StatesQuiet DEF Tick
<1>4. ASSUME NEW p \in Pool, Sync(p) \/ SyncFails(p) PROVE StatesInv'
  <2>1. /\ \A q \in Pool : MayWrite(q)' => MayWrite(q)
        /\ p \in 1..created /\ snapshot[p] \in Pending(p)
    BY <1>0, <1>4 DEF Sync, SyncFails, Synced, MayWrite, TypeOK, PoolsInv, Pending
  <2>2. CASE Sync(p)
    BY <1>0, <2>1, <2>2, StatesWrite DEF Sync, Synced, SaveKeyStatsBatch
  <2>3. CASE SyncFails(p)
    BY <1>0, <2>1, <2>3, StatesQuiet DEF SyncFails, Synced, SaveFails
  <2> QED
    BY <1>4, <2>2, <2>3
<1>5. ASSUME NEW p \in Pool, LoopReturns(p) PROVE StatesInv'
  <2>1. \A q \in Pool : MayWrite(q)' => MayWrite(q)
    BY <1>0, <1>5 DEF LoopReturns, MayWrite, TypeOK
  <2> QED
    BY <1>0, <1>5, <2>1, StatesQuiet DEF LoopReturns
<1>6. ASSUME NEW row \in Loadable, Build(row) PROVE StatesInv'
  <2> DEFINE n == created + 1
  <2>1. /\ n \in Pool /\ created' = n /\ created = current /\ current' = current
        /\ saved' = saved /\ Alive /\ state'[n] = row
        /\ \A q \in 1..created : state'[q] = state[q] /\ (MayWrite(q)' => MayWrite(q))
        /\ exposed' = exposed \cup (state[current] \ row) \cup Unread(row)
    BY <1>0, <1>6 DEF Build, TypeOK, PoolsInv, MayWrite
  <2>2. row = disk \/ (row = {} /\ saved \subseteq exposed')
    BY <1>6, <2>1 DEF Loadable, LoadKeyStats, NothingLoaded, Unread
  <2>3. saved \ exposed' \subseteq row /\ row \subseteq saved
    BY <1>0, <2>1, <2>2 DEF DiskInv
  <2> HIDE DEF n
  <2>4. ASSUME NEW a \in 1..created
        PROVE  /\ state[a] \ exposed' \subseteq row
               /\ MayWrite(a) => row \ exposed' \subseteq state[a]
               /\ MayWrite(a) => saved \ exposed' \subseteq state[a]
    <3>1. state[a] \ exposed \subseteq state[current]
      BY <1>0, <2>1, a = current \/ a < current DEF StatesInv, TypeOK
    <3>2. MayWrite(a) => saved \ exposed \subseteq state[a]
      BY <1>0, <2>1 DEF StatesInv
    <3> QED
      BY <2>1, <2>3, <3>1, <3>2
  <2>5. ASSUME NEW a \in 1..created', NEW b \in 1..created'
        PROVE  /\ a < b => state'[a] \ exposed' \subseteq state'[b]
               /\ a < b /\ MayWrite(a)' => state'[b] \ exposed' \subseteq state'[a]
               /\ MayWrite(a)' => saved \ exposed' \subseteq state'[a]
    <3>1. (a = n \/ a \in 1..created) /\ (b = n \/ b \in 1..created) /\ (b # n => b < n)
      BY <1>0, <2>1 DEF n, TypeOK
    <3>2. CASE a = n
      BY <1>0, <2>1, <2>3, <3>1, <3>2 DEF TypeOK
    <3>3. CASE a # n /\ b = n
      BY <2>1, <2>4, <3>1, <3>3
    <3>4. CASE a # n /\ b # n
      BY <1>0, <2>1, <2>4, <3>1, <3>4 DEF StatesInv
    <3> QED
      BY <3>2, <3>3, <3>4
  <2> QED
    BY <2>1, <2>5 DEF StatesInv
<1>7. ASSUME NEW row \in Loadable, Boot(row) PROVE StatesInv'
  <2>1. /\ created' = 1 /\ created = 1 /\ saved' = saved /\ state'[1] = row
        /\ exposed' = exposed \cup Unread(row)
    BY <1>0, <1>7, BoundsAssumption DEF Boot, PoolsInv, TypeOK
  <2>2. saved \ exposed' \subseteq row
    BY <1>0, <1>7, <2>1 DEF Loadable, LoadKeyStats, NothingLoaded, Unread, DiskInv
  <2> QED
    BY <2>1, <2>2 DEF StatesInv
<1>8. CASE Swap
  <2>1. \A q \in Pool : MayWrite(q)' => MayWrite(q)
    BY <1>0, <1>8 DEF Swap, MayWrite, TypeOK, PoolsInv
  <2> QED
    BY <1>0, <1>8, <2>1, StatesQuiet DEF Swap
<1>9. CASE ReloadSnapshot
  <2>1. \A q \in Pool : MayWrite(q)' => MayWrite(q)
    BY <1>9 DEF ReloadSnapshot, MayWrite
  <2> QED
    BY <1>0, <1>9, <2>1, StatesQuiet DEF ReloadSnapshot
<1>10. CASE ReloadSave
  <2>1. /\ \A q \in Pool : MayWrite(q)' => MayWrite(q)
        /\ reload.old \in 1..created /\ reload.row \in Pending(reload.old)
    BY <1>0, <1>10 DEF ReloadSave, MayWrite, TypeOK, PoolsInv, Pending, Reloads
  <2>2. CASE SaveKeyStatsBatch(reload.row)
    BY <1>0, <1>10, <2>1, <2>2, StatesWrite DEF ReloadSave, SaveKeyStatsBatch
  <2>3. CASE SaveFails
    BY <1>0, <1>10, <2>1, <2>3, StatesQuiet DEF ReloadSave, SaveFails
  <2> QED
    BY <1>10, <2>2, <2>3 DEF ReloadSave
<1>11. CASE ReloadStop
  <2>1. \A q \in Pool : MayWrite(q)' => MayWrite(q)
    BY <1>11 DEF ReloadStop, MayWrite, NoReload
  <2> QED
    BY <1>0, <1>11, <2>1, StatesQuiet DEF ReloadStop
<1>12. CASE StopLoop
  <2>1. Alive /\ \A q \in Pool : MayWrite(q)' => MayWrite(q)
    BY <1>12 DEF StopLoop, MayWrite, Alive
  <2> QED
    BY <1>0, <1>12, <2>1, StatesQuiet DEF StopLoop
<1>13. CASE StopSnapshot
  <2>1. Alive /\ \A q \in Pool : MayWrite(q)' => MayWrite(q)
    BY <1>13 DEF StopSnapshot, MayWrite, Alive
  <2> QED
    BY <1>0, <1>13, <2>1, StatesQuiet DEF StopSnapshot
<1>14. CASE StopSave
  <2>1. /\ Alive /\ \A q \in Pool : MayWrite(q)' => MayWrite(q)
        /\ current \in 1..created /\ server.row \in Pending(current)
    BY <1>0, <1>14 DEF StopSave, MayWrite, TypeOK, PoolsInv, Pending, Alive
  <2>2. CASE SaveKeyStatsBatch(server.row)
    BY <1>0, <1>14, <2>1, <2>2, StatesWrite DEF StopSave, SaveKeyStatsBatch
  <2>3. CASE SaveFails
    BY <1>0, <1>14, <2>1, <2>3, StatesQuiet DEF StopSave, SaveFails
  <2> QED
    BY <1>14, <2>2, <2>3 DEF StopSave
<1>15. CASE Die
  BY <1>15 DEF Die, Down, StatesInv, Alive
<1>16. CASE UNCHANGED vars
  BY <1>0, <1>16 DEF vars, StatesInv, MayWrite, Alive
<1> QED
  BY <1>1, <1>2, <1>3, <1>4, <1>5, <1>6, <1>7, <1>8, <1>9, <1>10, <1>11, <1>12, <1>13, <1>14,
     <1>15, <1>16 DEF Next

-----------------------------------------------------------------------------
(* RowsInv                                                                  *)

\* It survives a step that takes no snapshot.
LEMMA RowsQuiet ==
    ASSUME TypeOK, RowsInv, created' = created, state' = state, saved' = saved,
           exposed \subseteq exposed', \A p \in 1..created : Pending(p)' \subseteq Pending(p)
    PROVE  RowsInv'
<1> SUFFICES ASSUME NEW p \in 1..created, NEW row \in Pending(p)'
             PROVE  /\ row \subseteq state[p]
                    /\ saved \ exposed' \subseteq row
                    /\ \A q \in 1..created \ {p} : state[q] \ exposed' \subseteq row
                    /\ \A other \in Pending(p)' : other \ exposed' \subseteq row
  BY DEF RowsInv
<1>1. row \in Pending(p) /\ \A other \in Pending(p)' : other \in Pending(p)
  OBVIOUS
<1> QED
  BY <1>1 DEF RowsInv

\* It survives the write of a row.
LEMMA RowsWrite ==
    ASSUME TypeOK, PoolsInv, StatesInv, RowsInv, Alive, created' = created, state' = state,
           NEW b \in 1..created, NEW written \in Pending(b), saved' = saved \cup written,
           exposed' = exposed, \A p \in 1..created : Pending(p)' \subseteq Pending(p)
    PROVE  RowsInv'
<1> SUFFICES ASSUME NEW p \in 1..created, NEW row \in Pending(p)'
             PROVE  /\ row \subseteq state[p]
                    /\ (saved \cup written) \ exposed \subseteq row
                    /\ \A q \in 1..created \ {p} : state[q] \ exposed \subseteq row
                    /\ \A other \in Pending(p)' : other \ exposed \subseteq row
  BY DEF RowsInv
<1>1. row \in Pending(p) /\ \A other \in Pending(p)' : other \in Pending(p)
  OBVIOUS
<1>2. written \ exposed \subseteq row
  BY <1>1, WrittenRow
<1> QED
  BY <1>1, <1>2 DEF RowsInv

\* It survives a snapshot: what older snapshots of the pool lack is exposed.
LEMMA RowsTaken ==
    ASSUME TypeOK, StatesInv, RowsInv, Alive, created' = created, state' = state, saved' = saved,
           NEW s \in 1..created, MayWrite(s), exposed' = exposed \cup Overtaking(s),
           Pending(s)' \subseteq Pending(s) \cup {state[s]},
           \A p \in 1..created : p # s => Pending(p)' \subseteq Pending(p)
    PROVE  RowsInv'
<1> SUFFICES ASSUME NEW p \in 1..created, NEW row \in Pending(p)'
             PROVE  /\ row \subseteq state[p]
                    /\ saved \ exposed' \subseteq row
                    /\ \A q \in 1..created \ {p} : state[q] \ exposed' \subseteq row
                    /\ \A other \in Pending(p)' : other \ exposed' \subseteq row
  BY DEF RowsInv
<1>1. CASE p # s
  <2>1. row \in Pending(p) /\ \A other \in Pending(p)' : other \in Pending(p)
    BY <1>1
  <2> QED
    BY <2>1 DEF RowsInv
<1>2. CASE p = s /\ row # state[s]
  <2>1. row \in Pending(s) /\ \A other \in Pending(s)' : other \in Pending(s) \/ other = state[s]
    BY <1>2
  <2>2. state[s] \ exposed' \subseteq row
    BY <2>1 DEF Overtaking
  <2> QED
    BY <1>2, <2>1, <2>2 DEF RowsInv
<1>3. CASE p = s /\ row = state[s]
  <2>1. saved \ exposed \subseteq state[s]
    BY DEF StatesInv
  <2>2. ASSUME NEW q \in 1..created \ {s} PROVE state[q] \ exposed \subseteq state[s]
    <3>1. q < s \/ s < q
      BY DEF TypeOK
    <3> QED
      BY <3>1 DEF StatesInv
  <2>3. \A other \in Pending(s)' : other \subseteq state[s]
    BY DEF RowsInv
  <2> QED
    BY <1>3, <2>1, <2>2, <2>3
<1> QED
  BY <1>1, <1>2, <1>3

LEMMA RowsStep == IInv /\ TypeOK' /\ [Next]_vars => RowsInv'
<1> SUFFICES ASSUME IInv, TypeOK', [Next]_vars PROVE RowsInv'
  OBVIOUS
<1> USE DEF progress, requests
<1>0. TypeOK /\ PoolsInv /\ StatesInv /\ RowsInv /\ DiskInv
  BY DEF IInv
<1>1. ASSUME NEW u \in Update, Begin(u) PROVE RowsInv'
  <2>1. \A p \in 1..created : Pending(p)' \subseteq Pending(p)
    BY <1>1 DEF Begin, Pending
  <2> QED
    BY <1>0, <1>1, <2>1, RowsQuiet DEF Begin
<1>2. ASSUME NEW u \in Update, Report(u) PROVE RowsInv'
  <2> DEFINE t == pool[u]
  <2>1. /\ t \in Pool /\ created' = created /\ saved' = saved
        /\ state'[t] = state[t] \cup {u}
        /\ \A q \in Pool : q # t => state'[q] = state[q]
        /\ exposed' = IF ToldLate(t) THEN exposed \cup {u} ELSE exposed
    BY <1>0, <1>2 DEF Report, TypeOK
  <2>2. \A p \in 1..created : Pending(p)' \subseteq Pending(p)
    <3>1. loop' = loop /\ snapshot' = snapshot /\ reload' = reload /\ server' = server /\ current' = current
      BY <1>2 DEF Report
    <3> QED
      BY <3>1 DEF Pending
  <2> HIDE DEF t
  <2>3. SUFFICES ASSUME NEW p \in 1..created, NEW row \in Pending(p)'
                 PROVE  /\ row \subseteq state'[p]
                        /\ saved \ exposed' \subseteq row
                        /\ \A q \in 1..created \ {p} : state'[q] \ exposed' \subseteq row
                        /\ \A other \in Pending(p)' : other \ exposed' \subseteq row
    BY <2>1 DEF RowsInv
  <2>4. row \in Pending(p) /\ (\A other \in Pending(p)' : other \in Pending(p)) /\ p \in Pool
    BY <1>0, <2>2 DEF TypeOK
  <2>5. ASSUME NEW q \in 1..created \ {p} PROVE state'[q] \ exposed' \subseteq row
    <3>1. state[q] \ exposed \subseteq row /\ q \in Pool
      BY <1>0, <2>4 DEF RowsInv, TypeOK
    <3>2. q = t => u \in exposed'
      BY <1>0, <2>1, <2>4, <2>5, PendingWrites DEF ToldLate
    <3> QED
      BY <2>1, <3>1, <3>2
  <2>6. /\ row \subseteq state[p]
        /\ saved \ exposed \subseteq row
        /\ \A other \in Pending(p) : other \ exposed \subseteq row
    BY <1>0, <2>4 DEF RowsInv
  <2> QED
    BY <2>1, <2>4, <2>5, <2>6
<1>3. ASSUME NEW p \in Pool, Tick(p) PROVE RowsInv'
  <2>1. p \in 1..created /\ MayWrite(p)
    BY <1>0, <1>3 DEF Tick, PoolsInv, MayWrite, TypeOK
  <2>2. /\ Pending(p)' \subseteq Pending(p) \cup {state[p]}
        /\ \A q \in 1..created : q # p => Pending(q)' \subseteq Pending(q)
    BY <1>0, <1>3 DEF Tick, Pending, TypeOK
  <2> QED
    BY <1>0, <1>3, <2>1, <2>2, RowsTaken DEF Tick
<1>4. ASSUME NEW p \in Pool, Sync(p) \/ SyncFails(p) PROVE RowsInv'
  <2>1. p \in 1..created /\ snapshot[p] \in Pending(p)
    BY <1>0, <1>4 DEF Sync, SyncFails, Synced, TypeOK, PoolsInv, Pending
  <2>2. ASSUME NEW q \in 1..created PROVE Pending(q)' \subseteq Pending(q)
    <3>1. /\ loop'[p] = "waiting" /\ current' = current /\ reload' = reload /\ server' = server
          /\ q # p => loop'[q] = loop[q] /\ snapshot'[q] = snapshot[q]
      BY <1>0, <1>4 DEF Sync, SyncFails, Synced, TypeOK
    <3> QED
      BY <3>1 DEF Pending
  <2>3. CASE Sync(p)
    BY <1>0, <2>1, <2>2, <2>3, RowsWrite DEF Sync, Synced, SaveKeyStatsBatch
  <2>4. CASE SyncFails(p)
    BY <1>0, <2>2, <2>4, RowsQuiet DEF SyncFails, Synced, SaveFails
  <2> QED
    BY <1>4, <2>3, <2>4
<1>5. ASSUME NEW p \in Pool, LoopReturns(p) PROVE RowsInv'
  <2>1. \A q \in 1..created : Pending(q)' \subseteq Pending(q)
    BY <1>0, <1>5 DEF LoopReturns, Pending, TypeOK
  <2> QED
    BY <1>0, <1>5, <2>1, RowsQuiet DEF LoopReturns
<1>6. ASSUME NEW row \in Loadable, Build(row) PROVE RowsInv'
  <2>0. PICK n \in Int : n = created + 1
    BY <1>0 DEF TypeOK
  <2>1. /\ n \in Pool /\ created' = n /\ created = current /\ saved' = saved
        /\ state'[n] = row /\ \A q \in 1..created : state'[q] = state[q]
        /\ exposed' = exposed \cup (state[current] \ row) \cup Unread(row)
    BY <1>0, <1>6, <2>0 DEF Build, TypeOK, PoolsInv
  <2>2. row \subseteq saved
    BY <1>0 DEF Loadable, LoadKeyStats, NothingLoaded, DiskInv
  <2>a. /\ loop'[n] = "waiting" /\ current' = current /\ reload'.at = "built" /\ server' = server
        /\ snapshot' = snapshot /\ reload.at = "none" /\ n # current
        /\ \A q \in 1..created : loop'[q] = loop[q]
    BY <1>0, <1>6, <2>0 DEF Build, TypeOK, PoolsInv
  <2>3. Pending(n)' = {} /\ \A q \in 1..created : Pending(q)' \subseteq Pending(q)
    BY <2>a DEF Pending
  <2>4. \A q \in 1..created' : q = n \/ q \in 1..created
    BY <1>0, <2>0, <2>1 DEF TypeOK
  <2>5. SUFFICES ASSUME NEW p \in 1..created', NEW taken \in Pending(p)'
                 PROVE  /\ taken \subseteq state'[p]
                        /\ saved \ exposed' \subseteq taken
                        /\ \A q \in 1..created' \ {p} : state'[q] \ exposed' \subseteq taken
                        /\ \A other \in Pending(p)' : other \ exposed' \subseteq taken
    BY <2>1 DEF RowsInv
  <2>6. p \in 1..created /\ taken \in Pending(p) /\ \A other \in Pending(p)' : other \in Pending(p)
    BY <2>3, <2>4
  <2>7. /\ taken \subseteq state[p]
        /\ saved \ exposed \subseteq taken
        /\ \A q \in 1..created \ {p} : state[q] \ exposed \subseteq taken
        /\ \A other \in Pending(p) : other \ exposed \subseteq taken
    BY <1>0, <2>6 DEF RowsInv
  <2>8. ASSUME NEW q \in 1..created' \ {p} PROVE state'[q] \ exposed' \subseteq taken
    <3>1. CASE q = n
      BY <2>1, <2>2, <2>7, <3>1
    <3>2. CASE q # n
      BY <2>1, <2>4, <2>7, <3>2
    <3> QED
      BY <3>1, <3>2
  <2> QED
    BY <2>1, <2>6, <2>7, <2>8
<1>7. ASSUME NEW row \in Loadable, Boot(row) PROVE RowsInv'
  <2>1. created' = 1 /\ Pending(1)' = {}
    BY <1>0, <1>7 DEF Boot, PoolsInv, TypeOK, Pending, Running
  <2> QED
    BY <2>1 DEF RowsInv
<1>8. CASE Swap
  <2>1. \A q \in 1..created : Pending(q)' \subseteq Pending(q)
    BY <1>8 DEF Swap, Pending, Stopping
  <2> QED
    BY <1>0, <1>8, <2>1, RowsQuiet DEF Swap
<1>9. CASE ReloadSnapshot
  <2>0. PICK s \in Pool : s = reload.old
    BY <1>0 DEF TypeOK, Reloads
  <2>1. s \in 1..created /\ MayWrite(s)
    BY <1>0, <1>9, <2>0 DEF ReloadSnapshot, PoolsInv, MayWrite, TypeOK, Reloads
  <2>2. /\ Pending(s)' \subseteq Pending(s) \cup {state[s]}
        /\ \A q \in 1..created : q # s => Pending(q)' \subseteq Pending(q)
    BY <1>9, <2>0 DEF ReloadSnapshot, Pending
  <2>3. exposed' = exposed \cup Overtaking(s)
    BY <1>9, <2>0 DEF ReloadSnapshot
  <2> QED
    BY <1>0, <1>9, <2>1, <2>2, <2>3, RowsTaken DEF ReloadSnapshot
<1>10. CASE ReloadSave
  <2>1. reload.old \in 1..created /\ reload.row \in Pending(reload.old)
    BY <1>0, <1>10 DEF ReloadSave, TypeOK, PoolsInv, Pending, Reloads
  <2>2. \A q \in 1..created : Pending(q)' \subseteq Pending(q)
    BY <1>10 DEF ReloadSave, Pending
  <2>3. CASE SaveKeyStatsBatch(reload.row)
    BY <1>0, <1>10, <2>1, <2>2, <2>3, RowsWrite DEF ReloadSave, SaveKeyStatsBatch
  <2>4. CASE SaveFails
    BY <1>0, <1>10, <2>2, <2>4, RowsQuiet DEF ReloadSave, SaveFails
  <2> QED
    BY <1>10, <2>3, <2>4 DEF ReloadSave
<1>11. CASE ReloadStop
  <2>1. \A q \in 1..created : Pending(q)' \subseteq Pending(q)
    BY <1>11 DEF ReloadStop, Pending, NoReload
  <2> QED
    BY <1>0, <1>11, <2>1, RowsQuiet DEF ReloadStop
<1>12. CASE StopLoop
  <2>1. \A q \in 1..created : Pending(q)' \subseteq Pending(q)
    BY <1>12 DEF StopLoop, Pending
  <2> QED
    BY <1>0, <1>12, <2>1, RowsQuiet DEF StopLoop
<1>13. CASE StopSnapshot
  <2>1. current \in 1..created /\ MayWrite(current) /\ Alive
    BY <1>0, <1>13 DEF StopSnapshot, TypeOK, MayWrite, Alive
  <2>2. /\ Pending(current)' \subseteq Pending(current) \cup {state[current]}
        /\ \A q \in 1..created : q # current => Pending(q)' \subseteq Pending(q)
    BY <1>13 DEF StopSnapshot, Pending
  <2> QED
    BY <1>0, <1>13, <2>1, <2>2, RowsTaken DEF StopSnapshot
<1>14. CASE StopSave
  <2>1. Alive /\ current \in 1..created /\ server.row \in Pending(current)
    BY <1>0, <1>14 DEF StopSave, TypeOK, Pending, Alive
  <2>2. \A q \in 1..created : Pending(q)' \subseteq Pending(q)
    BY <1>14 DEF StopSave, Pending
  <2>3. CASE SaveKeyStatsBatch(server.row)
    BY <1>0, <1>14, <2>1, <2>2, <2>3, RowsWrite DEF StopSave, SaveKeyStatsBatch
  <2>4. CASE SaveFails
    BY <1>0, <1>14, <2>2, <2>4, RowsQuiet DEF StopSave, SaveFails
  <2> QED
    BY <1>14, <2>3, <2>4 DEF StopSave
<1>15. CASE Die
  <2>1. created' = 1 /\ Pending(1)' = {}
    BY <1>15 DEF Die, Pending, Down, NoReload
  <2> QED
    BY <2>1 DEF RowsInv
<1>16. CASE UNCHANGED vars
  <2>1. \A q \in 1..created : Pending(q)' \subseteq Pending(q)
    BY <1>16 DEF vars, Pending
  <2> QED
    BY <1>0, <1>16, <2>1, RowsQuiet DEF vars
<1> QED
  BY <1>1, <1>2, <1>3, <1>4, <1>5, <1>6, <1>7, <1>8, <1>9, <1>10, <1>11, <1>12, <1>13, <1>14,
     <1>15, <1>16 DEF Next

-----------------------------------------------------------------------------
(* The table and what a stop was told                                       *)

\* A write leaves the table with everything that is not exposed.
LEMMA DiskWrite ==
    ASSUME TypeOK, PoolsInv, StatesInv, RowsInv, Alive, NEW p \in 1..created,
           NEW row \in Pending(p), disk' = row, saved' = saved \cup row, exposed' = exposed
    PROVE  DiskInv'
  BY WrittenRow DEF DiskInv

LEMMA DiskQuiet ==
    ASSUME DiskInv, disk' = disk, saved' = saved, exposed \subseteq exposed'
    PROVE  DiskInv'
  BY DEF DiskInv

LEMMA DiskStep == IInv /\ [Next]_vars => DiskInv'
<1> SUFFICES ASSUME IInv, [Next]_vars PROVE DiskInv'
  OBVIOUS
<1> USE DEF progress, requests
<1>0. TypeOK /\ PoolsInv /\ StatesInv /\ RowsInv /\ DiskInv
  BY DEF IInv
<1>1. ASSUME NEW u \in Update, Begin(u) \/ Report(u) PROVE DiskInv'
  BY <1>0, <1>1, DiskQuiet DEF Begin, Report
<1>2. ASSUME NEW p \in Pool, Tick(p) \/ SyncFails(p) \/ LoopReturns(p) PROVE DiskInv'
  BY <1>0, <1>2, DiskQuiet DEF Tick, SyncFails, Synced, SaveFails, LoopReturns
<1>3. ASSUME NEW p \in Pool, Sync(p) PROVE DiskInv'
  <2>1. p \in 1..created /\ snapshot[p] \in Pending(p)
    BY <1>0, <1>3 DEF Sync, Synced, TypeOK, PoolsInv, Pending
  <2> QED
    BY <1>0, <1>3, <2>1, DiskWrite DEF Sync, Synced, SaveKeyStatsBatch
<1>4. ASSUME NEW row \in Loadable, Build(row) \/ Boot(row) PROVE DiskInv'
  BY <1>0, <1>4, DiskQuiet DEF Build, Boot
<1>5. CASE Swap \/ ReloadSnapshot \/ ReloadStop \/ StopLoop \/ StopSnapshot \/ Die
  BY <1>0, <1>5, DiskQuiet DEF Swap, ReloadSnapshot, ReloadStop, StopLoop, StopSnapshot, Die
<1>6. CASE ReloadSave
  <2>1. reload.old \in 1..created /\ reload.row \in Pending(reload.old)
    BY <1>0, <1>6 DEF ReloadSave, TypeOK, PoolsInv, Pending, Reloads
  <2>2. CASE SaveKeyStatsBatch(reload.row)
    BY <1>0, <1>6, <2>1, <2>2, DiskWrite DEF ReloadSave, SaveKeyStatsBatch
  <2> QED
    BY <1>0, <1>6, <2>2, DiskQuiet DEF ReloadSave, SaveFails
<1>7. CASE StopSave
  <2>1. Alive /\ current \in 1..created /\ server.row \in Pending(current)
    BY <1>0, <1>7 DEF StopSave, TypeOK, Pending, Alive
  <2>2. CASE SaveKeyStatsBatch(server.row)
    BY <1>0, <1>7, <2>1, <2>2, DiskWrite DEF StopSave, SaveKeyStatsBatch
  <2> QED
    BY <1>0, <1>7, <2>2, DiskQuiet DEF StopSave, SaveFails
<1>8. CASE UNCHANGED vars
  BY <1>0, <1>8, DiskQuiet DEF vars
<1> QED
  BY <1>1, <1>2, <1>3, <1>4, <1>5, <1>6, <1>7, <1>8 DEF Next

LEMMA ToldQuiet ==
    ASSUME ToldInv, told' = told, server' = server, saved \subseteq saved', exposed \subseteq exposed',
           server.at = "closing" => state[current] \subseteq (state[current])'
    PROVE  ToldInv'
  BY DEF ToldInv

LEMMA ToldStep == IInv /\ [Next]_vars => ToldInv'
<1> SUFFICES ASSUME IInv, [Next]_vars PROVE ToldInv'
  OBVIOUS
<1> USE DEF progress, requests
<1>0. TypeOK /\ PoolsInv /\ StatesInv /\ ToldInv
  BY DEF IInv
<1>1. ASSUME NEW u \in Update, Begin(u) PROVE ToldInv'
  BY <1>0, <1>1, ToldQuiet DEF Begin
<1>2. ASSUME NEW u \in Update, Report(u) PROVE ToldInv'
  <2>1. state[current] \subseteq state'[current]
    BY <1>0, <1>2 DEF Report, TypeOK
  <2> QED
    BY <1>0, <1>2, <2>1, ToldQuiet DEF Report
<1>3. ASSUME NEW p \in Pool, Tick(p) \/ Sync(p) \/ SyncFails(p) \/ LoopReturns(p) PROVE ToldInv'
  BY <1>0, <1>3, ToldQuiet DEF Tick, Sync, SyncFails, Synced, SaveKeyStatsBatch, SaveFails, LoopReturns
<1>4. ASSUME NEW row \in Loadable, Build(row) PROVE ToldInv'
  <2>1. state'[current] = state[current]
    BY <1>0, <1>4 DEF Build, TypeOK, PoolsInv
  <2> QED
    BY <1>0, <1>4, <2>1, ToldQuiet DEF Build
<1>5. CASE Die \/ \E row \in Loadable : Boot(row)
  BY <1>5 DEF Die, Boot, Down, Running, ToldInv
<1>6. CASE Swap
  BY <1>0, <1>6 DEF Swap, Stopping, ToldInv
<1>7. CASE ReloadSnapshot \/ ReloadSave \/ ReloadStop
  BY <1>0, <1>7, ToldQuiet DEF ReloadSnapshot, ReloadSave, ReloadStop, SaveKeyStatsBatch, SaveFails
<1>8. CASE StopLoop
  <2>1. ASSUME NEW p \in 1..created PROVE state[p] \ exposed \subseteq state[current]
    <3>1. Alive /\ MayWrite(current) /\ (p = current \/ p < current \/ current < p)
      BY <1>0, <1>8 DEF StopLoop, Alive, MayWrite, TypeOK
    <3> QED
      BY <1>0, <3>1 DEF StatesInv, TypeOK
  <2>2. told' \ exposed \subseteq state[current]
    BY <1>8, <2>1 DEF StopLoop
  <2> QED
    BY <1>8, <2>2 DEF StopLoop, ToldInv
<1>9. CASE StopSnapshot
  BY <1>0, <1>9 DEF StopSnapshot, ToldInv
<1>10. CASE StopSave
  BY <1>0, <1>10 DEF StopSave, SaveKeyStatsBatch, SaveFails, ToldInv
<1>11. CASE UNCHANGED vars
  BY <1>0, <1>11 DEF vars, ToldInv
<1> QED
  BY <1>1, <1>2, <1>3, <1>4, <1>5, <1>6, <1>7, <1>8, <1>9, <1>10, <1>11 DEF Next

-----------------------------------------------------------------------------
(* The theorems                                                             *)

LEMMA InitIInv == Init => IInv
<1> SUFFICES ASSUME Init PROVE IInv
  OBVIOUS
<1>1. TypeOK
  BY InitType
<1>2. PoolsInv
  BY DEF Init, PoolsInv, NoReload, Running, Alive
<1>3. \A p \in Pool : Pending(p) = {} /\ state[p] = {}
  BY DEF Init, Pending, NoReload, Running
<1>4. StatesInv /\ RowsInv /\ DiskInv /\ ToldInv
  BY <1>3 DEF Init, StatesInv, RowsInv, DiskInv, ToldInv, Running
<1> QED
  BY <1>1, <1>2, <1>4 DEF IInv

\* The inductive invariant of the key's statistics holds throughout: what every
\* pool and every row on its way to key_stats know of the others.
THEOREM IInvCorrect == Spec => []IInv
<1>1. IInv /\ [Next]_vars => IInv'
  BY TypeStep, PoolsStep, StatesStep, RowsStep, DiskStep, ToldStep DEF IInv
<1> QED
  BY InitIInv, <1>1, PTL DEF Spec

\* Variables keep their types and requests run on pools that exist.
THEOREM TypeCorrect == Spec => []TypeOK
<1>1. IInv => TypeOK
  BY DEF IInv
<1> QED
  BY IInvCorrect, <1>1, PTL

\* docs/00:33: apart from the named windows, no sync, reload, stop, crash or
\* restart takes an update out of the table again.
THEOREM SavedCorrect == Spec => []SavedStaysSaved
<1>1. IInv => SavedStaysSaved
  BY DEF IInv, DiskInv, SavedStaysSaved
<1> QED
  BY IInvCorrect, <1>1, PTL

\* docs/05:167: a stop whose write succeeds leaves the table with everything the
\* process was told before the signal, apart from the same windows.
THEOREM StopCorrect == Spec => []StopSaves
<1>1. IInv => StopSaves
  BY DEF IInv, DiskInv, ToldInv, StopSaves
<1> QED
  BY IInvCorrect, <1>1, PTL
=============================================================================
