---------------------------- MODULE LifecycleProps ----------------------------
(***************************************************************************)
(* What becomes of the updates of a key over reloads, stops and crashes.    *)
(***************************************************************************)
EXTENDS Lifecycle

Row == SUBSET Update
Reloads == [at : {"none", "built", "swapped", "saving", "saved"}, old : Pool, row : Row]
Servers == [at : {"up", "closing", "saving", "draining", "down"}, row : Row, ok : BOOLEAN]

\* The variables keep the types of the Go values they stand for; requests run
\* only on pools that exist.
TypeOK ==
    /\ disk \in Row /\ created \in Pool /\ current \in 1..created
    /\ state \in [Pool -> Row]
    /\ loop \in [Pool -> {"waiting", "saving", "over"}]
    /\ snapshot \in [Pool -> Row]
    /\ stopped \in [Pool -> BOOLEAN]
    /\ reload \in Reloads /\ server \in Servers
    /\ phase \in [Update -> {"new", "running", "done"}]
    /\ pool \in [Update -> Pool]
    /\ \A u \in Update : phase[u] = "running" => pool[u] <= created
    /\ boots \in 1..MaxBoots
    /\ saved \in Row /\ exposed \in Row /\ told \in Row

\* docs/00:33: the statistics of a key survive a restart.  What the table has
\* held it keeps holding, through every order of syncs, reloads, stops, crashes
\* and starts, except for what was told during a reload or to a pool that was
\* replaced, what two writes of one pool in flight disagree on, and what a pool
\* that starts does not find in the table.
SavedStaysSaved == saved \ exposed \subseteq disk

\* docs/05:167: the stop makes a last sync.  If it succeeds, the table has
\* everything the process was told before the signal, on whichever pool, with
\* the same exceptions; no loop that is still running takes it back.
StopSaves == server.at = "draining" /\ server.ok => told \ exposed \subseteq disk

\* docs/05:167: the loop writes the statistics down.  What the pool of new
\* requests has been told reaches the table, whatever writes fail and whatever
\* pool was replaced before it, unless the server stops or a reload leads new
\* requests to a pool that was not told.
ReportsReachDisk ==
    \A u \in Update :
        (server.at = "up" /\ u \in state[current])
            ~> (u \in disk \/ u \notin state[current] \/ server.at # "up")

-----------------------------------------------------------------------------
(* The inductive invariant behind SavedStaysSaved and StopSaves.            *)

\* A pool exists before it is used, and only a reload between its first two
\* steps has one more than current.
PoolsInv ==
    /\ created = IF reload.at = "built" THEN current + 1 ELSE current
    /\ reload.at \in {"swapped", "saving"} => reload.old < current
    /\ \A u \in Update : phase[u] = "running" => pool[u] <= current
    /\ \A p \in Pool : p > created => loop[p] = "over"
    /\ ~Alive => created = 1 /\ reload.at = "none" /\ loop[1] = "over"

\* A pool that writes, or that a reload will still make write.
MayWrite(p) ==
    \/ loop[p] # "over"
    \/ p >= current
    \/ reload.at \in {"swapped", "saving"} /\ reload.old = p

\* Apart from what is exposed, a pool knows what its predecessors know, and
\* one that may still write knows what its successors and the table know.
StatesInv ==
    Alive => \A p, q \in 1..created :
        /\ p < q => state[p] \ exposed \subseteq state[q]
        /\ p < q /\ MayWrite(p) => state[q] \ exposed \subseteq state[p]
        /\ MayWrite(p) => saved \ exposed \subseteq state[p]

\* So does every row that is about to be written.
RowsInv ==
    \A p \in 1..created : \A row \in Pending(p) :
        /\ row \subseteq state[p]
        /\ saved \ exposed \subseteq row
        /\ \A q \in 1..created \ {p} : state[q] \ exposed \subseteq row
        /\ \A other \in Pending(p) : other \ exposed \subseteq row

DiskInv == disk \subseteq saved /\ saved \ exposed \subseteq disk

\* What was told before the signal is on its way to the table.
ToldInv ==
    /\ server.at = "closing" => told \ exposed \subseteq state[current]
    /\ server.at = "saving" => told \ exposed \subseteq server.row
    /\ server.at = "draining" /\ server.ok => told \ exposed \subseteq saved

IInv == TypeOK /\ PoolsInv /\ StatesInv /\ RowsInv /\ DiskInv /\ ToldInv
=============================================================================
