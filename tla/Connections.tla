---- MODULE Connections ----
(* Who waits for which connection: BloodHound's pool, which writers and served *)
(* reads hold a connection of, and the write path's own small pool that bumps  *)
(* and read-backs run on (engine/writepool.go), up to the shutdown that saves  *)
(* and then closes it (driver.go Close, boot.go Stop and CloseWritePool).      *)
EXTENDS Integers, FiniteSets

CONSTANTS
    Transactions,        \* writers inside WriteTransaction
    Batches,             \* writers inside BatchOperation that commit midway
    Readers,             \* read transactions whose served query hydrates rows
    MainConns,           \* size of BloodHound's pool
    WritePathPoolConns,  \* writePathPoolConns, 2 in the code
    ReadBackQueries      \* queries one read-back makes

ASSUME ConnectionsAssumption ==
    MainConns \in Nat \ {0} /\ WritePathPoolConns \in Nat \ {0} /\ ReadBackQueries \in Nat \ {0}

VARIABLES
    pc,        \* where each writer and reader is
    midway,    \* batches that have yet to commit midway
    pool,      \* the pool the writer's statement was given
    left,      \* queries its read-back has left
    tx,        \* who holds a connection of the main pool for its transaction
    onMain,    \* who runs a statement on another connection of the main pool
    onWrite,   \* who runs a statement on the write path's pool
    applyMu,   \* who holds applyMu
    closed,    \* the write path's pool is closed
    sd,        \* how far Driver.Close is
    lost       \* a bump or a read-back failed because its pool was closed

vars == <<pc, midway, pool, left, tx, onMain, onWrite, applyMu, closed, sd, lost>>

Writers == Transactions \cup Batches
MainFree == Cardinality(tx) + Cardinality(onMain) < MainConns
WriteFree == Cardinality(onWrite) < WritePathPoolConns

\* Broken on purpose: the write path draws on BloodHound's pool.
GetMain == "main"

(* writePathPool.get *)
Get == IF closed THEN "main" ELSE "write"

Goes(p, to) == pc' = [pc EXCEPT ![p] = to]

------------------------------------------------------------------------------
(* A write: its transaction's connection, its eager bump, its commit, its apply. *)

Begin(p) ==
    /\ pc[p] = "start" /\ MainFree
    /\ tx' = tx \cup {p}
    /\ Goes(p, IF p \in Readers THEN "hydrate" ELSE "bump")
    /\ UNCHANGED <<midway, pool, left, onMain, onWrite, applyMu, closed, sd, lost>>

(* BumpWatermark picks its pool at the first mutating call. *)
BumpWatermark(w) ==
    /\ pc[w] = "bump"
    /\ pool' = [pool EXCEPT ![w] = Get]
    /\ Goes(w, "bumpWait")
    /\ UNCHANGED <<midway, left, tx, onMain, onWrite, applyMu, closed, sd, lost>>

Acquire(w, waiting, running) ==
    /\ pc[w] = waiting
    /\ \/ pool[w] = "write" /\ ~closed /\ WriteFree /\ onWrite' = onWrite \cup {w} /\ UNCHANGED onMain
       \/ pool[w] = "main" /\ MainFree /\ onMain' = onMain \cup {w} /\ UNCHANGED onWrite
    /\ Goes(w, running)
    /\ UNCHANGED <<midway, pool, left, tx, applyMu, closed, sd, lost>>

BumpAcquires(w) == Acquire(w, "bumpWait", "bumpRun")
ReadBackAcquires(w) == Acquire(w, "rbWait", "rbRun")

Release(w) == /\ onMain' = onMain \ {w}
              /\ onWrite' = onWrite \ {w}

BumpReturns(w) ==
    /\ pc[w] = "bumpRun"
    /\ Release(w)
    /\ Goes(w, "write")
    /\ UNCHANGED <<midway, pool, left, tx, applyMu, closed, sd, lost>>

(* Acquiring from a closed pool fails: the write goes on unguarded. *)
BumpFails(w) ==
    /\ pc[w] = "bumpWait" /\ pool[w] = "write" /\ closed
    /\ lost' = TRUE
    /\ Goes(w, "write")
    /\ UNCHANGED <<midway, pool, left, tx, onMain, onWrite, applyMu, closed, sd>>

(* The write commits; only a batch's midway commit applies while the batch     *)
(* still holds its connection.                                                 *)
Commit(w) ==
    /\ pc[w] = "write"
    /\ tx' = IF w \in midway THEN tx ELSE tx \ {w}
    /\ Goes(w, "lock")
    /\ UNCHANGED <<midway, pool, left, onMain, onWrite, applyMu, closed, sd, lost>>

(* Apply takes applyMu and readBack picks one pool for all its queries. *)
Apply(w) ==
    /\ pc[w] = "lock" /\ applyMu = {}
    /\ applyMu' = {w}
    /\ pool' = [pool EXCEPT ![w] = Get]
    /\ left' = [left EXCEPT ![w] = ReadBackQueries]
    /\ Goes(w, "rbWait")
    /\ UNCHANGED <<midway, tx, onMain, onWrite, closed, sd, lost>>

(* Apply returns: a batch that committed midway goes on under a fresh scope. *)
Applied(w) ==
    /\ applyMu' = {}
    /\ midway' = midway \ {w}
    /\ Goes(w, IF w \in midway THEN "bump" ELSE "done")

ReadBackReturns(w) ==
    /\ pc[w] = "rbRun"
    /\ Release(w)
    /\ left' = [left EXCEPT ![w] = @ - 1]
    /\ IF left[w] > 1 THEN Goes(w, "rbWait") /\ UNCHANGED <<applyMu, midway>> ELSE Applied(w)
    /\ UNCHANGED <<pool, tx, closed, sd, lost>>

(* The pool was closed under the read-back: Apply enters fallback. *)
ReadBackFails(w) ==
    /\ pc[w] = "rbWait" /\ pool[w] = "write" /\ closed
    /\ lost' = TRUE
    /\ Applied(w)
    /\ UNCHANGED <<pool, left, tx, onMain, onWrite, closed, sd>>

------------------------------------------------------------------------------
(* A served read fetches rows on a second connection of the main pool.         *)

Hydrate(r) ==
    /\ pc[r] = "hydrate" /\ MainFree
    /\ onMain' = onMain \cup {r}
    /\ Goes(r, "hydrating")
    /\ UNCHANGED <<midway, pool, left, tx, onWrite, applyMu, closed, sd, lost>>

Hydrated(r) ==
    /\ pc[r] = "hydrating"
    /\ onMain' = onMain \ {r} /\ tx' = tx \ {r}
    /\ Goes(r, "done")
    /\ UNCHANGED <<midway, pool, left, onWrite, applyMu, closed, sd, lost>>

(* The caller's context ends, if it carries a deadline or its request goes     *)
(* away: nothing in the driver makes it end (driver.go ReadTransaction).       *)
RequestCancelled(r) ==
    /\ pc[r] \in {"start", "hydrate", "hydrating"}
    /\ tx' = tx \ {r} /\ onMain' = onMain \ {r}
    /\ Goes(r, "done")
    /\ UNCHANGED <<midway, pool, left, onWrite, applyMu, closed, sd, lost>>

------------------------------------------------------------------------------
(* Driver.Close: Stop, the save, CloseWritePool, then the embedded driver.     *)

\* Broken on purpose: stopping the engine closes the write path's pool.
StopAndClose ==
    /\ sd = "up"
    /\ sd' = "probe" /\ closed' = TRUE
    /\ UNCHANGED <<pc, midway, pool, left, tx, onMain, onWrite, applyMu, lost>>

Stop ==
    /\ sd = "up"
    /\ sd' = "probe"
    /\ UNCHANGED <<pc, midway, pool, left, tx, onMain, onWrite, applyMu, closed, lost>>

(* saveSnapshotProbe: a round trip on the main pool, or snapshotSaveTimeout. *)
SaveProbe ==
    /\ sd = "probe"
    /\ sd' = "save"
    /\ UNCHANGED <<pc, midway, pool, left, tx, onMain, onWrite, applyMu, closed, lost>>

(* saveSnapshotCommit waits for the Apply that is running. *)
SaveCommit ==
    /\ sd = "save" /\ applyMu = {}
    /\ sd' = "saved"
    /\ UNCHANGED <<pc, midway, pool, left, tx, onMain, onWrite, applyMu, closed, lost>>

CloseWritePool ==
    /\ sd = "saved"
    /\ sd' = "closed" /\ closed' = TRUE
    /\ UNCHANGED <<pc, midway, pool, left, tx, onMain, onWrite, applyMu, lost>>

------------------------------------------------------------------------------
Init ==
    /\ pc = [p \in Writers \cup Readers |-> "start"]
    /\ midway = Batches
    /\ pool = [w \in Writers |-> "main"] /\ left = [w \in Writers |-> 0]
    /\ tx = {} /\ onMain = {} /\ onWrite = {} /\ applyMu = {}
    /\ closed = FALSE /\ sd = "up" /\ lost = FALSE

Write(w) == \/ BumpWatermark(w) \/ BumpAcquires(w) \/ BumpReturns(w) \/ BumpFails(w) \/ Commit(w) \/ Apply(w)
            \/ ReadBackAcquires(w) \/ ReadBackReturns(w) \/ ReadBackFails(w)
Read(r) == Hydrate(r) \/ Hydrated(r)
Close == SaveProbe \/ SaveCommit \/ CloseWritePool

(* Of the steps that are due some are taken: a connection that stays free, a   *)
(* statement PostgreSQL runs, the next step of a shutdown. Nothing forces a    *)
(* Stop, nor the end of a caller's context.                                    *)
Due ==
    \/ \E w \in Writers : Begin(w) \/ Write(w)
    \/ \E r \in Readers : Begin(r) \/ Read(r)
    \/ Close

Next == Due \/ Stop \/ \E r \in Readers : RequestCancelled(r)
Spec == Init /\ [][Next]_vars /\ WF_vars(Due)

------------------------------------------------------------------------------
(* Until the pool closes, waiting runs one way only (writepool.go:42-54): who  *)
(* waits for a statement's connection waits for the write path's pool, whose   *)
(* connections are held by statements that run, and who holds applyMu is in    *)
(* such a statement or waits for one. No writer that holds a connection, the   *)
(* lock or both waits for BloodHound's pool.                                   *)
WaitsRunOneWay ==
    ~closed =>
        /\ \A w \in Writers : pc[w] \in {"bumpWait", "rbWait"} => pool[w] = "write"
        /\ \A w \in onWrite : pc[w] \in {"bumpRun", "rbRun"}
        /\ \A w \in applyMu : pc[w] \in {"rbWait", "rbRun"}
        /\ onMain \subseteq Readers

(* Served reads that all wait for a second connection hold the main pool:      *)
(* it has wedged on itself (transaction.go:58-62, WHITEPAPER.md 8.4).          *)
ReadsWedged == Cardinality({r \in Readers : pc[r] = "hydrate"}) = MainConns

(* Every write that has its connection finishes, whatever the reads do: again  *)
(* and again none is underway, although all writes hold a connection of a      *)
(* saturated pool when they bump and, midway through a batch, when they read   *)
(* back (writepool.go:42-54). They never wait on each other, nor on a wedged   *)
(* pool. And all the writes finish, unless served reads keep the main pool     *)
(* wedged for good. A write that a shutdown finds may end with the process.    *)
WritesEnd ==
    /\ []<>(closed \/ \A w \in Writers : pc[w] \in {"start", "done"})
    /\ <>[]ReadsWedged \/ <>(closed \/ \A w \in Writers : pc[w] = "done")

(* A shutdown that began reaches the end of its save and closes the pool: the  *)
(* save waits, on applyMu, for an Apply that waits for no one it holds up      *)
(* (driver.go Close).                                                          *)
ShutdownEnds == (sd = "probe") ~> (sd = "closed")

(* A bump or a read-back finds its pool closed only after the shutdown's save  *)
(* is done, so the fallback it enters cannot cost the save its file            *)
(* (boot.go Stop, CloseWritePool).                                             *)
ClosingCostsNoFile == lost => sd = "closed"
====
