# BloodTrail: a TLA+ development

BloodTrail is a graph driver that sits between a BloodHound server and
PostgreSQL.  PostgreSQL keeps the truth; BloodTrail keeps an in-memory replica
of the graph and answers path and Cypher queries from it.  Everything here is
about one promise: **whatever is served from the replica is what PostgreSQL
would have said**, across racing writes, failed calls, panics, background
reloads, saves to disk and restarts.

## 1. Inventory

| Part | State | Operations | Talks to |
|---|---|---|---|
| driver (`driver.go`) and write observer (`write_observer.go`) | one `WriteScope` per call: keys, fallback, counter | `WriteTransaction`, `BatchOperation`, `Run`, wipes; every mutating call bumps the watermark first and records what it touched | PostgreSQL; `Engine.Apply` / `ResolveAbandonedWrite` before the call returns |
| watermark (`watermark.go`) | counter row in PostgreSQL, in-flight bumps, the ledger, three failure generations, lineage | bump, note failure, settle, resolve, rebase, convergence, file refusal | everything below |
| apply (`apply.go`) | `applyMu`, `applyEpoch`, serving/fallback | read committed rows back, publish a new view, or fall back | rebuild loop |
| rebuild loop (`engine.go`, `apply.go`, `background_panic.go`) | one gate, a rate-limited launcher | load the whole graph, adopt it unless superseded, rebase, recheck | PostgreSQL |
| boot (`boot.go`, `bootgap.go`) | what PostgreSQL held at start, the boot gap buffer | try the snapshot file, replay the gap, else load | snapshot file |
| persistence (`persist.go`, `snapshot/file.go`) | the file and its stamp | probe, decide, write, recheck, remove | compaction, shutdown |
| compaction (`compact.go`) | base and delta segments | fold the delta into a new base off-lock, adopt it | persistence |
| snapshot (`snapshot/`) | immutable CSR base, segments, indexes | build, view, fold, validate, encode | |
| serving (`serve_*.go`, `gate.go`, `recognize/`, `interpret/`, `traverse/`) | none of its own | decide served or declined, evaluate on one view | hydration from PostgreSQL |
| installer (`internal/installer`, `dbswitch`, `compose`, `backup`, `manifest`, `dockerx`, `toolapi`, `verify`, `cmd`) | manifest, `.env`, driver switch | install, roll back, status | docker, PostgreSQL |

What is hard: a driver call is a dozen steps between two of which anything may
happen; the loader, the saver and the boot attempt take readings outside the
lock and act on them inside it; PostgreSQL calls fail with their outcome
unknown; a write whose watermark bump failed leaves no trace a later reader
could notice; and the file outlives the process.  `PROJECT.json` lists the
hazards at their lines.

What makes each part correct:

* ledger: it never claims a value nobody accounted for, loses nothing while it
  calls itself exact, and admits a loss until a rebase covers it;
* apply and rebuild: the served view is current; a query reads every write
  acknowledged before it; fallback is never permanent; reloading ends;
* generations: a failure settles once, and is resolved only by a load that
  began after it settled;
* persistence and boot: a file that would be adopted misses no write.

## 2. Modules

```
The replica's bookkeeping
WatermarkLedger    the ledger as pure operators over a set of values
├─ LedgerSpec      the ledger under every order of operations, with history
│  └─ LedgerRuns   the code's sorted slice of runs; implements LedgerSpec
│     └─ LedgerProofs
└─ EngineState     constants, variables, boot gap buffer, rebuild gate
   ├─ WritePath    driver call, bump, mutating calls, Apply, abandoned writes
   └─ Rebuild      rebuild loop, adoption, trust launcher
      ├─ Persist   the save, compaction's effect
      └─ Boot      Start and the snapshot file attempt
Engine             EXTENDS WritePath, Persist, Boot: queries, stop, exit, properties
├─ TrustReader     WatermarkTrusted, sample by sample, beside the engine
└─ EngineProofs    the engine's bookkeeping; what the replica, its files and
                   TrustReader promise
Connections        both pools, writers, hydrating reads, shutdown
└─ ConnectionsProofs

The replica's data
Overlay            base, segments, view, collapse and fold as pure operators
PgGraph            ids and loaded rows of the two modules that follow
├─ Compaction      writes, applies, folds in the background, rebuilds
│  └─ CompactionProofs
└─ ReadBack        a write's keys read back query by query beside other writers
   └─ ReadBackProofs
SnapshotBase       builder, packed arrays, validation
SnapshotStore      temporary file, sync, rename, removal, sweep, power loss
SnapshotFormat     sections, claims and checksum of a file being read
└─ SnapshotProofs  of SnapshotBase, SnapshotStore and SnapshotFormat

Serving
PropIndex          property and value indexes over base and delta
└─ Anchors         conjuncts pushed down, anchors chosen and combined
Traverse           allShortestPaths and its two strategies
PathServing        FetchAllShortestPaths and TryCypher with hydration
Builder            builder queries, wrappers, cursor

Installation
ComposeEnv         the COMPOSE_FILE entry, edited and restored
└─ Installer       install, migration, rollback, restarts, handovers
   └─ InstallerProofs
```

`OperatorLemmas` has what the proofs share about the operators of
`WatermarkLedger` and `Overlay`; `LedgerProofs`, `EngineProofs`, `CompactionProofs`
and `ReadBackProofs` extend it.

The instances are in `MCEngine`, `MCTrust` and `MCInstaller`, which extend the
module they check, and in four modules that put several components side by
side: `MCUpkeep` (`Compaction`, `ReadBack`), `MCSnapshot` (`SnapshotStore`,
`SnapshotBase`, `SnapshotFormat`), `MCServing` (`Builder`, `PathServing`, `Anchors`,
`Traverse`) and `MCProgress` (`Connections`, and the liveness of `Compaction`,
`Builder` and `Traverse`).  In these a variable `part` picks the component a
behaviour is about; the other components' variables are off, or at their
initial values, and never change.  `MCSnapshot` extends `SnapshotBase` with the
constants of the validation part and takes a second instance of it for packing.
`MCUpkeep` extends `Compaction` and `ReadBack`; the three read-back parts are instances
of `ReadBack` over its own variables with other constants.
`BuilderCases`, `PathServingCases`, `AnchorsCases` and `TraverseCases` hold the
graphs, queries and values such instances draw on.

The modules of one group share no state with those of another; where two of them model the same code at two levels, the finer one justifies
the coarser one's step: `Persist` takes a file write for atomic, `SnapshotStore`
shows that a file under the name is always whole; `Compaction` reads a write's
rows in one step, `ReadBack` in its queries; `WritePath` reads one row per key,
`ReadBack` resolves the key; `Persist.CompactionAdopted` keeps the rows,
`Compaction` shows that a fold does; `PathServing` and `Builder` capture a view
in one step, `ReadsAcknowledgedWrites` of the `replica` run shows that what is captured has every acknowledged
write; `PathServing` takes the shortest paths of a view for given, `Traverse`
finds them.

### The engine

**Data.**  A row's content is a version number: `pgRow[r]` counts committed
writes to `r`, and a view is one version per row, so "the view is stale" is an
inequality.  `Touches[w]` gives each write its rows; `Batch`, `Opaque` and
`Inserts` say whether it autocommits row by row, whether its keys can be named,
and whether it draws ids from the sequences.  A mid-transaction `Commit` gives
the code a fresh scope, so each scope is a write of its own here.  `Run`,
`WipeGraph` and whatever `SetDefaultGraph` and the deletes by kind cannot name
are `Opaque` writes.

**State.**  The Engine's fields keep the code's names (`applyEpoch`,
`dirtyGen`, `inflight`, `bootGap`...).  `loop.pc = "none"` is
`fallbackRebuilding == false`; `loop.finishing` counts loops that have let go of
the gate and have yet to recheck; `loop.fresh` is "the last trust launch is
less than the interval ago"; `loop.launcher` is the goroutine that holds
`trustRebuildPending`.  `settledGen` and `resolvedGen` are `settledDirtyGen`
and `resolvedDirtyGen`.  `watermarkRebaseMu` is the pair of predicates
`RebaseMuWriteHeld` and `RebaseMuReadHeld`.  `ws[w].ver`, `acked` and
`query.floor` are history for the properties.

**Steps.**  One action per stretch of code between two points at which another
goroutine can see or change what it reads: the in-flight count, the ledger and
the generations are separate atomics in the code and separate steps here;
everything under `applyMu` that nobody reads without the lock is one step.
Apply's lock is a variable (`applyMu`) because read-back happens under it.

### The data

`Overlay` keeps a node or edge by its database id; dense ids, CSR rows and
sorted arrays are functions and sets.  A segment maps an id to its row or to a
tombstone and is silent about the others.  `Compaction`'s `job` is one
`runCompaction` goroutine with what it captured (base and segments by address,
which is what the code compares on adoption), `compacting` is the flag.
`applied` is history.  `ReadBack`'s `reader` is the one apply under `applyMu`
with its place in `readBack`; between two of its queries any other writer may
commit.  A change set has the code's key kinds: node ids, object ids, edge ids,
triples by id and by object id, and kind filters.

`SnapshotBase` keeps the arrays as arrays: here off-by-ones are the subject.
Widths are constants (`MaxPropID`, `MaxArena`, `WordBits`) so that the limits
are reached.  `SnapshotStore` separates what a file holds (`bytes`), what the
directory says and what of both has been synced; a power loss keeps only the
latter or any later part.  It assumes a file system on which syncing a directory
makes its entries durable.  `SnapshotFormat` reads a file word by word; a word is
a field or a unit of payload, the checksum is a function of all words.

### Serving

A string is a sequence of small numbers where `Anchors` needs prefixes and LIKE
wildcards, and nothing elsewhere.  A query is a record of what the recognisers
extract.  `Traverse` steps a frontier at a time, with the distance buffers kept
across queries as the code's pool does, and compares with `Answer`, the paths
over all walks of the graph.  `Builder` and `PathServing` keep `moments`, what
PostgreSQL held since the call began, and ask that an answer be PostgreSQL's at
one of them.  In `PathServing` edges are unique by (start, end, kind), as the
table's constraint makes them, a recreated row has a new id and version.

### Connections

`tx` holds who has a main-pool connection for its transaction, `onMain` and
`onWrite` who runs a statement; a statement's pool is fixed when it asks
(`pool`).  A caller's context may end under a read at any point and release what
it holds (`RequestCancelled`).  `lost` is history.

### Installation

`ComposeEnv` and `Installer` take one deployment: compose file names with their
spelling, the switch row, the running container with its driver, both graphs,
the watermark row as one token (lineage and counter), BloodTrail's replica and
file with the token they were read at.  Every step of a command may fail or be
its last.  docker, compose and BloodHound with its migrator are external, and do
what the installer's code relies on.

## 3. Runs

| Run | Instance | Shows |
|---|---|---|
| `ledger` | 7 counters, room for 2 runs (1,470 states) | `NeverAbsorbsAGap`, `ExactLosesNothing`, `LostUntilCovered` through loss and recovery; the slice keeps its runs sorted and apart (`RunsSortedDisjoint`) and implements the ledger (`ImplementsLedger`) |
| `replica` | a transaction and a batch sharing one row, 1 fault, a query or a reader of `WatermarkTrusted` (1.5 M) | `ReplicaCurrent`, `GenerationsOrdered`, `FallbackHasARebuild`, `TrustedMeansComplete`, `ReadsAcknowledgedWrites`, `TrustedAnswerComplete`, types |
| `restart` | a transaction and a batch that inserts, up to 2 saves, 2 faults, 1 exit, 1 foreign write beside one of them, gap buffer of 1 (1.3 M) | `ReplicaCurrent`, `StampVouches`, `CurrentStampMeansCurrentFile`, through saves, a file boot, its replay, its overflow and its refusals |
| `recovery` | 2 writes, one opaque, 1 fault, fair | `FallbackRecovers`, `WritesReturn`, `RebuildsStop` |
| `upkeep` | folds: 2 nodes, 2 edges, 3 writes, 2 goroutines, 1 rebuild; read-back: 2 or 3 nodes, 2 edges, 3 object ids, 3 writes, kind filters with a fan-out cap of 1 (0.6 M) | `MaintenanceInvisible`, `AppliedMeansCurrent`, `AnswersMatchScan`, `ReadBackConverges` |
| `snapshot` | 3 saves, 2 removals, 2 faults, 2 stops; every load of up to 3 edges over 3 nodes; property bags over an arena of 3 with any one entry replaced; a file with any word changed, removed or inserted (2.6 M) | `DirectoryIsSound` (the file is whole, nothing comes back, no stray temporaries), `BuiltHoldsStaged`, `AcceptedIsSafe`, `OnlyWholeAccepted`, `AllocationsFitTheFile` |
| `serving` | every pair of criteria on 4 graphs; 2 calls and 2 writes with orders, limits, retargeting; a diamond with 2 writes and batches of 1 and 2; one conjunct of every form and pairs with hints and seeds; 16 graphs of 5 nodes and 64 of 3 (2.6 M) | `ServedAnswerIsPostgres`, `ServedResultsAreWhole` (paths and Cypher rows), `RowsAreTheMatches`, `ServedPathsAreTheShortest`, `ChargedIsHeld` |
| `progress` | main pool of 2, 2 batches, 1 transaction, 2 reads, a shutdown; a fold at every segment; one call; 4 graphs; fair (0.1 M) | `WaitsRunOneWay`, `ClosingCostsNoFile`, `WritesAndShutdownEnd`, `StartedWorkEnds` (compaction, cursor feeder, traversal) |
| `installation` | 18 deployments on PostgreSQL, on Neo4j, of an old installer; 4 commands, 2 failures, 1 restart, 2 edits (2.3 M) | `ReplicaSurvivesHandovers`, `RollbackRestores`, `ProjectKept`, `NothingLeftBehind` |
| `torn_save` | 1 write, exit allowed anywhere | **violated**: finding 1 |
| `trust_rebuild` | 2 writes, 2 faults | **violated**: finding 2 |
| `readback_moved` | read-back, object ids may move | **violated**: finding 3 |

Bounds.  The races the code guards against are between one write and a
background reader, or between two writes of one row; a third write adds no kind
of overlap, since the ledger's own behaviour with many counters is the `ledger`
run's subject (two runs kept, a third overflows, seven counters so that both
can merge, be lost and be rebased over).  One or two faults suffice to reach
every failing branch and one failure during the recovery from another.  Saves
come in twos so that an old and a new file meet.  Three runs cut the product of
their bounds with a CONSTRAINT: `replica` never has a query and a trust reader
at once (`OneWatcher`), `restart` takes two saves and a fault, or one save
and two faults, around one transaction, one save around a transaction, a batch
and a foreign write without faults, or faults around the batch alone
(`FaultsOrWriters`), `installation` no more than
five commands, edits and failures together (`CommandsOrEdits`).

The other instances are chosen so that each limit of the code lies inside them:
a stack that collapses at two segments and folds at two entries, with a third
write left for the tail; an edge applied before its endpoint; a third node that
takes over an object id; an arena, a property id and a bitset word that fill up;
two batches of every fetch; an epoch that wraps on the third search and a
distance buffer that ends at the depth limit; a cursor buffer shorter than the
answer; as many batches as connections; a second failure during the rollback
of the first.  `serving` takes every form of conjunct alone and
fewer forms in pairs, because it is in pairs that one
conjunct's index hides another's rows.

Deadlock is checked in the runs of the ledger and of the engine (`replica`,
`restart`, `recovery`): there `Quiescent` is the only state in
which the engine may rest, so a state in which everyone waits for everyone is an
error.  The
other runs switch it off, because their bounded calls, writes and commands run
out; where waiting for ever is a hazard a liveness property covers it
(`WritesAndShutdownEnd`, `StartedWorkEnds`).

### Fairness

`FairSpec` assumes weak fairness of: starting; each driver call's own next step
(including taking `applyMu`: Go's mutex hands over to a starved waiter, and the
holder always lets go); the boot attempt; the rebuild loop; the launcher and its
timer.  Nothing is assumed of callers, of faults, of saves or of exits.  An
aborting delegate is a choice the caller may make, not one it has to.  Faults
are finite in number, as they must be: if every load failed for ever, no engine
would recover.

The `progress` run assumes weak fairness of each part as a whole: while a fold, a
feeder, a traversal or anyone at the pools has a step due, some step due is
taken.  `Compaction` asks it of each of its goroutines, which is more; `Builder`
of the feeder alone, never of the reader.  At the pools a step is due when a
connection or `applyMu` is free for a waiter, when a statement runs, and in a
shutdown once it began (`Connections.Due`).  A read
that hydrates holds one main-pool connection and waits for a second.  With as
many such reads as connections the pool wedges on itself (transaction.go:58-62,
WHITEPAPER.md section 8.4), and nothing in the code ends that wait: `hydrate.go`
passes the caller's context on, and that context may have no deadline.  So the
end of a context (`RequestCancelled`) is a step that may happen and need not,
like `Stop`, and writes that have no connection yet may then wait for good.
`WritesEnd` therefore promises, whatever the reads do, the end of
every write that has its connection, and of all writes unless the reads keep the
pool wedged for ever; `ShutdownEnds` holds in either case.

### Assumptions of single runs

* `upkeep`: an object id belongs to one node for good
  (finding 3 is what happens otherwise).  An edge of a failed batch that nobody
  can name is the exception the code documents (`skipped`).
* `installation`: nobody ingests into PostgreSQL between the emptiness check and the
  counts (`WritesAfterSwitch = FALSE`).  The comparison is of counts
  (`installer.go:649`): with `WritesAfterSwitch = TRUE` objects that arrive in
  PostgreSQL after the migrator's switch make up for objects left in Neo4j, and
  `NothingLeftBehind` fails.  An operator whose install failed rolls back before
  bringing the project up by hand, and restarts when told to.  `RollbackRestores`
  is about the row, the entry and the files: the `up -d` of a rollback recreates
  no container whose configuration is unchanged, so after an install that failed
  between the migration and the image change the running BloodHound keeps the
  driver it had until its next restart (`installer.go:1036`).
* `serving`, builder calls: PostgreSQL's own answers are not scoped by graph, except
  that a retargeted transaction answers from its graph; one terminal call per
  wrapper.
* `serving`, paths and Cypher: one writer at a time; a conjunct that is not
  recognised admits nothing.
* `progress`: a write that races the shutdown may wait on the main pool
  once the write pool is closed; nothing is claimed of it.

### Findings

1. **A save torn by a hard stop** (`persist.go:624`).  The comment says one of
   the two removals always comes last.  It does not if the process ends after
   the rename and before the recheck: a bump failed and removed the old file
   before the new one landed, and the next start finds a file with
   PostgreSQL's counter that misses the uncounted write.  With
   `TornSave = FALSE`, `Exit` leaves out exactly that instant, and theorem
   `OnlyTheTornWindow` shows that there is no other.
2. **A dropped trust request** (`apply.go:947`).  A launcher that has decided to
   launch coalesces with a loop that has already adopted; that loop's recheck
   requests again, and finds the interval fresh and the pending flag still set.
   Nothing then resolves the generation until another failure settles or a save
   asks.  Serving is not affected, saving is.

3. **An object id that moves** (`readback.go:617`).  Node 1 is re-keyed away from
   an object id, and that write is not applied yet; an upsert creates node 2 under
   it, with an edge; node 2 is re-keyed as well.  Read-back finds the object id
   absent, takes the view's node 1 for the upsert's endpoint and asks for node
   1's edge.  The view misses node 2's edge with nothing left to apply.  The white
   paper says the node that comes back is the one the upsert resolved to.

## 4. Proofs

For every value of the constants, by TLAPS.  Each inductive invariant was first
checked by TLC on the run it belongs to.

### The ledger (`LedgerProofs`)

The three properties of the ledger over sets, that it is well formed, that
`highest` bounds every value ever resolved and that `through` never retreats.
The inductive invariant is `LedgerInv`: the well-formedness of `LedgerTypeOK`,
together with `NeverAbsorbsAGap`, `ExactLosesNothing` and
`HighestCoversResolved`, none of which is inductive alone (that a rebase makes a
lost ledger exact again needs that `highest` bounds what was dropped; that
nothing is lost needs that what lies above `through` lies above a gap).
`OperatorLemmas` shows that the run `advanceLocked` consumes exists, by taking the
first value above `through` that is missing, from which its `CHOOSE` gets its
meaning.

`RunsStaySorted` and `SliceImplementsLedger` are about the code's slice.
`Meaning` maps a slice to the set of values in its runs; `StoredInv` says that
the runs are `Apart` (sorted, disjoint, never adjacent), above `through + 1`, and
no more than the cap; `RunsInv` adds that a lost ledger has no runs, without
which a slice that forgot its runs and a set that forgot its values could
disagree on what a rebase brings back.  Per operation the step is: the
search finds the one position at which the value belongs; merging with the left
run, the right run, both or neither is adding one value to the set; the consuming
loop stops exactly at the gap the set's operator chooses.

### The engine (`EngineProofs`)

Proved of the composed engine, with any writes, rows, faults, saves, exits and
restarts:

| Theorem | Property |
|---|---|
| `EngineTypeCorrect`, `GenerationsStayOrdered`, `FallbackNeverStranded` | `TypeOK`, `GenerationsOrdered`, `FallbackHasARebuild` |
| `ReplicaStaysCurrent`, `QueriesReadAcknowledged` | `ReplicaCurrent`, `ReadsAcknowledgedWrites` |
| `TrustIsJustified`, `TrustedAnswersHold` | `TrustedMeansComplete`, `TrustedAnswerComplete` |
| `StampIsJustified`, `CurrentFileIsCurrent`, `OnlyTheTornWindow` | `StampVouches`, `CurrentStampMeansCurrentFile`, the negation of finding 1 |

The invariant comes in three layers.

* `EngineInv`: the types, who holds `applyMu` (`LockInv`), what is under way at
  each program point (`HeldInv`), that nothing runs while the process is down
  (`DownInv`), and `GenerationInv`: `dirtyGen` is at least `settledGen` plus the
  number of scopes whose failure is still to be settled, and what the load under
  way has read is at most `settledGen`.
* `ProtocolInv`: which scope holds which counter (`ScopeInv`); versions and bumps
  never exceed PostgreSQL's (`VersionBounds`, `BumpBounds`); what each phase of a
  write has done (`PhaseInv`); what a stamp and a sample may say (`StampBounds`,
  `CaptureInv`); and, for trust, that the scopes still holding a bump are no
  more than `inflight` (`TrustInv`).
* `ReplicaInv`: what is missing from the view, the load, the build, the
  replay, the boot attempt, the file and the query belongs to a write that is
  still carried by someone or noted in a generation that is not yet resolved
  (`ViewInv`, `LoadInv`, `BuildInv`, `ReplayInv`, `BootInv`, `FileInv`,
  `QueryInv`).  Each of them is there because the value it speaks of is adopted
  later by a step that checks only generations and epochs.

The argument does not use the ledger's own properties: `inflight = 0` and equal
generations already rule out a write in between.  The ledger decides only how
often that moment is recognised.  The theorems about the replica assume `~TornSave`, that is, no
exit between a save's rename and its recheck; with it the theorems would
be false, which is finding 1.

### Connections (`ConnectionsProofs`)

`WaitsRunOneWayHolds` and `ClosingCostsNoFileHolds` for any writers, readers, pool
sizes and number of queries.  `ConnInv` joins the types, `HeldInv` (at which
program points a writer has which pool, a running statement, the lock) and
`ClosedInv` (the write pool is closed only once the save is over, and a statement
fails only on a closed pool).

### The view (`CompactionProofs`)

`StackInvariant` (the stack over the base holds the last applied row of every id),
`MaintenanceStaysInvisible`, `AppliedStaysCurrent` and `AnswersStayRight`, for any
nodes, edges, kinds, writes and goroutines.

* `StackShowsApplied` = `ViewSound`, `StackInv`, `PgInv`, `JobInv`, `RefInv`: the
  view is the one its base and segments make; a goroutine's captured base and
  segments are still a prefix of the stack, or its fold will be discarded; what
  it built shows what the prefix shows.
* `CurrentInv` = `ClosedInv`, `IdsInv`, `NodesCurrent`, `EdgesCurrent`: a row that differs from
  PostgreSQL's is named by a committed write that is still to be applied; an edge
  whose endpoint is unknown is kept back, not lost.
* `RowsInv` = `OneRowInv`, `PgKindsInv`, `HeldKindsInv`, `NamedKindsInv`: every kind a
  row names is in the kind table the view carries, so a kind ceiling and a denial
  mean what the scan would find.

### Read-back (`ReadBackProofs`)

`ReadBackAlwaysConverges` states `ReadBackConverges` for any graph, object ids,
kinds, filters, fan-out cap and number of commits, each of which may fall between
any two of the queries with which `readBack` answers a change set.  Two things: once
every change set is applied and nothing has fallen back, the view is PostgreSQL's
graph; and read-back falls back over an edge it cannot name, or of which there are
too many, only when another writer re-keyed or deleted a node after the write committed.  The first is proved for
`~ObjectIdsMove`, that is, as long as an object id stays with its node; finding 3
is the behaviour without it.  The second needs no such hypothesis.

`ReadBackInv` is inductive.

* A row the view has wrong is `Excused`: a change set that is still to be applied
  names it, by its id, by an object id the row has or had, by the triple that
  created it, or by the filter that deleted it; and a node that was re-keyed is
  named by its id.  An edge may also be excused by the end of it that is gone, or
  because `readBack` skipped it in the case its own comment documents (`skipped`).
* A change set that is taken from the queue excuses nothing any more.  In its place
  there is `ReaderInv(r, k)`, indexed by the place `k` of the next query:
  whatever is not yet read is either excused by somebody else or `Asked` for by
  the queries from `k` on (`LeftInv`), and whatever was read was PostgreSQL's row and is so
  still, or is excused (`ReadInv`).  `RaceInv` says, for the second part, that without a
  race both object ids of a triple find their nodes and nothing is deferred.
* A commit keeps all of it.  `Legal` is what the writers have in common (a row
  that changes is recorded by a key that names it, in the old graph or in the new
  one); `CommitKeeps` is proved from `Legal` alone, and each write is shown to be
  `Legal`.
* A query takes place `k` to the next one that has something to ask.  `Settled`
  lemmas say that what only place `k` would ask for is read or absent now;
  `SkipKeeps` that a place without a query settles nothing because it asks for
  nothing.  The re-keyed triples are the difficult ones: an object id that finds no
  node any more is answered by the view's node, which is the right one because
  an object id has one carrier (`OneCarrier`), and this is where the hypothesis enters.
* Publishing puts the rows read over the view: every row is then one that was
  read, or one nobody asked for, which was right already.

### The file (`SnapshotProofs`)

* `DirectoryStaysSound`, for any overlapping saves, removals, failures and power
  losses.  `StoreInv` = `SyncedIsWhole`, `RecoverableIsSound`, `PendingIsCovered`,
  `StoppedWritesNothing`, `TempsAreLive`: since a power loss may bring back any
  value the name had since the directory was synced, what holds of the entry has
  to hold of all of those.
* `AnyFileFits`: on a file of any words whatever, with or without a checksum,
  `ReadSnapshotFile` allocates for no more than the file holds.  `BudgetInv`
  bounds what is left and what was allocated; it needs nothing of the content.
* `ReaderTakesTheWrittenFile`: `OnlyWholeAccepted`, for graphs of any size a
  reader takes.  That an accepted file is the one written follows from the
  checksum and the magic.  That the written file is never rejected needs its whole
  layout: `Starts` gives the place of each of the eighteen sections, `BodyLaid`
  shows that `writeSnapshotBody` puts them there, and `InPlace` that the reader is
  always at the start of a section, or of an entry of a table, with the counts
  of the graph, and the rest of the file before it; so no claim is refused, no
  field is missing, and the checksum is met where it stands.
* `EveryAcceptedIsSafe`: `validateSnapshotStructure` is sound.  Of arrays of any
  length and content (`SnapshotBase.Arrays`: the wire's types, an arena no longer
  than a 32-bit reference addresses, which is what `appendPropBytes` keeps to) those
  it accepts are `Safe`.  `OffsetsWithin` and `RunWithin` turn "first, last and
  monotone" into "every run lies inside", by the least offset that would not;
  `NoWrap` is why the sum the check takes in 64 bits is the one `decode` takes in 32.
  The hypothesis `[]BuiltTyped`, that `Build` packs arrays of those types, is a
  conjunct of `HoldsStaged`, which the run checks: packing sorts and
  flattens, which needs induction.

### The installer (`InstallerProofs`)

* `HandoverInvariant` (`ShapeInv`, `ManifestInv`, `AsideInv`, `MigrationInv`,
  `ImageInv`): what the manifest, the row, the files, the running image and the
  migration have to do with one another at every step of a command that may be
  its last.
* `NothingIsLeftBehind`, when nothing but the migrator writes to PostgreSQL
  while install migrates (`~WritesAfterSwitch`; section 3 says what happens
  otherwise).
* `ReplicaSurvivesEveryHandover`: what BloodTrail serves after a restart, a
  rollback or a second install descends from the watermark row it is compared
  with.  `LineageInv` = `DeploymentInv`, `UnvouchedInv`, `ServedInv`: no file is
  current before BloodTrail first starts nor once rollback ended the lineage, and
  while one is, it holds what PostgreSQL holds unless it was handed back.  The hypothesis is `[]HandsOff`.  It leaves out two things that an
  operator does by hand: the restart that rollback asks for and leaves to them
  (`installer.go:1111`), and bringing up a container without BloodTrail by taking
  the override's entry out of `.env` rather than rolling back.  TLC checks the
  property without it, within the run's bounds.
* `EveryRollbackRestores` and `ProjectIsKept`, for `COMPOSE_FILE` lists of any length
  and spelling, without that hypothesis.  `EntryInv` says that the entry is one the
  commands understand, given the manifest there is (`EntryUnderstood`): without a
  manifest it loads what the operator wants; with one it lists that and perhaps the
  override, and `RestoreEntry` would give it back; a legacy entry is one of the shapes
  the old installers left.  `CommandInv` adds what a command carries from one step to
  the next: the base files it will write, that the entry is restored from `r_up` on, and
  that `before` is the manifest's row.  `RestoreEntryRestores` is the inverse itself;
  `WithoutOverride` is a loop, and `KeptLoop`, `WithoutOverrideAppend` and
  `WithoutOverridePrepend` say what it leaves, by its least wrong prefix.

### Assumptions

`MaxLedgerRanges` and `MaxCounter` in `Nat`; `EngineConstants` (finitely many
writes, the sets of writes are sets of writes, `Null` and `Loader` are distinct
from what they stand next to); `ConnectionsAssumption` (pools and read-backs
are not empty); `CompactionAssumption` (finite sets, kind ids within the range of
`int16`); `StoreConstants`, of which the proof uses that `Null` is no save;
`FormatAssumption` (a graph's counts fit a word, the cap on one allocation and the
tables' id types); `InstallerAssumption` (the deployments an install may begin
with: among others that their entry is understood, that the base file and the files an
operator may add are on disk, and that a manifest is one an installer wrote);
`BaseAssumption` (the arena's limit and the damaged values are numbers);
`ReadBackConstants` (ids are numbers, no object id is the empty one, and the graph at
start has its edges' ends and one node for each object id, which the upserts by object
id presuppose).  TLC evaluates each of them on its run.  The bounds on faults, exits,
saves, removals, commands and edits are arbitrary numbers in the proofs.

### What the proofs found in the model

The cases of `Overlay.FoldNodeFate` overlapped, and TLC took the first that
applied where the logic allows any of them; the guards are now exclusive, as the
code's order makes them.  The same held of `Builder.PgRow`.  An unparenthesised
`UNION A \cup B` was read in two ways by the two tools; it is parenthesised in
`Compaction` and `ReadBack`.  `InstallerAssumption` was weaker than what
`Init` relies on.  `ReadBack.Init` began with no object id carried by any node, so that
one of the loaded graph could pass to another node without `ObjectIdsMove`; it now
begins with the pairs of that graph.  Its `@@` is `Overlay.Over`, of which the prover knows the
definition.  `ComposeEnv.WithoutOverride` was a `SelectSeq`, of which nothing
can be proved without induction; it is now the loop the code has.  `SnapshotBase` and `ReadBack` named their
variables and their specifications as other modules do, and could only be instantiated; a
run now extends them, so that it checks the definition the theorem states.

### Only model-checked

* Liveness: `FallbackRecovers`, `WritesReturn`, `RebuildsStop`,
  `WritesAndShutdownEnd`, `StartedWorkEnds` (fairness and `ENABLED` are beyond the
  prover).
* `Anchors` and `Traverse`, which are recursive, and with them the five properties of
  `serving`: `ServedAnswerIsPostgres`, `ServedResultsAreWhole`, `RowsAreTheMatches`,
  `ServedPathsAreTheShortest`, `ChargedIsHeld`.
* `BuiltHoldsStaged`: folds, sorts and flattens sequences of any length, which needs
  induction over data.

## 5. What is left out

* Engine: a COMMIT that was sent before a hard exit and lands after the next
  start; a removal of the file that fails; more than one save at a time (the code
  clears `compacting` before the save that follows it; `SnapshotStore` has
  overlapping saves, `Engine` lets the second begin when the first is over); a
  panic of the boot attempt after its view is published; retargeting of the
  default graph, and the engine being disabled; the bench-only `RebuildNow`; a
  failed bump in a process that has not resolved its file's path yet, where
  `invalidateSnapshotFile` only warns (persist.go:776-781).  `BumpFails` counts
  the bump out and raises the dirty generation in one step, and a boot's replay
  keeps one delta for all the ChangeSets it replays.
* Read-back: the batch sizes of its SQL, which change no answer; an update that
  takes a node's object id away; a `DeleteNodesByKinds` that fails.
* Indexes: the edge-kind index; the bytes of encoded values.
* Interpreter: everything but the pushdown and the anchors.  Evaluation,
  expansion, projection, ordering and aggregation are sequential functions of
  14,000 lines over strings, times and floats: a model small enough for TLC would
  be a transliteration without its data.
* Serving: settings and parameters, conversion of scalar projections, the
  translator that decides whether PostgreSQL would accept a query (a library); a
  second graph that appears after the load (`ServeGate` reads a flag the view
  froze when it was loaded; here the database's never changes).  `EndTx` makes
  Apply's fallback and the rebuild after it one step.
* Snapshot file: counts beyond 32 bits, which `validateOffsets32` would narrow;
  within the arena and the counts modelled the narrowing changes nothing.
* Installer: contents of the smoke test, the id-sequence check, `status` and
  `verify` output, backup copies, quoting in `.env` files.  The
  count that precedes the switch compares one number where the code compares nodes
  and edges separately, which is the weaker check; the log position and the
  container's identity are read in one step.
* Connections: a write pool that cannot be created.
* Settings, the command line, benchmarks and generators: parsing and I/O
  around the parts above.

## 6. Plan

1. `Replica`: an abstract specification (a view that lags by the writes in
   flight, or nothing served), and `Engine` shown to implement it.
2. From the interpreter, three-valued logic, value ordering and the row budget.
