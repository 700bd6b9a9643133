--------------------------- MODULE InstallerProofs ---------------------------
(***************************************************************************)
(* For any deployments, any number of commands, failures, restarts and     *)
(* edits: BloodTrail is never switched on over a PostgreSQL graph that     *)
(* lacks what Neo4j holds, when nothing but the migrator writes to         *)
(* PostgreSQL while install migrates; and a BloodTrail that comes back     *)
(* after a handover never serves a replica the writes in between missed,   *)
(* when the operator leaves the handover to install and rollback; and a    *)
(* rollback that finishes leaves the row and the compose files they want.  *)
(***************************************************************************)
EXTENDS Installer, FiniteSetTheorems, SequenceTheorems, WellFoundedInduction, TLAPS

\* A container that starts with row r runs on something else than Neo4j.
OffNeo4j(r) == ResolveDriver("stock", r) # "neo4j"

\* The row the deployment had before install, and has again after rollback.
Origin == IF manifest = NoManifest THEN row ELSE manifest.row

\* Where install stands: before or after it may have left Neo4j, and where a
\* rollback has already restored the row.
Emptied == {"look", "start", "wait", "switch", "epoch", "countNeo", "countPg", "log"}
Switched == {"epoch", "countNeo", "countPg", "log", "override", "env", "row", "lineage", "up", "verify"}
Compared == {"log", "override", "env", "row", "lineage", "up", "verify"}
Restored == {"r_override", "r_env", "r_up", "r_lineage", "r_done"}

\* The records the commands keep.
ShapeInv ==
    /\ "pc" \in DOMAIN cmd /\ "driver" \in DOMAIN run /\ "row" \in DOMAIN manifest
    /\ cmd.pc = "countNeo" => "neo" \in DOMAIN cmd
    /\ cmd.pc \in Emptied \cup {"clear", "manifest"} => {"inv", "epoch", "log", "neo"} \subseteq DOMAIN cmd
    /\ row # "absent" /\ (manifest # NoManifest => manifest.row # "absent")
    /\ neo \subseteq Objects /\ pg \subseteq Objects /\ mig.left \subseteq neo

\* Which manifest a command goes by, and what it says of the row.
ManifestInv ==
    /\ cmd.pc = "manifest" => manifest = NoManifest /\ cmd.inv = TakeInventory
    /\ cmd.pc \in Switched \cup Emptied \cup Restored \cup {"clear", "r_row"} => manifest # NoManifest
    /\ cmd.pc \in Restored => row = manifest.row
    /\ last = "installed" => cmd.pc = "idle"

\* A deployment that was not on Neo4j before install never is: nothing grows there.
AsideInv ==
    OffNeo4j(Origin) => /\ OffNeo4j(row) /\ run.driver # "neo4j" /\ neo \subseteq pg
                        /\ cmd.pc \notin Emptied \cup {"clear"}

\* A migration starts from an empty PostgreSQL graph and, where BloodHound does not
\* ingest meanwhile, only copies; after the switch Neo4j no longer grows, so the
\* counts compare what they should.
MigrationInv ==
    /\ cmd.pc \in Emptied /\ ~WritesAfterSwitch => pg \subseteq neo
    /\ cmd.pc \in Switched \/ last = "installed" => OffNeo4j(row) /\ run.driver # "neo4j"
    /\ cmd.pc = "countPg" => cmd.neo = Cardinality(neo)
    /\ (cmd.pc \in Compared \/ last = "installed") /\ ~WritesAfterSwitch => neo \subseteq pg

\* Which image runs: without a manifest the stock one, but for a rollback that
\* left the restart to the operator, and the override's file is gone.
ImageInv ==
    /\ "image" \in DOMAIN run /\ (run.driver = "bloodtrail" => run.image # "stock")
    /\ cmd.pc \in Emptied \cup {"clear", "manifest"} => run.image = "stock"
    /\ manifest = NoManifest => "bt" \notin disk /\ (told \/ run.image = "stock")
    /\ cmd.pc \in Restored \cup {"r_row"} => "elsewhere" \in DOMAIN cmd
    /\ cmd.pc \in {"r_env", "r_up", "r_lineage", "r_done"} => "bt" \notin disk
    /\ cmd.pc \in {"r_lineage", "r_done"} => cmd.elsewhere \/ run.image = "stock"

HandoverInv == ShapeInv /\ ManifestInv /\ AsideInv /\ MigrationInv

\* A container that starts with a row that is off Neo4j stays off it.
LEMMA BootsOffNeo4j ==
    ASSUME NEW image, OffNeo4j(row), Boots(image, row)
    PROVE  run'.driver # "neo4j"
BY DEF OffNeo4j, ResolveDriver, Boots

\* Every deployment starts that way.
LEMMA HandoverInit == Init => HandoverInv
<1> SUFFICES ASSUME Init  PROVE HandoverInv
  OBVIOUS
<1>1. PICK d \in Deployments :
        /\ row = d.row /\ conf = d.conf /\ neo = d.neo /\ pg = d.pg /\ manifest = d.manifest
        /\ run = [image |-> d.image, driver |-> d.driver, epoch |-> 0]
        /\ mig = NotMigrating /\ cmd = Idle /\ last = "none"
  BY DEF Init
<1>2. ShapeInv /\ ManifestInv /\ MigrationInv
  <2>1. /\ neo \subseteq Objects /\ pg \subseteq Objects /\ "row" \in DOMAIN manifest
        /\ row # "absent" /\ (manifest # NoManifest => manifest.row # "absent")
    BY <1>1, InstallerAssumption DEF Rows
  <2> QED BY <1>1, <2>1 DEF ShapeInv, ManifestInv, MigrationInv, Idle, NotMigrating,
     Switched, Emptied, Compared, Restored
<1>3. AsideInv
  BY <1>1, InstallerAssumption DEF AsideInv, OffNeo4j, ResolveDriver, Origin, Idle, Emptied
<1> QED BY <1>2, <1>3 DEF HandoverInv

\* A step of a command that keeps the graphs, the row and the container.
LEMMA CommandStep ==
    ASSUME HandoverInv, UNCHANGED <<row, conf, neo, pg, run, mig, manifest>>,
           "pc" \in DOMAIN cmd', cmd'.pc # "manifest", cmd'.pc # "countPg",
           cmd'.pc = "countNeo" => "neo" \in DOMAIN cmd',
           cmd'.pc \in Emptied \cup {"clear"} => {"inv", "epoch", "log", "neo"} \subseteq DOMAIN cmd',
           cmd'.pc \in Switched \cup Emptied \cup Restored \cup {"clear", "r_row"} => manifest # NoManifest,
           cmd'.pc \in Restored => row = manifest.row,
           last' = "installed" => cmd'.pc = "idle",
           cmd'.pc \in Emptied \cup {"clear"} => cmd.pc \in Emptied \cup {"clear"},
           cmd'.pc \in Emptied => cmd.pc \in Emptied,
           cmd'.pc \in Switched \/ last' = "installed" => cmd.pc \in Switched \/ last = "installed",
           cmd'.pc \in Compared \/ last' = "installed" => cmd.pc \in Compared \/ last = "installed"
    PROVE  HandoverInv'
<1>1. ShapeInv'
  BY DEF HandoverInv, ShapeInv
<1>2. ManifestInv'
  BY DEF HandoverInv, ManifestInv
<1>3. AsideInv'
  BY DEF HandoverInv, AsideInv, OffNeo4j, ResolveDriver, Origin
<1>4. MigrationInv'
  BY DEF HandoverInv, MigrationInv, OffNeo4j, ResolveDriver
<1> QED BY <1>1, <1>2, <1>3, <1>4 DEF HandoverInv
\* A command moves on and keeps its record.
LEMMA GotoMoves ==
    ASSUME HandoverInv, NEW to, Goto(to)
    PROVE  cmd'.pc = to /\ DOMAIN cmd' = DOMAIN cmd
BY DEF HandoverInv, ShapeInv, Goto

\* Install keeps the invariant: the row it saves is the one it found, the graph
\* it migrates onto is empty, and it goes on only when nothing is missing.
LEMMA InstallKeeps ==
    ASSUME HandoverInv, InstallStep
    PROVE  HandoverInv'
<1> USE DEF project, data, machine, operator, At, Switched, Emptied, Compared, Restored
<1>0. ShapeInv /\ ManifestInv /\ AsideInv /\ MigrationInv
  BY DEF HandoverInv
<1>1. CASE StartInstall
  <2>1. /\ cmd'.pc = "manifest" /\ cmd'.inv = TakeInventory /\ last' = "installing"
        /\ {"pc", "inv", "epoch", "log", "neo"} \subseteq DOMAIN cmd'
        /\ manifest = NoManifest /\ UNCHANGED <<row, conf, neo, pg, run, mig, manifest>>
    BY <1>1 DEF StartInstall
  <2>2. ShapeInv' /\ MigrationInv'
    BY <1>0, <2>1 DEF ShapeInv, MigrationInv
  <2>3. AsideInv'
    BY <1>0, <2>1 DEF AsideInv, OffNeo4j, ResolveDriver, Origin
  <2>4. ManifestInv'
    BY <1>0, <2>1 DEF ManifestInv, TakeInventory, ResolveDriver
  <2> QED BY <2>2, <2>3, <2>4 DEF HandoverInv
<1>2. CASE SaveManifest
  <2>0. cmd.pc = "manifest" /\ cmd.inv = TakeInventory /\ manifest = NoManifest
    BY <1>0, <1>2 DEF SaveManifest, ManifestInv
  <2>1. /\ UNCHANGED <<row, conf, neo, pg, run, mig, last>>
        /\ DOMAIN cmd' = DOMAIN cmd
        /\ cmd'.pc = IF OffNeo4j(row) THEN "override" ELSE "clear"
        /\ manifest'.row = row /\ "row" \in DOMAIN manifest'
    BY <1>2, <2>0, GotoMoves DEF SaveManifest, TakeInventory, OffNeo4j
  <2>2. manifest' # NoManifest
    BY <1>0, <2>1 DEF ShapeInv, NoManifest
  <2>3. OffNeo4j(row) => run.driver # "neo4j" /\ neo \subseteq pg
    BY <1>0, <2>0 DEF AsideInv, Origin
  <2>4. OffNeo4j(row)' <=> OffNeo4j(row)
    BY <2>1 DEF OffNeo4j, ResolveDriver
  <2>5. last # "installed"
    BY <1>0, <2>0 DEF ManifestInv
  <2>6. ShapeInv' /\ ManifestInv'
    BY <1>0, <2>0, <2>1, <2>2, <2>5 DEF ShapeInv, ManifestInv
  <2>7. AsideInv'
    BY <2>1, <2>2, <2>3, <2>4 DEF AsideInv, Origin
  <2>8. MigrationInv'
    BY <2>1, <2>3, <2>4, <2>5 DEF MigrationInv
  <2> QED BY <2>6, <2>7, <2>8 DEF HandoverInv
<1>3. CASE CheckPostgresGraphEmpty
  <2>1. /\ UNCHANGED <<row, conf, neo, run, mig, manifest, last>> /\ pg' = {}
        /\ DOMAIN cmd' = DOMAIN cmd /\ cmd.pc = "clear" /\ cmd'.pc = "look"
    BY <1>3, GotoMoves DEF CheckPostgresGraphEmpty
  <2>2. ~OffNeo4j(Origin) /\ ~OffNeo4j(Origin)'
    BY <1>0, <2>1 DEF AsideInv, OffNeo4j, ResolveDriver, Origin
  <2>3. ShapeInv' /\ ManifestInv'
    BY <1>0, <2>1 DEF ShapeInv, ManifestInv
  <2>4. AsideInv' /\ MigrationInv'
    BY <1>0, <2>1, <2>2 DEF AsideInv, MigrationInv, ManifestInv
  <2> QED BY <2>3, <2>4 DEF HandoverInv
<1>4. CASE LookBefore
  <2>1. /\ UNCHANGED <<row, conf, neo, pg, run, mig, manifest, last>>
        /\ DOMAIN cmd' = DOMAIN cmd /\ cmd.pc = "look" /\ cmd'.pc = "start"
    BY <1>0, <1>4 DEF LookBefore, ShapeInv
  <2> QED BY <1>0, <2>1, CommandStep DEF ShapeInv, ManifestInv
<1>5. CASE StartNeoToPG
  <2>1. /\ UNCHANGED <<row, conf, neo, pg, run, manifest, last>> /\ mig'.left = neo
        /\ DOMAIN cmd' = DOMAIN cmd /\ cmd.pc = "start" /\ cmd'.pc = "wait"
    BY <1>5, GotoMoves DEF StartNeoToPG
  <2>2. ShapeInv' /\ ManifestInv'
    BY <1>0, <2>1 DEF ShapeInv, ManifestInv
  <2>3. AsideInv' /\ MigrationInv'
    BY <1>0, <2>1 DEF AsideInv, MigrationInv, ManifestInv, OffNeo4j, ResolveDriver, Origin
  <2> QED BY <2>2, <2>3 DEF HandoverInv
<1>6. CASE SwitchToPG
  <2>1. /\ UNCHANGED <<conf, neo, pg, mig, manifest, last>> /\ row' = "pg"
        /\ run'.driver = "pg" /\ "driver" \in DOMAIN run'
        /\ DOMAIN cmd' = DOMAIN cmd /\ cmd.pc = "switch" /\ cmd'.pc = "epoch"
    BY <1>0, <1>6, GotoMoves DEF SwitchToPG, ShapeInv
  <2>2. manifest # NoManifest /\ OffNeo4j(row)'
    BY <1>0, <2>1 DEF ManifestInv, OffNeo4j, ResolveDriver
  <2>3. ~OffNeo4j(Origin)'
    BY <1>0, <2>1, <2>2 DEF AsideInv, OffNeo4j, ResolveDriver, Origin
  <2>4. ShapeInv' /\ ManifestInv'
    BY <1>0, <2>1 DEF ShapeInv, ManifestInv
  <2>5. AsideInv' /\ MigrationInv'
    BY <1>0, <2>1, <2>2, <2>3 DEF AsideInv, MigrationInv
  <2> QED BY <2>4, <2>5 DEF HandoverInv
<1>7. CASE CountNeo4j
  <2>1. /\ UNCHANGED <<row, conf, neo, pg, run, mig, manifest, last>>
        /\ DOMAIN cmd' = DOMAIN cmd /\ cmd.pc = "countNeo" /\ cmd'.pc = "countPg"
        /\ cmd'.neo = Cardinality(neo)
    BY <1>0, <1>7 DEF CountNeo4j, ShapeInv
  <2>2. ShapeInv' /\ ManifestInv'
    BY <1>0, <2>1 DEF ShapeInv, ManifestInv
  <2>3. AsideInv' /\ MigrationInv'
    BY <1>0, <2>1 DEF AsideInv, MigrationInv, OffNeo4j, ResolveDriver, Origin
  <2> QED BY <2>2, <2>3 DEF HandoverInv
<1>8. CASE CountPostgres
  <2>1. /\ UNCHANGED <<row, conf, neo, pg, run, mig, manifest, last>>
        /\ DOMAIN cmd' = DOMAIN cmd /\ cmd.pc = "countPg" /\ cmd'.pc = "log"
        /\ Cardinality(pg) >= Cardinality(neo) /\ (~WritesAfterSwitch => pg \subseteq neo)
    BY <1>0, <1>8, GotoMoves DEF CountPostgres, CountGraph, MigrationInv
  <2>2. IsFiniteSet(neo)
    BY <1>0, InstallerAssumption, FS_Subset DEF ShapeInv
  <2>3. ASSUME ~WritesAfterSwitch  PROVE pg = neo
    <3>1. Cardinality(pg) <= Cardinality(neo) /\ (Cardinality(pg) = Cardinality(neo) => pg = neo)
      BY <2>1, <2>2, <2>3, FS_Subset
    <3>2. Cardinality(pg) \in Nat /\ Cardinality(neo) \in Nat
      BY <2>1, <2>2, <2>3, FS_Subset, FS_CardinalityType
    <3> QED BY <2>1, <3>1, <3>2
  <2>4. ShapeInv' /\ ManifestInv'
    BY <1>0, <2>1 DEF ShapeInv, ManifestInv
  <2>5. AsideInv' /\ MigrationInv'
    BY <1>0, <2>1, <2>3 DEF AsideInv, MigrationInv, OffNeo4j, ResolveDriver, Origin
  <2> QED BY <2>4, <2>5 DEF HandoverInv
<1>9. CASE SetRow
  <2>1. /\ UNCHANGED <<conf, neo, pg, run, mig, manifest, last>> /\ row' = "bloodtrail"
        /\ DOMAIN cmd' = DOMAIN cmd /\ cmd.pc = "row" /\ cmd'.pc = "lineage"
    BY <1>9, GotoMoves DEF SetRow
  <2>2. manifest # NoManifest /\ OffNeo4j(row)'
    BY <1>0, <2>1 DEF ManifestInv, OffNeo4j, ResolveDriver
  <2>3. ShapeInv' /\ ManifestInv'
    BY <1>0, <2>1 DEF ShapeInv, ManifestInv
  <2>4. AsideInv'
    BY <1>0, <2>1, <2>2 DEF AsideInv, OffNeo4j, ResolveDriver, Origin
  <2>5. MigrationInv'
    BY <1>0, <2>1, <2>2 DEF MigrationInv
  <2> QED BY <2>3, <2>4, <2>5 DEF HandoverInv
<1>10. ASSUME NEW from, NEW to, At(from), Goto(to), last' = last,
              UNCHANGED <<row, conf, neo, pg, run, mig, manifest>>,
              <<from, to>> \in {<<"wait", "switch">>, <<"epoch", "countNeo">>, <<"log", "override">>,
                  <<"override", "env">>, <<"env", "row">>, <<"lineage", "up">>}
       PROVE  HandoverInv'
  <2>1. DOMAIN cmd' = DOMAIN cmd /\ cmd.pc = from /\ cmd'.pc = to
    BY <1>10, GotoMoves
  <2> QED BY <1>0, <1>10, <2>1, CommandStep DEF ShapeInv, ManifestInv
<1>11. CASE InstallUp
  <2>1. /\ UNCHANGED <<row, conf, neo, pg, manifest, last>> /\ cmd.pc = "up" /\ cmd'.pc = "verify"
        /\ DOMAIN cmd' = DOMAIN cmd
    BY <1>11, GotoMoves DEF InstallUp
  <2>2. OffNeo4j(row) /\ run.driver # "neo4j" /\ OffNeo4j(row)'
    BY <1>0, <2>1 DEF MigrationInv, OffNeo4j, ResolveDriver
  <2>3. run'.driver # "neo4j" /\ "driver" \in DOMAIN run' /\ mig'.left \subseteq neo
    BY <1>0, <1>11, <2>2, BootsOffNeo4j DEF InstallUp, ComposeUp, Boots, NotMigrating, ShapeInv
  <2>4. ShapeInv' /\ ManifestInv'
    BY <1>0, <2>1, <2>3 DEF ShapeInv, ManifestInv
  <2>5. AsideInv' /\ MigrationInv'
    BY <1>0, <2>1, <2>2, <2>3 DEF AsideInv, MigrationInv, OffNeo4j, ResolveDriver, Origin
  <2> QED BY <2>4, <2>5 DEF HandoverInv
<1>12. CASE VerifyInstall
  <2>1. /\ UNCHANGED <<row, conf, neo, pg, run, mig, manifest>> /\ cmd.pc = "verify"
        /\ cmd' = Idle /\ last' = "installed"
    BY <1>12 DEF VerifyInstall
  <2> QED BY <1>0, <2>1, CommandStep DEF Idle
<1> QED
  BY <1>1, <1>2, <1>3, <1>4, <1>5, <1>6, <1>7, <1>8, <1>9, <1>10, <1>11, <1>12
  DEF InstallStep, WaitUntilIdle, CheckEpoch, CheckMigratorLog, WriteOverride, WriteEnv, InstallEndsLineage
\* Whatever starts the container or leaves it alone, it does not come back to
\* Neo4j, and it goes on with the migration it had or with none.
LEMMA ContainerMoves ==
    ASSUME HandoverInv,
           UNCHANGED <<run, mig>> \/ \E image : ComposeUp(image) \/ Boots(image, row)
    PROVE  /\ "driver" \in DOMAIN run' /\ mig'.left \subseteq neo
           /\ OffNeo4j(row) /\ run.driver # "neo4j" => run'.driver # "neo4j"
BY BootsOffNeo4j DEF HandoverInv, ShapeInv, ComposeUp, Boots, NotMigrating

\* A step outside an installation that touches neither graph nor the row: it
\* starts or ends a command, moves a rollback on, or restarts the container.
LEMMA OutsideStep ==
    ASSUME HandoverInv, UNCHANGED <<row, conf, neo, pg>>,
           UNCHANGED <<run, mig>> \/ \E image : ComposeUp(image) \/ Boots(image, row),
           "pc" \in DOMAIN cmd', cmd'.pc \in Restored \cup {"idle", "r_row"},
           last' = "installed" => last = "installed" /\ cmd'.pc = "idle",
           "row" \in DOMAIN manifest', manifest' # NoManifest => manifest'.row # "absent",
           cmd'.pc # "idle" => manifest' # NoManifest,
           cmd'.pc \in Restored => row = manifest'.row,
           Origin' = Origin
    PROVE  HandoverInv'
<1> USE DEF Switched, Emptied, Compared, Restored
<1>0. ShapeInv /\ ManifestInv /\ AsideInv /\ MigrationInv
  BY DEF HandoverInv
<1>1. OffNeo4j(row)' = OffNeo4j(row) /\ OffNeo4j(Origin)' = OffNeo4j(Origin)
  BY DEF OffNeo4j, ResolveDriver
<1>2. /\ "driver" \in DOMAIN run' /\ mig'.left \subseteq neo
      /\ OffNeo4j(row) /\ run.driver # "neo4j" => run'.driver # "neo4j"
  BY ContainerMoves
<1>3. ShapeInv' /\ ManifestInv'
  BY <1>0, <1>2 DEF ShapeInv, ManifestInv
<1>4. AsideInv' /\ MigrationInv'
  BY <1>0, <1>1, <1>2 DEF AsideInv, MigrationInv
<1> QED BY <1>3, <1>4 DEF HandoverInv

\* Rollback keeps the invariant: it goes back to the row install found.
LEMMA RollbackKeeps ==
    ASSUME HandoverInv, RollbackStep \/ Fail
    PROVE  HandoverInv'
<1> USE DEF project, data, machine, operator, At, Restored
<1>0. ShapeInv /\ ManifestInv /\ AsideInv /\ MigrationInv
  BY DEF HandoverInv
<1>1. CASE StartRollback
  <2>1. /\ UNCHANGED <<row, conf, neo, pg, run, mig, manifest>> /\ "pc" \in DOMAIN cmd'
        /\ cmd'.pc = "r_row" /\ last' = "rollingBack" /\ manifest # NoManifest
    BY <1>1 DEF StartRollback
  <2> QED BY <1>0, <2>1, OutsideStep DEF ShapeInv, Origin
<1>2. CASE RestoreRow
  <2>1. /\ UNCHANGED <<conf, neo, pg, run, mig, manifest, last>> /\ row' = manifest.row
        /\ cmd.pc = "r_row" /\ cmd'.pc = "r_override" /\ DOMAIN cmd' = DOMAIN cmd
    BY <1>2, GotoMoves DEF RestoreRow
  <2>2. manifest # NoManifest /\ last # "installed"
    BY <1>0, <2>1 DEF ManifestInv
  <2>3. OffNeo4j(row)' = OffNeo4j(Origin) /\ OffNeo4j(Origin)' = OffNeo4j(Origin)
    BY <2>1, <2>2 DEF OffNeo4j, ResolveDriver, Origin
  <2>4. ShapeInv' /\ ManifestInv'
    BY <1>0, <2>1, <2>2 DEF ShapeInv, ManifestInv, Emptied, Switched
  <2>5. AsideInv' /\ MigrationInv'
    BY <1>0, <2>1, <2>2, <2>3 DEF AsideInv, MigrationInv, Emptied, Switched, Compared
  <2> QED BY <2>4, <2>5 DEF HandoverInv
<1>3. ASSUME NEW from \in Restored, NEW to \in Restored, At(from), Goto(to), last' = last,
             UNCHANGED <<row, conf, neo, pg, manifest>>,
             UNCHANGED <<run, mig>> \/ \E image : ComposeUp(image)
      PROVE  HandoverInv'
  <2>1. cmd.pc = from /\ cmd'.pc = to /\ DOMAIN cmd' = DOMAIN cmd
    BY <1>3, GotoMoves
  <2>2. manifest # NoManifest /\ row = manifest.row /\ last # "installed"
    BY <1>0, <1>3, <2>1 DEF ManifestInv
  <2> QED BY <1>0, <1>3, <2>1, <2>2, OutsideStep DEF ShapeInv, Origin
<1>4. CASE RemoveOverride \/ RestoreEnv \/ RollbackUp \/ RollbackEndsLineage
  BY <1>3, <1>4 DEF RemoveOverride, RestoreEnv, RollbackUp, RollbackEndsLineage
<1>5. CASE RollbackUpFails
  <2>1. /\ UNCHANGED <<row, conf, neo, pg, manifest>> /\ cmd' = Idle /\ last' = "failed"
        /\ UNCHANGED <<run, mig>> \/ \E image : ComposeUp(image)
    BY <1>5 DEF RollbackUpFails
  <2> QED BY <1>0, <2>1, OutsideStep DEF Idle, ShapeInv, Origin
<1>6. CASE FinishRollback
  <2>1. /\ UNCHANGED <<row, conf, neo, pg, run, mig>> /\ cmd' = Idle /\ last' = "rolledBack"
        /\ cmd.pc = "r_done" /\ manifest' = NoManifest
    BY <1>6 DEF FinishRollback
  <2>2. row = manifest.row /\ manifest # NoManifest
    BY <1>0, <2>1 DEF ManifestInv
  <2>3. Origin' = Origin
    BY <2>1, <2>2 DEF Origin
  <2>4. "row" \in DOMAIN NoManifest
    BY DEF NoManifest
  <2> QED BY <2>1, <2>3, <2>4, OutsideStep DEF Idle
<1>7. CASE Fail
  <2>1. /\ UNCHANGED <<row, conf, neo, pg, run, mig, manifest>> /\ cmd' = Idle
        /\ last' # "installed"
    BY <1>7 DEF Fail
  <2> QED BY <1>0, <2>1, OutsideStep DEF Idle, ShapeInv, Origin
<1> QED BY <1>1, <1>2, <1>4, <1>5, <1>6, <1>7 DEF RollbackStep

\* A container that starts runs the image it was started with, and BloodTrail
\* only in its own.
LEMMA ImageMoves ==
    ASSUME ImageInv, NEW image,
           Boots(image, row) \/ ComposeUp(image)
    PROVE  /\ "image" \in DOMAIN run' /\ run'.image = image
           /\ run'.driver = "bloodtrail" => run'.image # "stock"
BY DEF ImageInv, Boots, ComposeUp

\* Every step keeps the image: install starts from the stock one, a rollback that
\* could restart the container has, and only install puts the override's file back.
LEMMA ImageNext ==
    ASSUME HandoverInv, ImageInv, [Next]_vars
    PROVE  ImageInv'
<1> USE DEF project, data, machine, operator, At
<1>0. ManifestInv /\ ShapeInv
  BY DEF HandoverInv
<1>1. CASE StartInstall
  BY <1>0, <1>1 DEF StartInstall, ImageInv, Emptied, Restored
<1>2. CASE SaveManifest
  <2>1. manifest' # NoManifest
    <3>1. manifest'.row = row
      BY <1>0, <1>2 DEF SaveManifest, ManifestInv, TakeInventory
    <3> QED BY <1>0, <3>1 DEF ShapeInv, NoManifest
  <2> QED BY <1>2, <2>1, GotoMoves DEF SaveManifest, ImageInv, Emptied, Restored
<1>3. ASSUME NEW from, NEW to, At(from), Goto(to), UNCHANGED <<run, manifest, told>>,
             disk' = disk \/ from = "override",
             <<from, to>> \in {<<"clear", "look">>, <<"start", "wait">>, <<"wait", "switch">>,
                 <<"epoch", "countNeo">>, <<"countPg", "log">>, <<"log", "override">>, <<"override", "env">>,
                 <<"env", "row">>, <<"row", "lineage">>, <<"lineage", "up">>}
      PROVE  ImageInv'
  <2>1. cmd.pc = from /\ cmd'.pc = to /\ DOMAIN cmd' = DOMAIN cmd
    BY <1>3, GotoMoves
  <2>2. manifest # NoManifest
    BY <1>0, <1>3, <2>1 DEF ManifestInv, Switched, Emptied
  <2> QED BY <1>3, <2>1, <2>2 DEF ImageInv, Emptied, Restored
<1>4. CASE LookBefore \/ CountNeo4j
  BY <1>0, <1>4 DEF LookBefore, CountNeo4j, ShapeInv, ImageInv, Emptied, Restored
<1>5. CASE SwitchToPG
  BY <1>5, GotoMoves DEF SwitchToPG, ImageInv, Emptied, Restored
<1>6. CASE InstallUp
  <2>1. manifest # NoManifest
    BY <1>0, <1>6 DEF InstallUp, ManifestInv, Switched
  <2> QED BY <1>6, <2>1, GotoMoves, ImageMoves DEF InstallUp, ImageInv, Emptied, Restored
<1>7. CASE VerifyInstall \/ Fail
  BY <1>7 DEF VerifyInstall, Fail, Idle, ImageInv, Emptied, Restored
<1>8. CASE StartRollback
  BY <1>8 DEF StartRollback, ImageInv, Emptied, Restored
<1>9. CASE RestoreRow \/ RemoveOverride \/ RestoreEnv
  BY <1>9, GotoMoves DEF RestoreRow, RemoveOverride, RestoreEnv, ImageInv, Emptied, Restored
<1>10. CASE RollbackUp
  <2>1. /\ UNCHANGED <<disk, manifest, told>> /\ cmd.pc = "r_up" /\ cmd'.pc = "r_lineage"
        /\ DOMAIN cmd' = DOMAIN cmd /\ "bt" \notin disk
    BY <1>10, GotoMoves DEF RollbackUp, ImageInv
  <2>2. cmd'.elsewhere = cmd.elsewhere
    BY <1>10 DEF RollbackUp, Goto, ImageInv, Restored
  <2>3. (run' = run /\ cmd.elsewhere) \/ ComposeUp("stock")
    BY <1>10, <2>1 DEF RollbackUp, Image
  <2> QED BY <2>1, <2>2, <2>3, ImageMoves DEF ImageInv, Emptied, Restored
<1>11. CASE RollbackUpFails
  <2>1. /\ UNCHANGED <<disk, manifest, told>> /\ cmd.pc = "r_up" /\ cmd' = Idle /\ manifest # NoManifest
    BY <1>0, <1>11 DEF RollbackUpFails, ManifestInv, Restored
  <2>2. run' = run \/ \E image : ComposeUp(image)
    BY <1>11 DEF RollbackUpFails
  <2> QED BY <2>1, <2>2, ImageMoves DEF ImageInv, Idle, Emptied, Restored
<1>12. CASE RollbackEndsLineage
  <2>1. /\ UNCHANGED <<disk, manifest, told, run>> /\ cmd.pc = "r_lineage" /\ cmd'.pc = "r_done"
        /\ DOMAIN cmd' = DOMAIN cmd /\ cmd'.elsewhere = cmd.elsewhere
    BY <1>12, GotoMoves DEF RollbackEndsLineage, Goto, ImageInv, Restored
  <2> QED BY <2>1 DEF ImageInv, Emptied, Restored
<1>13. CASE FinishRollback
  BY <1>13 DEF FinishRollback, ImageInv, Idle, Emptied, Restored
<1>14. CASE RestartContainer
  <2>1. UNCHANGED <<disk, manifest, told, cmd>> /\ Boots(run.image, row)
    BY <1>14 DEF RestartContainer
  <2> QED BY <2>1, ImageMoves DEF ImageInv
<1>15. CASE OperatorUp
  <2>1. /\ UNCHANGED <<disk, manifest, cmd>> /\ cmd.pc = "idle"
        /\ \E image : ComposeUp(image) /\ ("bt" \notin disk => image = "stock")
    BY <1>15 DEF OperatorUp, Image
  <2> QED BY <2>1, ImageMoves DEF ImageInv, Emptied, Restored
<1>16. CASE BackupLost
  <2>1. manifest' # NoManifest
    BY <1>0, <1>16 DEF BackupLost, ShapeInv, NoManifest
  <2> QED BY <1>16, <2>1 DEF BackupLost, ImageInv
<1>17. ASSUME UNCHANGED <<disk, run, manifest, cmd, told>>  PROVE ImageInv'
  BY <1>17 DEF ImageInv
<1>18. CASE InstallStep
  BY <1>1, <1>2, <1>3, <1>4, <1>5, <1>6, <1>7, <1>18
  DEF InstallStep, CheckPostgresGraphEmpty, StartNeoToPG, WaitUntilIdle, CheckEpoch, CountPostgres,
      CheckMigratorLog, WriteOverride, WriteEnv, SetRow, InstallEndsLineage
<1>19. CASE Meanwhile
  BY <1>14, <1>15, <1>16, <1>17, <1>19
  DEF Meanwhile, MigratorImports, StockWrites, BloodTrailWrites, BloodTrailRebuilds, SaveSnapshotFile,
      OperatorAddsFile, OperatorPutsFirst, OperatorKeepsOwnLine
<1> QED
  BY <1>7, <1>8, <1>9, <1>10, <1>11, <1>12, <1>13, <1>17, <1>18, <1>19 DEF Next, RollbackStep, vars

\* What goes on meanwhile keeps the invariant: the migrator copies from Neo4j, and
\* nothing but an ingest writes to PostgreSQL while install migrates.
LEMMA MeanwhileKeeps ==
    ASSUME HandoverInv, ImageInv, Meanwhile
    PROVE  HandoverInv'
<1> USE DEF project, data, machine, operator
<1>0. ShapeInv /\ ManifestInv /\ AsideInv /\ MigrationInv
  BY DEF HandoverInv
<1>1. ASSUME NEW x \in Objects, UNCHANGED <<row, conf, run, manifest, cmd, last>>,
             mig'.left \subseteq mig.left,
             \/ neo' = neo /\ pg' = pg
             \/ neo' = neo /\ pg' = pg \cup {x} /\ (cmd.pc \in Emptied /\ ~WritesAfterSwitch => x \in neo)
             \/ neo' = neo \cup {x} /\ pg' = pg /\ run.driver = "neo4j"
      PROVE  HandoverInv'
  <2>1. ShapeInv' /\ ManifestInv'
    BY <1>0, <1>1 DEF ShapeInv, ManifestInv, TakeInventory, ResolveDriver
  <2>2. AsideInv'
    BY <1>0, <1>1 DEF AsideInv, OffNeo4j, ResolveDriver, Origin
  <2>3. MigrationInv'
    <3>1. cmd.pc \in Switched \/ last = "installed" => neo' = neo /\ pg \subseteq pg'
      BY <1>0, <1>1 DEF MigrationInv
    <3>2. (OffNeo4j(row) <=> OffNeo4j(row)') /\ "countPg" \in Switched /\ Compared \subseteq Switched
      BY <1>1 DEF OffNeo4j, ResolveDriver, Switched, Compared
    <3> QED BY <1>0, <1>1, <3>1, <3>2 DEF MigrationInv
  <2> QED BY <2>1, <2>2, <2>3 DEF HandoverInv
<1>2. ASSUME NEW x \in Objects, NEW f \in BOOLEAN, MigratorImports(x, f)  PROVE HandoverInv'
  <2>1. x \in neo /\ mig'.left \subseteq mig.left
    BY <1>0, <1>2 DEF MigratorImports, ShapeInv
  <2> QED BY <1>1, <1>2, <2>1 DEF MigratorImports
<1>3. ASSUME NEW x \in Objects, StockWrites(x)  PROVE HandoverInv'
  <2>1. cmd.pc \in Emptied /\ ~WritesAfterSwitch /\ run.driver # "neo4j" => pg' = pg
    BY <1>3 DEF StockWrites, Migrating, Emptied
  <2> QED BY <1>1, <1>3, <2>1 DEF StockWrites
<1>4. ASSUME NEW x \in Objects, BloodTrailWrites(x)  PROVE HandoverInv'
  <2>1. cmd.pc \notin Emptied
    BY <1>4 DEF BloodTrailWrites, ImageInv
  <2> QED BY <1>1, <1>4, <2>1 DEF BloodTrailWrites
<1>5. ASSUME UNCHANGED <<row, conf, neo, pg, cmd, last, manifest>>,
             UNCHANGED <<run, mig>> \/ \E image : ComposeUp(image) \/ Boots(image, row)
      PROVE  HandoverInv'
  <2>1. /\ "driver" \in DOMAIN run' /\ mig'.left \subseteq neo
        /\ OffNeo4j(row) /\ run.driver # "neo4j" => run'.driver # "neo4j"
    BY <1>5, ContainerMoves
  <2>2. ShapeInv' /\ ManifestInv'
    BY <1>0, <1>5, <2>1 DEF ShapeInv, ManifestInv, TakeInventory, ResolveDriver
  <2>3. AsideInv' /\ MigrationInv'
    BY <1>0, <1>5, <2>1 DEF AsideInv, MigrationInv, OffNeo4j, ResolveDriver, Origin
  <2> QED BY <2>2, <2>3 DEF HandoverInv
<1>6. CASE BackupLost
  <2>1. /\ UNCHANGED <<row, conf, neo, pg, cmd, last, run, mig>> /\ manifest # NoManifest
        /\ manifest'.row = manifest.row /\ DOMAIN manifest' = DOMAIN manifest
    BY <1>0, <1>6 DEF BackupLost, ShapeInv
  <2>2. manifest' # NoManifest /\ cmd.pc # "manifest"
    BY <1>0, <2>1 DEF ShapeInv, ManifestInv, NoManifest
  <2>3. ShapeInv' /\ ManifestInv'
    BY <1>0, <2>1, <2>2 DEF ShapeInv, ManifestInv
  <2>4. AsideInv' /\ MigrationInv'
    BY <1>0, <2>1, <2>2 DEF AsideInv, MigrationInv, OffNeo4j, ResolveDriver, Origin
  <2> QED BY <2>3, <2>4 DEF HandoverInv
<1> QED
  BY <1>2, <1>3, <1>4, <1>5, <1>6
  DEF Meanwhile, RestartContainer, BloodTrailRebuilds, SaveSnapshotFile, OperatorUp, OperatorAddsFile,
      OperatorPutsFirst, OperatorKeepsOwnLine

\* The deployment's bookkeeping holds throughout, through every command that is
\* cut short and run again.
THEOREM HandoverInvariant == Spec => [](HandoverInv /\ ImageInv)
<1>1. Init => HandoverInv /\ ImageInv
  <2> SUFFICES ASSUME Init  PROVE ImageInv
    BY HandoverInit
  <2>1. PICK d \in Deployments :
          /\ disk = d.disk /\ manifest = d.manifest /\ cmd = Idle
          /\ run = [image |-> d.image, driver |-> d.driver, epoch |-> 0]
    BY DEF Init
  <2> QED BY <2>1, InstallerAssumption DEF ImageInv, Idle, Emptied, Restored
<1>2. HandoverInv /\ ImageInv /\ [Next]_vars => HandoverInv' /\ ImageInv'
  <2> SUFFICES ASSUME HandoverInv, ImageInv, [Next]_vars  PROVE HandoverInv'
    BY ImageNext
  <2>1. CASE UNCHANGED vars
    BY <2>1 DEF vars, HandoverInv, ShapeInv, ManifestInv, TakeInventory, AsideInv, MigrationInv, OffNeo4j,
       ResolveDriver, Origin
  <2> QED BY <2>1, InstallKeeps, RollbackKeeps, MeanwhileKeeps DEF Next
<1> QED BY <1>1, <1>2, PTL DEF Spec

\* BloodTrail is switched on only over a PostgreSQL graph that has everything
\* Neo4j has: checkPostgresGraphEmpty and the two counts are enough, whatever
\* fails and is retried, because the migrator only copies, and after the switch
\* no container comes back to Neo4j.
THEOREM NothingIsLeftBehind ==
    ASSUME ~WritesAfterSwitch
    PROVE  Spec => []NothingLeftBehind
<1>1. ASSUME ~WritesAfterSwitch  PROVE HandoverInv => NothingLeftBehind
  BY <1>1 DEF HandoverInv, MigrationInv, NothingLeftBehind, Compared
<1> QED BY <1>1, HandoverInvariant, PTL

(***************************************************************************)
(* The replica across handovers.  Two things an operator does by hand are   *)
(* outside the argument: the restart rollback leaves to them while           *)
(* BloodTrail runs on (lineageLeftToTheOperator asks them to end the        *)
(* lineage once more), and taking the override's entry out of .env          *)
(* instead of rolling back.                                                 *)
(***************************************************************************)
FileCurrent == file.mark = mark
HandsOff == ~told /\ ("bt" \in disk /\ FileCurrent => Lists(Loads(env, disk)))

BeforeUp == {"manifest", "clear", "override", "env", "row", "lineage", "up"} \cup Emptied

\* The deployment has the row install found, or one install wrote; BloodTrail's
\* image runs by its own row or by the one rollback has put back.
DeploymentInv ==
    /\ run.image \in {"stock", "bt"}
    /\ manifest # NoManifest => row \in {manifest.row, "pg", "bloodtrail"}
    /\ run.driver = "bloodtrail" => row \in {"bloodtrail", manifest.row}
    /\ run.image = "bt" /\ "bt" \notin disk => row = manifest.row
    /\ cmd.pc \in {"env", "row", "lineage", "up"} => "bt" \in disk

\* No file is current until BloodTrail starts, nor once rollback has ended the lineage.
UnvouchedInv ==
    /\ cmd.pc \in BeforeUp => run.image = "stock" /\ ~FileCurrent
    /\ manifest = NoManifest => ~FileCurrent
    /\ mig.active => run.driver # "bloodtrail" /\ ~FileCurrent
    /\ cmd.pc = "r_done" => cmd.elsewhere \/ ~FileCurrent

\* The row is the one rollback restores, and BloodTrail does not start by it.
HandedBack ==
    /\ row # "bloodtrail" /\ row = manifest.row /\ run.driver # "bloodtrail"
    /\ row = "none" => run.image = "stock"

\* BloodTrail serves what PostgreSQL holds, and so does its file while it is
\* current, unless the deployment has been handed back: until the lineage ends
\* nothing starts BloodTrail again.
ServedInv ==
    /\ run.driver = "bloodtrail" => engine.graph = pg
    /\ FileCurrent => /\ row \in {"bloodtrail", manifest.row}
                      /\ run.image = "stock" => "bt" \notin disk /\ row = manifest.row
                      /\ file.graph = pg \/ HandedBack
                      /\ run.driver \in {"bloodtrail", "dead"} \/ HandedBack

LineageInv == DeploymentInv /\ UnvouchedInv /\ ServedInv

\* The new lineage is one that neither PostgreSQL, the engine nor the file has.
LEMMA FreshIsNew == Fresh \notin {mark, engine.mark, file.mark}
<1>1. \E n \in 1..4 : n \notin {mark, engine.mark, file.mark}
  <2>1. \A a, b, c : \E n \in {1, 2, 3, 4} : n # a /\ n # b /\ n # c
    OBVIOUS
  <2> QED BY <2>1
<1> QED BY <1>1 DEF Fresh

\* A container that starts by Boots: which driver it has, and what it serves.
LEMMA BootsServes ==
    ASSUME NEW image \in {"stock", "bt"}, Boots(image, row)
    PROVE  /\ run'.image = image /\ ~mig'.active
           /\ run'.driver = "bloodtrail" =>
                /\ image = "bt" /\ row \in {"bloodtrail", "none"}
                /\ engine'.graph = IF FileCurrent THEN file.graph ELSE pg
           /\ run'.driver \notin {"bloodtrail", "dead"} =>
                row # "bloodtrail" /\ (row = "none" => image = "stock")
BY DEF Boots, ResolveDriver, NotMigrating, FileCurrent

\* The container starts, or is left alone, with the image it has or the one the
\* override names: whatever the row, BloodTrail comes up with PostgreSQL's graph.
LEMMA StartKeeps ==
    ASSUME ShapeInv, ManifestInv, ImageInv, LineageInv, NEW image \in {"stock", "bt"},
           Boots(image, row) \/ ComposeUp(image),
           UNCHANGED <<disk, row, pg, mark, file, manifest>>,
           manifest # NoManifest \/ image = "stock",
           image = "stock" /\ FileCurrent => "bt" \notin disk /\ row = manifest.row,
           image = "bt" => "bt" \in disk \/ run.image = "bt",
           cmd'.pc \notin BeforeUp \/ (cmd' = cmd /\ image = "stock"),
           cmd'.pc = "r_done" => cmd' = cmd
    PROVE  LineageInv'
<1>0. DeploymentInv /\ UnvouchedInv /\ ServedInv
  BY DEF LineageInv
<1>1. CASE UNCHANGED <<run, engine, mig>>
  BY <1>0, <1>1 DEF LineageInv, DeploymentInv, UnvouchedInv, ServedInv, HandedBack, FileCurrent, BeforeUp, Emptied
<1>2. CASE Boots(image, row)
  <2>1. /\ run'.image = image /\ ~mig'.active
        /\ run'.driver = "bloodtrail" =>
             /\ image = "bt" /\ row \in {"bloodtrail", "none"}
             /\ engine'.graph = IF FileCurrent THEN file.graph ELSE pg
        /\ run'.driver \notin {"bloodtrail", "dead"} =>
             row # "bloodtrail" /\ (row = "none" => image = "stock")
    BY <1>2, BootsServes
  <2>2. FileCurrent' = FileCurrent
    BY DEF FileCurrent
  <2>3. DeploymentInv'
    BY <1>0, <2>1 DEF DeploymentInv, BeforeUp
  <2>4. UnvouchedInv'
    BY <1>0, <2>1, <2>2 DEF UnvouchedInv
  <2>5. FileCurrent /\ run'.driver = "bloodtrail" => ~HandedBack
    BY <2>1, <1>0 DEF HandedBack, ServedInv
  <2>6. ServedInv'
    BY <1>0, <2>1, <2>2, <2>5 DEF ServedInv, HandedBack
  <2> QED BY <2>3, <2>4, <2>6 DEF LineageInv
<1> QED BY <1>1, <1>2 DEF ComposeUp

\* A step that keeps the graph, the lineage, the replica and the file, and moves no
\* command to where the invariant asks for more.
LEMMA StillKeeps ==
    ASSUME LineageInv, UNCHANGED <<pg, mark, engine, file>>,
           run'.image = run.image, run'.driver = run.driver \/ (run'.driver # "bloodtrail" /\ ~FileCurrent),
           mig' = mig \/ (run'.driver # "bloodtrail" /\ ~FileCurrent),
           disk' = disk \/ (disk' = disk \cup {"bt"} /\ ~FileCurrent) \/ (disk' = disk \ {"bt"} /\ row = manifest.row /\ cmd'.pc \notin BeforeUp),
           manifest'.row = manifest.row, manifest' = NoManifest <=> manifest = NoManifest,
           row' = row \/ row' = manifest.row \/ (row' \in {"pg", "bloodtrail"} /\ run.driver # "bloodtrail" /\ run.image = "stock" /\ ~FileCurrent),
           cmd'.pc \in BeforeUp => run.image = "stock" /\ ~FileCurrent,
           cmd'.pc \in {"env", "row", "lineage", "up"} => "bt" \in disk',
           cmd'.pc = "r_done" => cmd' = cmd
    PROVE  LineageInv'
<1>0. DeploymentInv /\ UnvouchedInv /\ ServedInv /\ FileCurrent' = FileCurrent
  BY DEF LineageInv, FileCurrent
<1>1. DeploymentInv'
  BY <1>0 DEF DeploymentInv
<1>2. UnvouchedInv'
  BY <1>0 DEF UnvouchedInv
<1>3. ServedInv'
  BY <1>0 DEF ServedInv, HandedBack
<1> QED BY <1>1, <1>2, <1>3 DEF LineageInv

\* The lineage ends: no file is current, whatever it and PostgreSQL hold.
LEMMA EndedKeeps ==
    ASSUME LineageInv, mark' # file.mark, UNCHANGED <<disk, row, run, mig, file, manifest>>,
           run.driver = "bloodtrail" => engine'.graph = pg',
           cmd'.pc \in BeforeUp => run.image = "stock",
           cmd'.pc \in {"env", "row", "lineage", "up"} => "bt" \in disk
    PROVE  LineageInv'
BY DEF LineageInv, DeploymentInv, UnvouchedInv, ServedInv, FileCurrent

\* A step of install keeps the invariant: until it starts BloodTrail the stock image
\* runs and no file is current.
LEMMA LineageInstall ==
    ASSUME HandoverInv, ImageInv, LineageInv, ~told, InstallStep
    PROVE  LineageInv'
<1> USE DEF project, data, machine, operator, At
<1>0. /\ ShapeInv /\ ManifestInv /\ DeploymentInv /\ UnvouchedInv /\ ServedInv
      /\ run.image = "stock" => run.driver # "bloodtrail"
  BY DEF HandoverInv, LineageInv, ImageInv
<1>1. CASE StartInstall
  <2>1. /\ UNCHANGED <<disk, row, run, mig, pg, mark, engine, file, manifest>> /\ cmd'.pc = "manifest"
        /\ manifest = NoManifest
    BY <1>1 DEF StartInstall
  <2>2. run.image = "stock" /\ ~FileCurrent
    BY <1>0, <2>1 DEF ImageInv, UnvouchedInv
  <2> QED BY <2>1, <2>2, StillKeeps
<1>2. CASE SaveManifest
  <2>1. /\ UNCHANGED <<disk, row, run, mig, pg, mark, engine, file>> /\ cmd.pc = "manifest"
        /\ cmd'.pc \in {"clear", "override"} /\ manifest'.row = row
    BY <1>0, <1>2, GotoMoves DEF SaveManifest, ManifestInv, TakeInventory
  <2>2. run.image = "stock" /\ ~FileCurrent /\ FileCurrent' = FileCurrent
    BY <1>0, <2>1 DEF UnvouchedInv, BeforeUp, FileCurrent
  <2>3. DeploymentInv' /\ ServedInv'
    BY <1>0, <2>1, <2>2 DEF DeploymentInv, ServedInv
  <2>4. UnvouchedInv'
    BY <1>0, <2>1, <2>2 DEF UnvouchedInv
  <2> QED BY <2>3, <2>4 DEF LineageInv
<1>3. CASE CheckPostgresGraphEmpty
  <2>1. /\ UNCHANGED <<disk, row, run, mig, engine, file, manifest>> /\ cmd.pc = "clear" /\ cmd'.pc = "look"
        /\ mark' = mark \/ mark' = Fresh
    BY <1>3, GotoMoves DEF CheckPostgresGraphEmpty, EndLineage
  <2>2. run.image = "stock" /\ mark' # file.mark
    BY <1>0, <2>1, FreshIsNew DEF UnvouchedInv, BeforeUp, FileCurrent
  <2> QED BY <1>0, <2>1, <2>2, EndedKeeps
<1>4. CASE LookBefore \/ CountNeo4j
  <2>1. /\ UNCHANGED <<disk, row, run, mig, pg, mark, engine, file, manifest>>
        /\ cmd.pc \in BeforeUp /\ cmd'.pc \in {"start", "countPg"}
    BY <1>0, <1>4 DEF LookBefore, CountNeo4j, ShapeInv, BeforeUp, Emptied
  <2> QED BY <1>0, <2>1, StillKeeps DEF UnvouchedInv
<1>5. ASSUME NEW from \in BeforeUp, NEW to, At(from), Goto(to), UNCHANGED <<pg, mark, engine, file, manifest>>,
             run' = run \/ run' = [run EXCEPT !.driver = "pg"], 
             mig' = mig \/ from = "start",
             disk' = disk \/ disk' = disk \cup {"bt"}, row' = row \/ row' \in {"pg", "bloodtrail"},
             to \notin {"up", "verify", "r_done"},
             to \in {"env", "row", "lineage"} => from \in {"env", "row"} \/ "bt" \in disk'
      PROVE  LineageInv'
  <2>1. cmd.pc = from /\ cmd'.pc = to /\ run.image = "stock" /\ ~FileCurrent /\ run.driver # "bloodtrail"
    BY <1>0, <1>5, GotoMoves DEF UnvouchedInv
  <2>2. run'.image = run.image /\ run'.driver # "bloodtrail"
    BY <1>0, <1>5, <2>1 DEF ImageInv, ShapeInv
  <2>3. to \in {"env", "row", "lineage"} => "bt" \in disk'
    BY <1>0, <1>5, <2>1 DEF DeploymentInv
  <2> QED BY <1>5, <2>1, <2>2, <2>3, StillKeeps
<1>6. CASE InstallEndsLineage
  <2>1. /\ UNCHANGED <<disk, row, run, mig, pg, engine, file, manifest>> /\ cmd.pc = "lineage" /\ cmd'.pc = "up"
        /\ mark' = Fresh
    BY <1>6, GotoMoves DEF InstallEndsLineage, EndLineage
  <2> QED BY <1>0, <2>1, FreshIsNew, EndedKeeps DEF UnvouchedInv, DeploymentInv, ServedInv, BeforeUp
<1>7. CASE InstallUp
  <2>1. /\ UNCHANGED <<disk, row, pg, mark, file, manifest>> /\ cmd.pc = "up" /\ cmd'.pc = "verify"
        /\ ComposeUp("bt") /\ manifest # NoManifest /\ "bt" \in disk
    BY <1>0, <1>7, GotoMoves DEF InstallUp, ManifestInv, Switched, DeploymentInv
  <2>2. cmd'.pc \notin BeforeUp /\ cmd'.pc # "r_done"
    BY <2>1 DEF BeforeUp, Emptied
  <2> QED BY <1>0, <2>1, <2>2, StartKeeps
<1>8. CASE VerifyInstall
  <2>1. UNCHANGED <<disk, row, run, mig, pg, mark, engine, file, manifest>> /\ cmd'.pc = "idle"
    BY <1>8 DEF VerifyInstall, Idle
  <2> QED BY <2>1, StillKeeps DEF BeforeUp, Emptied
<1>9. CASE StartNeoToPG \/ WaitUntilIdle \/ SwitchToPG \/ CheckEpoch \/ CountPostgres \/ CheckMigratorLog
           \/ WriteOverride \/ WriteEnv \/ SetRow
  BY <1>5, <1>9 DEF StartNeoToPG, WaitUntilIdle, SwitchToPG, CheckEpoch, CountPostgres, CheckMigratorLog,
     WriteOverride, WriteEnv, SetRow, BeforeUp, Emptied
<1> QED BY <1>1, <1>2, <1>3, <1>4, <1>6, <1>7, <1>8, <1>9 DEF InstallStep

\* A step of rollback keeps the invariant: the row is back before the container
\* leaves BloodTrail, and the lineage has ended before the manifest goes.
LEMMA LineageRollback ==
    ASSUME HandoverInv, ImageInv, LineageInv, HandsOff, ~told', RollbackStep \/ Fail
    PROVE  LineageInv'
<1> USE DEF project, data, machine, operator, At
<1>0. ShapeInv /\ ManifestInv /\ DeploymentInv /\ UnvouchedInv /\ ServedInv
  BY DEF HandoverInv, LineageInv
<1>1. ASSUME NEW to, cmd'.pc = to, to \notin BeforeUp \cup {"r_done"}, UNCHANGED <<run, mig, pg, mark, engine, file, manifest>>,
             row' \in {row, manifest.row},
             disk' = disk \/ (disk' = disk \ {"bt"} /\ row = manifest.row)
      PROVE  LineageInv'
  BY <1>1, StillKeeps DEF BeforeUp
<1>2. CASE StartRollback
  BY <1>1, <1>2 DEF StartRollback, BeforeUp, Emptied
<1>3. CASE RestoreRow
  BY <1>1, <1>3, GotoMoves DEF RestoreRow, BeforeUp, Emptied
<1>4. CASE RemoveOverride
  <2>1. row = manifest.row
    BY <1>0, <1>4 DEF RemoveOverride, ManifestInv, Restored
  <2> QED BY <1>1, <1>4, <2>1, GotoMoves DEF RemoveOverride, BeforeUp, Emptied
<1>5. CASE RestoreEnv
  BY <1>1, <1>5, GotoMoves DEF RestoreEnv, BeforeUp, Emptied
<1>6. CASE RollbackUp
  <2>1. /\ UNCHANGED <<disk, row, pg, mark, file, manifest>> /\ cmd.pc = "r_up" /\ cmd'.pc = "r_lineage"
        /\ "bt" \notin disk /\ row = manifest.row
    BY <1>0, <1>6, GotoMoves DEF RollbackUp, ImageInv, ManifestInv, Restored
  <2>2. CASE UNCHANGED <<engine, run, mig, log>>
    BY <1>1, <2>1, <2>2 DEF BeforeUp, Emptied
  <2>3. CASE ComposeUp("stock")
    <3>1. cmd'.pc \notin BeforeUp /\ cmd'.pc # "r_done"
      BY <2>1 DEF BeforeUp, Emptied
    <3> QED BY <1>0, <2>1, <2>3, <3>1, StartKeeps
  <2> QED BY <1>6, <2>1, <2>2, <2>3 DEF RollbackUp, Image
<1>7. CASE RollbackUpFails
  <2>1. /\ UNCHANGED <<disk, row, pg, file, manifest>> /\ cmd.pc = "r_up" /\ cmd'.pc = "idle"
        /\ "bt" \notin disk /\ row = manifest.row /\ manifest # NoManifest /\ mark' # file.mark
    BY <1>0, <1>7, FreshIsNew DEF RollbackUpFails, EndLineage, ImageInv, ManifestInv, Restored, Idle
  <2>2. CASE UNCHANGED <<engine, run, mig, log>>
    BY <1>0, <2>1, <2>2, EndedKeeps DEF ServedInv, BeforeUp, Emptied
  <2>3. CASE Boots("stock", row)
    <3>1. run'.image = "stock" /\ run'.driver # "bloodtrail" /\ ~mig'.active
      BY <2>3, BootsServes
    <3> QED BY <1>0, <2>1, <3>1
         DEF LineageInv, DeploymentInv, UnvouchedInv, ServedInv, FileCurrent, BeforeUp, Emptied
  <2> QED BY <1>7, <2>1, <2>2, <2>3 DEF RollbackUpFails, Image, ComposeUp
<1>8. CASE RollbackEndsLineage
  <2>1. /\ UNCHANGED <<disk, row, run, mig, pg, engine, file, manifest>> /\ cmd'.pc = "r_done" /\ mark' # file.mark
    BY <1>8, GotoMoves, FreshIsNew DEF RollbackEndsLineage, EndLineage
  <2> QED BY <1>0, <2>1, EndedKeeps DEF ServedInv, BeforeUp, Emptied
<1>9. CASE FinishRollback
  <2>1. /\ UNCHANGED <<disk, row, run, mig, pg, mark, engine, file>> /\ cmd'.pc = "idle" /\ ~cmd.elsewhere
        /\ cmd.pc = "r_done" /\ manifest' = NoManifest
    BY <1>9 DEF FinishRollback, Idle
  <2>2. run.image = "stock" /\ ~FileCurrent /\ run.driver # "bloodtrail"
    BY <1>0, <2>1 DEF ImageInv, UnvouchedInv
  <2> QED BY <1>0, <2>1, <2>2
       DEF LineageInv, DeploymentInv, UnvouchedInv, ServedInv, FileCurrent, BeforeUp, Emptied
<1>10. CASE Fail
  BY <1>1, <1>10 DEF Fail, Idle, BeforeUp, Emptied
<1> QED BY <1>2, <1>3, <1>4, <1>5, <1>6, <1>7, <1>8, <1>9, <1>10 DEF RollbackStep

\* What goes on meanwhile keeps the invariant: only BloodTrail saves a file, and
\* PostgreSQL gets ahead of one only while BloodTrail cannot start.
LEMMA LineageMeanwhile ==
    ASSUME HandoverInv, ImageInv, LineageInv, HandsOff, Meanwhile
    PROVE  LineageInv'
<1> USE DEF project, data, machine, operator, At
<1>0. ShapeInv /\ ManifestInv /\ DeploymentInv /\ UnvouchedInv /\ ServedInv
  BY DEF HandoverInv, LineageInv
<1>1. ASSUME NEW x \in Objects, NEW f \in BOOLEAN, MigratorImports(x, f)  PROVE LineageInv'
  <2>1. UNCHANGED <<disk, row, run, mark, engine, file, manifest, cmd>> /\ mig.active
    BY <1>1 DEF MigratorImports
  <2>2. run.driver # "bloodtrail" /\ mark' # file.mark
    BY <1>0, <2>1 DEF UnvouchedInv, FileCurrent
  <2> QED BY <1>0, <2>1, <2>2 DEF LineageInv, DeploymentInv, UnvouchedInv, ServedInv, FileCurrent
<1>2. ASSUME NEW x \in Objects, StockWrites(x)  PROVE LineageInv'
  <2>1. /\ UNCHANGED <<disk, row, run, mig, mark, engine, file, manifest, cmd>>
        /\ pg' = pg \/ run.driver = "pg"
    BY <1>2 DEF StockWrites
  <2> QED BY <1>0, <2>1 DEF LineageInv, DeploymentInv, UnvouchedInv, ServedInv, HandedBack, FileCurrent
<1>3. ASSUME NEW x \in Objects, BloodTrailWrites(x)  PROVE LineageInv'
  <2>1. /\ UNCHANGED <<disk, row, run, mig, file, manifest, cmd>> /\ run.driver = "bloodtrail"
        /\ pg' = pg \cup {x} /\ engine'.graph = engine.graph \cup {x} /\ mark' # file.mark
    BY <1>3, FreshIsNew DEF BloodTrailWrites
  <2> QED BY <1>0, <2>1, EndedKeeps DEF ServedInv, DeploymentInv, UnvouchedInv
<1>4. CASE RestartContainer
  <2>1. UNCHANGED <<disk, row, pg, mark, file, manifest, cmd>> /\ Boots(run.image, row)
    BY <1>4 DEF RestartContainer
  <2>2. run.image \in {"stock", "bt"} /\ (manifest # NoManifest \/ run.image = "stock")
    BY <1>0 DEF DeploymentInv, ImageInv, HandsOff
  <2>3. /\ run.image = "stock" /\ FileCurrent => "bt" \notin disk /\ row = manifest.row
        /\ cmd.pc \in BeforeUp => run.image = "stock"
    BY <1>0 DEF ServedInv, UnvouchedInv
  <2> QED BY <1>0, <2>1, <2>2, <2>3, StartKeeps
<1>5. CASE BloodTrailRebuilds
  <2>1. UNCHANGED <<disk, row, run, mig, pg, mark, file, manifest, cmd>> /\ engine'.graph = pg
    BY <1>5 DEF BloodTrailRebuilds
  <2> QED BY <1>0, <2>1 DEF LineageInv, DeploymentInv, UnvouchedInv, ServedInv, HandedBack, FileCurrent
<1>6. CASE SaveSnapshotFile
  <2>1. /\ UNCHANGED <<disk, row, run, mig, pg, mark, engine, manifest, cmd>> /\ run.driver = "bloodtrail"
        /\ file'.graph = pg
    BY <1>0, <1>6 DEF SaveSnapshotFile, ServedInv
  <2>2. run.image # "stock" /\ manifest # NoManifest /\ ~mig.active
    BY <1>0, <2>1 DEF ImageInv, HandsOff, UnvouchedInv
  <2>3. cmd.pc \notin BeforeUp /\ (cmd.pc = "r_done" => cmd.elsewhere)
    BY <1>0, <2>2 DEF UnvouchedInv, ImageInv
  <2> QED BY <1>0, <2>1, <2>2, <2>3 DEF LineageInv, DeploymentInv, UnvouchedInv, ServedInv, FileCurrent
<1>7. CASE OperatorUp
  <2>1. /\ UNCHANGED <<disk, row, pg, mark, file, manifest, cmd>> /\ cmd.pc = "idle"
        /\ ComposeUp(Image(Loads(env, disk)))
    BY <1>7 DEF OperatorUp
  <2>2. /\ Image(Loads(env, disk)) \in {"stock", "bt"}
        /\ Image(Loads(env, disk)) = "bt" => "bt" \in disk
        /\ Image(Loads(env, disk)) = "stock" /\ FileCurrent => "bt" \notin disk
    BY DEF Image, HandsOff
  <2>3. manifest # NoManifest \/ Image(Loads(env, disk)) = "stock"
    BY <2>2 DEF ImageInv
  <2>4. FileCurrent /\ "bt" \notin disk => row = manifest.row
    BY <1>0 DEF DeploymentInv, ServedInv
  <2>5. cmd'.pc \notin BeforeUp /\ cmd'.pc # "r_done"
    BY <2>1 DEF BeforeUp, Emptied
  <2> QED BY <1>0, <2>1, <2>2, <2>3, <2>4, <2>5, StartKeeps
<1>8. CASE OperatorAddsFile \/ OperatorPutsFirst \/ OperatorKeepsOwnLine \/ BackupLost
  <2>1. /\ UNCHANGED <<disk, row, run, mig, pg, mark, engine, file, cmd>>
        /\ manifest'.row = manifest.row /\ (manifest' = NoManifest <=> manifest = NoManifest)
    <3>1. CASE BackupLost
      BY <1>0, <3>1 DEF BackupLost, ShapeInv, NoManifest
    <3> QED BY <1>8, <3>1 DEF OperatorAddsFile, OperatorPutsFirst, OperatorKeepsOwnLine
  <2> QED BY <1>0, <2>1 DEF LineageInv, DeploymentInv, UnvouchedInv, ServedInv, HandedBack, FileCurrent
<1> QED BY <1>1, <1>2, <1>3, <1>4, <1>5, <1>6, <1>7, <1>8 DEF Meanwhile

\* Every deployment starts without a file that PostgreSQL vouches for.
LEMMA LineageInit == Init => LineageInv
<1> SUFFICES ASSUME Init  PROVE LineageInv
  OBVIOUS
<1>1. PICK d \in Deployments :
        /\ disk = d.disk /\ row = d.row /\ pg = d.pg /\ manifest = d.manifest
        /\ run = [image |-> d.image, driver |-> d.driver, epoch |-> 0]
        /\ mark = 1 /\ engine.graph = IF d.driver = "bloodtrail" THEN d.pg ELSE {}
        /\ file = NoFile /\ mig = NotMigrating /\ cmd = Idle
  BY DEF Init
<1>2. ~FileCurrent /\ cmd.pc = "idle" /\ ~mig.active
  BY <1>1 DEF FileCurrent, NoFile, Idle, NotMigrating
<1> QED BY <1>1, <1>2, InstallerAssumption
    DEF LineageInv, DeploymentInv, UnvouchedInv, ServedInv, BeforeUp, Emptied

\* A BloodTrail that runs serves what PostgreSQL holds, through any sequence of
\* installs and rollbacks, cut short anywhere and run again, with restarts, writes
\* and migrations between: setting the row, restoring it, ending the lineage and
\* starting the container come in an order that leaves no moment at which a file the
\* stock image has outrun can be adopted, but for what an operator does by hand.
THEOREM ReplicaSurvivesEveryHandover == Spec /\ []HandsOff => []ReplicaSurvivesHandovers
<1>1. HandoverInv /\ ImageInv /\ LineageInv /\ HandsOff /\ HandsOff' /\ [Next]_vars => LineageInv'
  <2> SUFFICES ASSUME HandoverInv, ImageInv, LineageInv, HandsOff, HandsOff', [Next]_vars
               PROVE  LineageInv'
    OBVIOUS
  <2>1. CASE UNCHANGED vars
    BY <2>1 DEF vars, LineageInv, DeploymentInv, UnvouchedInv, ServedInv, HandedBack, FileCurrent
  <2>2. ~told /\ ~told'
    BY DEF HandsOff
  <2> QED BY <2>1, <2>2, LineageInstall, LineageRollback, LineageMeanwhile DEF Next
<1>2. LineageInv => ReplicaSurvivesHandovers
  BY DEF LineageInv, ServedInv, ReplicaSurvivesHandovers
<1> QED BY <1>1, <1>2, LineageInit, HandoverInvariant, PTL DEF Spec

(***************************************************************************)
(* The project's entry.  What compose loads is the operator's list with    *)
(* the override in it or not; WithoutOverride is a loop over the list, so   *)
(* what it does to a list that has grown by a name is proved first, by      *)
(* least counterexample over the loop's index.                              *)
(***************************************************************************)
\* Every nonempty set of naturals has a least element.
LEMMA LeastNat ==
    ASSUME NEW T \in SUBSET Nat, T # {}
    PROVE  \E m \in T : \A k \in T : m <= k
<1>1. PICK m \in T : \A k \in T : <<k, m>> \notin OpToRel(<, Nat)
  BY NatLessThanWellFounded, WFMin
<1>2. \A k \in T : ~(k < m)
  BY <1>1 DEF OpToRel
<1>3. \A k \in T : m <= k
  BY <1>2
<1> QED BY <1>3

\* What holds of 0, and of each number up to n that follows one it holds of, holds up to n.
LEMMA Upward ==
    ASSUME NEW n \in Nat, NEW S, 0 \in S, \A i \in 1 .. n : i - 1 \in S => i \in S
    PROVE  \A i \in 0 .. n : i \in S
<1> DEFINE T == {i \in 0 .. n : i \notin S}
<1> SUFFICES ASSUME T # {}  PROVE FALSE
  OBVIOUS
<1>1. PICK m \in T : \A j \in T : m <= j
  <2>1. T \in SUBSET Nat
    OBVIOUS
  <2> QED BY <2>1, LeastNat
<1>2. m \in 1 .. n /\ m - 1 \in 0 .. n /\ m - 1 \notin T
  BY <1>1
<1> QED BY <1>1, <1>2

\* The function WithoutOverride builds, up to the nth name.
KeptTo(names, n, k) ==
    k = [i \in 0 .. n |-> IF i = 0 THEN <<>>
                          ELSE IF IsOverride(names[i]) THEN k[i - 1] ELSE Append(k[i - 1], names[i])]

\* There is such a function, however many names there are.
LEMMA KeptExists ==
    ASSUME NEW names, NEW n \in Nat
    PROVE  \E k : KeptTo(names, n, k)
<1> DEFINE T == {m \in Nat : ~ \E k : KeptTo(names, m, k)}
<1> SUFFICES ASSUME T # {}  PROVE FALSE
  OBVIOUS
<1>1. PICK m \in T : \A j \in T : m <= j
  BY LeastNat
<1>2. m # 0
  <2>1. KeptTo(names, 0, [i \in 0 .. 0 |-> <<>>])
    BY DEF KeptTo
  <2> QED BY <1>1, <2>1
<1>3. PICK k : KeptTo(names, m - 1, k)
  <2>1. m - 1 \in Nat /\ m - 1 \notin T
    BY <1>1, <1>2
  <2> QED BY <2>1
<1> DEFINE g == [i \in 0 .. m |-> IF i < m THEN k[i]
                                  ELSE IF IsOverride(names[m]) THEN k[m - 1] ELSE Append(k[m - 1], names[m])]
<1>4. KeptTo(names, m, g)
  <2>1. /\ \A i \in 0 .. m - 1 : k[i] = IF i = 0 THEN <<>>
                ELSE IF IsOverride(names[i]) THEN k[i - 1] ELSE Append(k[i - 1], names[i])
    BY <1>3 DEF KeptTo
  <2>2. ASSUME NEW i \in 0 .. m
        PROVE  g[i] = IF i = 0 THEN <<>> ELSE IF IsOverride(names[i]) THEN g[i - 1] ELSE Append(g[i - 1], names[i])
    <3>1. CASE i = 0
      BY <1>1, <1>2, <2>1, <3>1
    <3>2. CASE i # 0 /\ i < m
      <4>1. g[i] = k[i] /\ g[i - 1] = k[i - 1] /\ i \in 0 .. m - 1
        BY <1>1, <3>2
      <4> HIDE DEF g
      <4> QED BY <2>1, <3>2, <4>1
    <3>3. CASE i = m
      <4>1. /\ g[i - 1] = k[i - 1] /\ i # 0
            /\ g[i] = IF IsOverride(names[m]) THEN k[m - 1] ELSE Append(k[m - 1], names[m])
        BY <1>1, <1>2, <3>3
      <4> HIDE DEF g
      <4> QED BY <3>3, <4>1
    <3> QED BY <1>1, <3>1, <3>2, <3>3
  <2>3. g = [i \in 0 .. m |-> g[i]]
    OBVIOUS
  <2> HIDE DEF g
  <2> QED BY <2>2, <2>3 DEF KeptTo
<1> QED BY <1>1, <1>4

\* What the loop keeps: WithoutOverride is the last entry of such a function.
LEMMA KeptLoop ==
    ASSUME NEW names, NEW n \in Nat, Len(names) = n
    PROVE  \E k : /\ WithoutOverride(names) = k[n] /\ k[0] = <<>>
                  /\ \A i \in 1 .. n : k[i] = IF IsOverride(names[i]) THEN k[i - 1] ELSE Append(k[i - 1], names[i])
<1> DEFINE c == CHOOSE k : KeptTo(names, n, k)
<1>1. WithoutOverride(names) = c[n]
  BY DEF WithoutOverride, KeptTo
<1>2. KeptTo(names, n, c)
  BY KeptExists
<1> HIDE DEF c
<1>3. \A i \in 0 .. n :
        c[i] = IF i = 0 THEN <<>> ELSE IF IsOverride(names[i]) THEN c[i - 1] ELSE Append(c[i - 1], names[i])
  BY <1>2 DEF KeptTo
<1>4. \A i \in 1 .. n : i \in 0 .. n /\ i # 0
  OBVIOUS
<1>5. c[0] = <<>>
  BY <1>3
<1>6. \A i \in 1 .. n : c[i] = IF IsOverride(names[i]) THEN c[i - 1] ELSE Append(c[i - 1], names[i])
  BY <1>3, <1>4
<1> QED BY <1>1, <1>5, <1>6

\* What is kept are names, none the override; without an override it is all of them.
LEMMA WithoutOverrideKeeps ==
    ASSUME NEW names \in Seq(Name)
    PROVE  /\ WithoutOverride(names) \in Seq(Name) /\ ~Lists(WithoutOverride(names))
           /\ ~Lists(names) => WithoutOverride(names) = names
<1> DEFINE n == Len(names)
<1>1. PICK k : /\ WithoutOverride(names) = k[n] /\ k[0] = <<>>
               /\ \A i \in 1 .. n : k[i] = IF IsOverride(names[i]) THEN k[i - 1] ELSE Append(k[i - 1], names[i])
  <2>1. n \in Nat /\ Len(names) = n
    OBVIOUS
  <2> HIDE DEF n
  <2> QED BY <2>1, KeptLoop
<1> DEFINE S == {i \in 0 .. n : /\ k[i] \in Seq(Name) /\ \A j \in 1 .. Len(k[i]) : ~IsOverride(k[i][j])
                                /\ ~Lists(names) => Len(k[i]) = i /\ \A j \in 1 .. i : k[i][j] = names[j]}
<1>2. \A i \in 0 .. n : i \in S
  <2>1. 0 \in S
    <3>1. 0 \in 0 .. n /\ k[0] \in Seq(Name) /\ Len(k[0]) = 0
      BY <1>1
    <3> QED BY <3>1
  <2>2. ASSUME NEW i \in 1 .. n, i - 1 \in S  PROVE i \in S
    <3>1. /\ i \in 0 .. n /\ names[i] \in Name /\ k[i - 1] \in Seq(Name) /\ i \in DOMAIN names
          /\ \A j \in 1 .. Len(k[i - 1]) : ~IsOverride(k[i - 1][j])
          /\ ~Lists(names) => Len(k[i - 1]) = i - 1 /\ \A j \in 1 .. (i - 1) : k[i - 1][j] = names[j]
      BY <2>2
    <3>2. CASE IsOverride(names[i])
      <4>1. Lists(names) /\ k[i] = k[i - 1]
        BY <1>1, <3>1, <3>2 DEF Lists
      <4> QED BY <3>1, <4>1
    <3>3. CASE ~IsOverride(names[i])
      <4>1. k[i] = Append(k[i - 1], names[i])
        BY <1>1, <3>3
      <4>2. /\ k[i] \in Seq(Name) /\ Len(k[i]) = Len(k[i - 1]) + 1
            /\ \A j \in 1 .. Len(k[i]) : k[i][j] = IF j <= Len(k[i - 1]) THEN k[i - 1][j] ELSE names[i]
        BY <3>1, <4>1
      <4>3. \A j \in 1 .. Len(k[i]) : ~IsOverride(k[i][j])
        BY <3>1, <3>3, <4>2
      <4>4. ~Lists(names) => Len(k[i]) = i /\ \A j \in 1 .. i : k[i][j] = names[j]
        BY <3>1, <4>2
      <4> QED BY <3>1, <4>2, <4>3, <4>4
    <3> QED BY <3>2, <3>3
  <2> HIDE DEF S
  <2>3. n \in Nat
    OBVIOUS
  <2> QED BY <2>1, <2>2, <2>3, Upward
<1>3. n \in S /\ n \in Nat
  BY <1>2
<1>4. k[n] \in Seq(Name) /\ ~Lists(k[n])
  BY <1>3 DEF Lists
<1>5. ASSUME ~Lists(names)  PROVE k[n] = names
  <2>1. Len(k[n]) = Len(names) /\ \A j \in 1 .. Len(names) : k[n][j] = names[j]
    BY <1>3, <1>5
  <2> QED BY <1>4, <2>1
<1> QED BY <1>1, <1>4, <1>5

\* A name more at the end.
LEMMA WithoutOverrideAppend ==
    ASSUME NEW names \in Seq(Name), NEW x \in Name
    PROVE  WithoutOverride(Append(names, x)) =
             IF IsOverride(x) THEN WithoutOverride(names) ELSE Append(WithoutOverride(names), x)
<1> DEFINE n == Len(names)
           more == Append(names, x)
<1>0. n \in Nat /\ Len(more) = n + 1 /\ more[n + 1] = x /\ \A i \in 1 .. n : more[i] = names[i]
  OBVIOUS
<1>1. PICK k : /\ WithoutOverride(names) = k[n] /\ k[0] = <<>>
               /\ \A i \in 1 .. n : k[i] = IF IsOverride(names[i]) THEN k[i - 1] ELSE Append(k[i - 1], names[i])
  <2>1. n \in Nat /\ Len(names) = n
    OBVIOUS
  <2> HIDE DEF n
  <2> QED BY <2>1, KeptLoop
<1> HIDE DEF more
<1>2. PICK g : /\ WithoutOverride(more) = g[n + 1] /\ g[0] = <<>>
               /\ \A i \in 1 .. (n + 1) : g[i] = IF IsOverride(more[i]) THEN g[i - 1] ELSE Append(g[i - 1], more[i])
  BY <1>0, KeptLoop
<1> HIDE DEF n
<1> DEFINE S == {i \in 0 .. n : g[i] = k[i]}
<1>3. \A i \in 0 .. n : i \in S
  <2>1. 0 \in S
    BY <1>0, <1>1, <1>2
  <2>2. ASSUME NEW i \in 1 .. n, i - 1 \in S  PROVE i \in S
    <3>1. i \in 1 .. (n + 1) /\ i \in 0 .. n /\ more[i] = names[i] /\ g[i - 1] = k[i - 1]
      BY <1>0, <2>2
    <3> QED BY <1>1, <1>2, <3>1
  <2> HIDE DEF S
  <2> QED BY <1>0, <2>1, <2>2, Upward
<1>4. g[n] = k[n] /\ n + 1 \in 1 .. (n + 1) /\ (n + 1) - 1 = n
  BY <1>0, <1>3
<1>5. g[n + 1] = IF IsOverride(x) THEN g[n] ELSE Append(g[n], x)
  BY <1>0, <1>2, <1>4
<1> QED BY <1>1, <1>2, <1>4, <1>5 DEF more

\* A name before the first and one after the last, in either order.
LEMMA AppendBehind ==
    ASSUME NEW x \in Name, NEW s \in Seq(Name), NEW y \in Name
    PROVE  Append(<<x>> \o s, y) = <<x>> \o Append(s, y)
<1> DEFINE t == <<x>>
           u == <<y>>
<1>1. t \in Seq(Name) /\ u \in Seq(Name)
  OBVIOUS
<1>2. Append(s, y) = s \o u
  BY AppendIsConcat
<1> HIDE DEF t
<1>3. t \o s \in Seq(Name)
  BY <1>1, ConcatProperties
<1>4. Append(t \o s, y) = (t \o s) \o u
  BY <1>3, AppendIsConcat
<1> HIDE DEF u
<1>5. (t \o s) \o u = t \o (s \o u)
  BY <1>1, ConcatAssociative
<1> QED BY <1>2, <1>4, <1>5 DEF t

\* A name that is not the override before the first.
LEMMA WithoutOverridePrepend ==
    ASSUME NEW names \in Seq(Name), NEW x \in Name, ~IsOverride(x)
    PROVE  WithoutOverride(<<x>> \o names) = <<x>> \o WithoutOverride(names)
<1> DEFINE n == Len(names)
           more == <<x>> \o names
<1>0. n \in Nat /\ Len(more) = n + 1 /\ more[1] = x /\ \A i \in 1 .. n : more[i + 1] = names[i]
  OBVIOUS
<1>1. PICK k : /\ WithoutOverride(names) = k[n] /\ k[0] = <<>>
               /\ \A i \in 1 .. n : k[i] = IF IsOverride(names[i]) THEN k[i - 1] ELSE Append(k[i - 1], names[i])
  <2>1. n \in Nat /\ Len(names) = n
    OBVIOUS
  <2> HIDE DEF n
  <2> QED BY <2>1, KeptLoop
<1> HIDE DEF more
<1>2. PICK g : /\ WithoutOverride(more) = g[n + 1] /\ g[0] = <<>>
               /\ \A i \in 1 .. (n + 1) : g[i] = IF IsOverride(more[i]) THEN g[i - 1] ELSE Append(g[i - 1], more[i])
  BY <1>0, KeptLoop
<1>7. \A i \in 1 .. n : names[i] \in Name
  OBVIOUS
<1> HIDE DEF n
<1> DEFINE S == {i \in 0 .. n : k[i] \in Seq(Name) /\ g[i + 1] = <<x>> \o k[i]}
<1>3. \A i \in 0 .. n : i \in S
  <2>1. 0 \in S
    <3>1. 1 \in 1 .. (n + 1) /\ 0 + 1 = 1 /\ 1 - 1 = 0 /\ 0 \in 0 .. n
      BY <1>0
    <3>2. g[1] = Append(<<>>, x)
      BY <1>0, <1>2, <3>1
    <3>3. Append(<<>>, x) = <<x>> /\ <<x>> \o <<>> = <<x>> /\ <<>> \in Seq(Name)
      OBVIOUS
    <3> QED BY <1>1, <3>1, <3>2, <3>3
  <2>2. ASSUME NEW i \in 1 .. n, i - 1 \in S  PROVE i \in S
    <3>1. /\ i + 1 \in 1 .. (n + 1) /\ i \in 0 .. n /\ more[i + 1] = names[i] /\ (i - 1) + 1 = i /\ (i + 1) - 1 = i
          /\ k[i - 1] \in Seq(Name) /\ g[i] = <<x>> \o k[i - 1]
      <4>1. i + 1 \in 1 .. (n + 1) /\ i \in 0 .. n /\ (i - 1) + 1 = i /\ (i + 1) - 1 = i
        BY <1>0
      <4>2. k[i - 1] \in Seq(Name) /\ g[(i - 1) + 1] = <<x>> \o k[i - 1]
        BY <2>2
      <4>3. more[i + 1] = names[i]
        BY <1>0
      <4> QED BY <4>1, <4>2, <4>3
    <3>2. g[i + 1] = IF IsOverride(names[i]) THEN g[i] ELSE Append(g[i], names[i])
      BY <1>2, <3>1
    <3>3. k[i] = IF IsOverride(names[i]) THEN k[i - 1] ELSE Append(k[i - 1], names[i])
      BY <1>1
    <3>4. names[i] \in Name
      BY <1>7
    <3>5. Append(<<x>> \o k[i - 1], names[i]) = <<x>> \o Append(k[i - 1], names[i])
      BY <3>1, <3>4, AppendBehind
    <3>6. k[i] \in Seq(Name) /\ g[i + 1] = <<x>> \o k[i]
      <4>1. CASE IsOverride(names[i])
        BY <3>1, <3>2, <3>3, <4>1
      <4>2. CASE ~IsOverride(names[i])
        <5>1. k[i] = Append(k[i - 1], names[i]) /\ g[i + 1] = Append(<<x>> \o k[i - 1], names[i])
          BY <3>1, <3>2, <3>3, <4>2
        <5>2. Append(k[i - 1], names[i]) \in Seq(Name)
          BY <3>1, <3>4, AppendProperties
        <5> QED BY <3>5, <5>1, <5>2
      <4> QED BY <4>1, <4>2
    <3> QED BY <3>1, <3>6
  <2> HIDE DEF S
  <2> QED BY <1>0, <2>1, <2>2, Upward
<1>4. g[n + 1] = <<x>> \o k[n]
  BY <1>0, <1>3
<1> QED BY <1>1, <1>2, <1>4 DEF more

\* Discovery finds names, none of them the override's or an absolute one, and more than none.
LEMMA Discovered ==
    ASSUME NEW d
    PROVE  /\ DiscoveredProject(d) \in Seq(Name) /\ DiscoveredProject(d) # <<>>
           /\ ~Lists(DiscoveredProject(d)) /\ ~AllAbsolute(DiscoveredProject(d))
           /\ WithoutOverride(DiscoveredProject(d)) = DiscoveredProject(d)
           /\ \A i \in DOMAIN DiscoveredProject(d) : DiscoveredProject(d)[i].file \in {"base"} \cup (d \cap {"conv"})
<1>1. Named("base") \in Name /\ Named("conv") \in Name
  BY DEF Name, Named, Files
<1>2. /\ DiscoveredProject(d) \in Seq(Name) /\ DiscoveredProject(d) # <<>>
      /\ ~Lists(DiscoveredProject(d)) /\ ~AllAbsolute(DiscoveredProject(d))
      /\ \A i \in DOMAIN DiscoveredProject(d) : DiscoveredProject(d)[i].file \in {"base"} \cup (d \cap {"conv"})
  <2>1. CASE "conv" \in d
    BY <1>1, <2>1 DEF DiscoveredProject, Lists, AllAbsolute, IsOverride, Named
  <2>2. CASE "conv" \notin d
    BY <1>1, <2>2 DEF DiscoveredProject, Lists, AllAbsolute, IsOverride, Named
  <2> QED BY <2>1, <2>2
<1> QED BY <1>2, WithoutOverrideKeeps

\* A sequence of one thing.
LEMMA Single ==
    ASSUME NEW S, NEW l \in S
    PROVE  <<l>> \in Seq(S) /\ Len(<<l>>) = 1 /\ <<l>>[1] = l /\ <<l>> # <<>>
OBVIOUS

\* Length one is enough to be one.
LEMMA IsSingle ==
    ASSUME NEW S, NEW e \in Seq(S), Len(e) = 1
    PROVE  e = <<e[1]>> /\ e[1] \in S
<1>1. e[1] \in S
  OBVIOUS
<1>2. \A i \in 1 .. Len(e) : e[i] = <<e[1]>>[i]
  OBVIOUS
<1> QED BY <1>1, <1>2, Single, SeqEqual

\* What compose loads of an entry that is a sequence of lists is a list, and without a
\* line, or with one, it is what discovery finds, or that line.
LEMMA LoadsOne ==
    ASSUME NEW e \in Seq(Seq(Name)), NEW d
    PROVE  /\ Loads(e, d) \in Seq(Name) /\ Len(e) \in Nat
           /\ Len(e) <= 1 /\ e # <<>> => Len(e) = 1 /\ e = <<e[1]>> /\ Loads(e, d) = e[1] /\ e[1] \in Seq(Name)
           /\ e = <<>> => Loads(e, d) = DiscoveredProject(d)
           /\ Len(e) = 0 <=> e = <<>>
<1>1. CASE e = <<>>
  BY <1>1, Discovered DEF Loads
<1>2. CASE e # <<>>
  <2>0. Len(e) \in Nat /\ Len(e) >= 1
    BY <1>2
  <2>1. Loads(e, d) = e[Len(e)] /\ e[Len(e)] \in Seq(Name)
    BY <1>2, <2>0 DEF Loads, ListedComposeFiles, Last
  <2>2. ASSUME Len(e) <= 1  PROVE Len(e) = 1 /\ e = <<e[1]>>
    <3>1. Len(e) = 1
      <4> DEFINE n == Len(e)
      <4> HIDE DEF n
      <4>1. n \in Nat /\ n >= 1 /\ n <= 1
        BY <2>0, <2>2 DEF n
      <4>2. n = 1
        BY <4>1
      <4> QED BY <4>2 DEF n
    <3> QED BY <3>1, IsSingle
  <2> QED BY <1>2, <2>0, <2>1, <2>2
<1> QED BY <1>1, <1>2

\* An .env of one line.
LEMMA OneLine ==
    ASSUME NEW l \in Seq(Name), NEW d
    PROVE  <<l>> \in Seq(Seq(Name)) /\ Len(<<l>>) = 1 /\ <<l>> # <<>> /\ Loads(<<l>>, d) = l
<1>1. <<l>> \in Seq(Seq(Name)) /\ Len(<<l>>) = 1 /\ <<l>>[1] = l /\ <<l>> # <<>>
  BY Single
<1> QED BY <1>1 DEF Loads, ListedComposeFiles, Last

\* Taking the override out of a line leaves the operator's names, and the line
\* where they are none only if it is to be kept.
LEMMA TakeOutLeaves ==
    ASSUME NEW e \in Seq(Seq(Name)), NEW d, NEW keep \in BOOLEAN, Len(e) = 1,
           WithoutOverride(e[1]) # <<>> \/ keep
    PROVE  /\ TakeOut(e, keep) \in Seq(Seq(Name)) /\ Len(TakeOut(e, keep)) <= 1
           /\ Loads(TakeOut(e, keep), d) = WithoutOverride(e[1])
<1>1. e = <<e[1]>> /\ e # <<>> /\ e[1] \in Seq(Name) /\ Loads(e, d) = e[1]
  <2>1. Len(e) <= 1 /\ e # <<>>
    OBVIOUS
  <2> QED BY <2>1, LoadsOne
<1>2. WithoutOverride(e[1]) \in Seq(Name) /\ (~Lists(e[1]) => WithoutOverride(e[1]) = e[1])
  BY <1>1, WithoutOverrideKeeps
<1>3. CASE Lists(e[1])
  <2>1. TakeOut(e, keep) = <<WithoutOverride(e[1])>>
    BY <1>3 DEF TakeOut
  <2>2. Len(TakeOut(e, keep)) = 1 /\ TakeOut(e, keep) \in Seq(Seq(Name)) /\ Loads(TakeOut(e, keep), d) = WithoutOverride(e[1])
    BY <1>2, <2>1, OneLine
  <2> QED BY <2>2
<1>4. CASE ~Lists(e[1])
  <2>1. TakeOut(e, keep) = e
    BY <1>4 DEF TakeOut
  <2>2. Len(e) <= 1
    OBVIOUS
  <2> QED BY <1>1, <1>2, <1>4, <2>1, <2>2
<1> QED BY <1>3, <1>4

\* restoreComposeFileEntry gives compose back what the operator means it to load,
\* whichever installer wrote the entry and whatever the operator has added to it.
LEMMA RestoreEntryRestores ==
    ASSUME NEW e \in Seq(Seq(Name)), NEW d, NEW m \in Manifests, NEW w \in Seq(Name), m # NoManifest,
           EntryUnderstood(e, d, m, w), Restorable(e, m), ~Lists(w)
    PROVE  /\ RestoreEntry(e, m) \in Seq(Seq(Name)) /\ Len(RestoreEntry(e, m)) <= 1
           /\ Loads(RestoreEntry(e, m), d) = w
<1> DEFINE r == RestoreEntry(e, m)
           disc == DiscoveredProject(d)
<1>0. /\ <<>> \in Seq(Seq(Name)) /\ Len(<<>>) <= 1 /\ Loads(<<>>, d) = disc
      /\ m.created \in BOOLEAN /\ m.legacy \in BOOLEAN
  BY DEF Loads, Manifests
<1>1. CASE Len(e) <= 1
  <2>1. /\ WithoutOverride(Loads(e, d)) = w
        /\ w = <<>> => m.legacy /\ m.created /\ m.prior # "absent"
        /\ m.created /\ ~m.legacy => WithoutOverride(m.written) = disc
        /\ m.created /\ m.legacy /\ LegacyWrote(w) /\ (m.prior = "absent" \/ Lists(Loads(e, d))) => w = disc
    BY <1>1 DEF EntryUnderstood
  <2>2. CASE e = <<>>
    <3>1. r = e
      BY <1>0, <2>2 DEF RestoreEntry, RestoreLegacy
    <3>2. w = disc
      BY <1>0, <2>1, <2>2, Discovered
    <3> QED BY <1>0, <2>2, <3>1, <3>2
  <2>3. CASE e # <<>>
    <3>1. Len(e) = 1 /\ Loads(e, d) = e[1] /\ WithoutOverride(e[1]) = w /\ ListedComposeFiles(e) = e[1] /\ ~(Len(e) > 1)
      BY <1>1, <2>1, <2>3, LoadsOne DEF ListedComposeFiles, Last
    <3>2. w # <<>> => /\ TakeOut(e, FALSE) \in Seq(Seq(Name)) /\ Len(TakeOut(e, FALSE)) <= 1
                      /\ Loads(TakeOut(e, FALSE), d) = w
      BY <3>1, TakeOutLeaves
    <3>3. /\ TakeOut(e, TRUE) \in Seq(Seq(Name)) /\ Len(TakeOut(e, TRUE)) <= 1
          /\ Loads(TakeOut(e, TRUE), d) = w
      BY <3>1, TakeOutLeaves
    <3>4. CASE m.created /\ m.legacy
      <4>1. r = IF w = <<>> THEN IF m.prior = "absent" THEN <<>> ELSE TakeOut(e, TRUE)
                ELSE IF m.prior = "present" THEN TakeOut(e, FALSE)
                ELSE IF LegacyWrote(w) /\ (m.prior = "absent" \/ Lists(e[1])) THEN <<>>
                ELSE TakeOut(e, FALSE)
        BY <2>3, <3>1, <3>4 DEF RestoreEntry, RestoreLegacy
      <4> HIDE DEF r
      <4>2. CASE w = <<>>
        <5>1. m.prior # "absent"
          BY <2>1, <4>2
        <5>2. r = TakeOut(e, TRUE)
          BY <4>1, <4>2, <5>1
        <5> QED BY <3>3, <5>2 DEF r
      <4>3. CASE w # <<>> /\ r = TakeOut(e, FALSE)
        BY <3>2, <4>3 DEF r
      <4>4. CASE w # <<>> /\ r # TakeOut(e, FALSE)
        <5>1. r = <<>> /\ LegacyWrote(w) /\ (m.prior = "absent" \/ Lists(e[1]))
          BY <4>1, <4>4
        <5>2. w = disc
          BY <2>1, <3>1, <3>4, <5>1
        <5> QED BY <1>0, <5>1, <5>2 DEF r
      <4> QED BY <4>2, <4>3, <4>4 DEF r
    <3>5. CASE ~(m.created /\ m.legacy)
      <4>1. r = IF ~m.created THEN TakeOut(e, FALSE)
                ELSE IF w # WithoutOverride(m.written) THEN TakeOut(e, FALSE)
                ELSE <<>>
        BY <2>3, <3>1, <3>5 DEF RestoreEntry
      <4> HIDE DEF r
      <4>2. w # <<>>
        BY <2>1, <3>5
      <4>3. CASE r = TakeOut(e, FALSE)
        BY <3>2, <4>2, <4>3 DEF r
      <4>4. CASE r # TakeOut(e, FALSE)
        <5>1. m.created /\ ~m.legacy /\ r = <<>> /\ w = WithoutOverride(m.written)
          BY <3>5, <4>1, <4>4
        <5>2. w = disc
          BY <2>1, <5>1
        <5> QED BY <1>0, <5>1, <5>2 DEF r
      <4> QED BY <4>3, <4>4
    <3> QED BY <3>4, <3>5
  <2> QED BY <2>2, <2>3
<1>2. CASE ~(Len(e) <= 1)
  <2>1. Len(e) = 2 /\ e[1] = w /\ Lists(e[2]) /\ ~Lists(e[1]) /\ m.created /\ m.legacy
    BY <1>2, LoadsOne DEF EntryUnderstood
  <2>2. AppendedLines(e) = {2} /\ e # <<>>
    <3>1. DOMAIN e = {1, 2} /\ e # <<>>
      BY <2>1
    <3> QED BY <2>1, <3>1 DEF AppendedLines
  <2>3. r = RemoveAt(e, 2)
    BY <2>1, <2>2 DEF RestoreEntry, RestoreLegacy
  <2>4. RemoveAt(e, 2) = <<w>>
    <3>1. SubSeq(e, 1, 1) = <<e[1]>> /\ SubSeq(e, 3, 2) = <<>>
      <4>1. /\ SubSeq(e, 1, 1) \in Seq(Seq(Name)) /\ Len(SubSeq(e, 1, 1)) = 1 /\ SubSeq(e, 1, 1)[1] = e[1]
            /\ SubSeq(e, 3, 2) \in Seq(Seq(Name)) /\ Len(SubSeq(e, 3, 2)) = 0
        BY <2>1, SubSeqProperties
      <4> QED BY <4>1, IsSingle, EmptySeq
    <3>2. RemoveAt(e, 2) = SubSeq(e, 1, 1) \o SubSeq(e, 3, 2)
      BY <2>1 DEF RemoveAt
    <3>3. <<w>> \o <<>> = <<w>>
      BY OneLine, ConcatEmptySeq
    <3> QED BY <2>1, <3>1, <3>2, <3>3
  <2>5. Loads(<<w>>, d) = w /\ <<w>> \in Seq(Seq(Name)) /\ Len(<<w>>) <= 1
    BY OneLine
  <2> QED BY <2>3, <2>4, <2>5
<1> QED BY <1>1, <1>2

\* A restored entry is still understood, by the manifest that another rollback will go by.
LEMMA RestoredUnderstood ==
    ASSUME NEW e \in Seq(Seq(Name)), NEW d, NEW m \in Manifests, NEW w \in Seq(Name), m # NoManifest,
           EntryUnderstood(e, d, m, w), Restorable(e, m), ~Lists(w)
    PROVE  EntryUnderstood(RestoreEntry(e, m), d, m, w)
<1> DEFINE r == RestoreEntry(e, m)
<1>1. Len(r) <= 1 /\ Loads(r, d) = w
  BY RestoreEntryRestores
<1>2. WithoutOverride(w) = w
  BY WithoutOverrideKeeps
<1>3. /\ w = <<>> => m.legacy /\ m.created /\ m.prior # "absent"
      /\ m.created /\ ~m.legacy => WithoutOverride(m.written) = DiscoveredProject(d)
      /\ m.created /\ m.legacy /\ LegacyWrote(w) /\ m.prior = "absent" => w = DiscoveredProject(d)
  BY DEF EntryUnderstood
<1> HIDE DEF r
<1>4. EntryUnderstood(r, d, m, w)
  BY <1>1, <1>2, <1>3 DEF EntryUnderstood
<1> QED BY <1>4 DEF r

\* The override's file has no part in what compose discovers.
LEMMA SameDiscovery ==
    ASSUME NEW d, NEW f, "conv" \in d <=> "conv" \in f
    PROVE  /\ DiscoveredProject(d) = DiscoveredProject(f)
           /\ \A e : Loads(e, d) = Loads(e, f)
           /\ \A e, m, w : EntryUnderstood(e, d, m, w) => EntryUnderstood(e, f, m, w)
<1>1. DiscoveredProject(d) = DiscoveredProject(f)
  BY DEF DiscoveredProject
<1>2. \A e : Loads(e, d) = Loads(e, f)
  BY <1>1 DEF Loads
<1>3. ASSUME NEW e, NEW m, NEW w, EntryUnderstood(e, d, m, w)
      PROVE  EntryUnderstood(e, f, m, w)
  BY <1>1, <1>2, <1>3 DEF EntryUnderstood
<1> QED BY <1>1, <1>2, <1>3

\* No list the operator has added to is one that an old installer wrote.
LEMMA AddedToIsNotLegacy ==
    ASSUME NEW w \in Seq(Name)
    PROVE  /\ Append(w, Named("extra")) \in Seq(Name) /\ Append(w, Named("extra")) # <<>>
           /\ ~LegacyWrote(Append(w, Named("extra"))) /\ ~AllAbsolute(Append(w, Named("extra")))
           /\ <<Named("far")>> \o w \in Seq(Name) /\ <<Named("far")>> \o w # <<>>
           /\ ~LegacyWrote(<<Named("far")>> \o w) /\ ~AllAbsolute(<<Named("far")>> \o w)
<1> DEFINE x == Named("extra")
           f == Named("far")
           a == Append(w, x)
           b == <<f>> \o w
<1>0. /\ x \in Name /\ f \in Name /\ x # Named("base") /\ x # Named("conv") /\ f # Named("base")
      /\ x.abs = FALSE /\ f.abs = FALSE
  BY DEF Named, Name, Files
<1> HIDE DEF x, f
<1>1. /\ a \in Seq(Name) /\ a # <<>> /\ Len(a) = Len(w) + 1 /\ a[Len(w) + 1] = x /\ Len(w) \in Nat
      /\ Len(w) + 1 \in DOMAIN a
  BY <1>0
<1>2. b \in Seq(Name) /\ Len(b) = Len(w) + 1 /\ b[1] = f
  <2>1. <<f>> \in Seq(Name) /\ Len(<<f>>) = 1 /\ <<f>>[1] = f
    BY <1>0
  <2> HIDE DEF b
  <2>2. b \in Seq(Name) /\ Len(b) = 1 + Len(w) /\ b[1] = <<f>>[1]
    <3>1. /\ <<f>> \o w \in Seq(Name) /\ Len(<<f>> \o w) = Len(<<f>>) + Len(w)
          /\ \A i \in 1 .. (Len(<<f>>) + Len(w)) : (<<f>> \o w)[i] = IF i <= Len(<<f>>) THEN <<f>>[i] ELSE w[i - Len(<<f>>)]
      BY <2>1, ConcatProperties
    <3>2. 1 \in 1 .. (Len(<<f>>) + Len(w)) /\ 1 <= Len(<<f>>)
      BY <1>1, <2>1
    <3> QED BY <2>1, <3>1, <3>2 DEF b
  <2> QED BY <1>1, <2>1, <2>2
<1>3. b # <<>> /\ 1 \in DOMAIN b
  BY <1>1, <1>2
<1> HIDE DEF a, b
<1>4. ~LegacyWrote(a)
  <2> SUFFICES ASSUME LegacyWrote(a)  PROVE FALSE
    OBVIOUS
  <2>1. Len(a) <= 2 /\ a[1] = Named("base") /\ (Len(a) = 2 => a[2] = Named("conv"))
    BY DEF LegacyWrote
  <2>2. Len(w) = 0 \/ Len(w) = 1
    <3> DEFINE n == Len(w)
    <3>1. n \in Nat /\ n + 1 <= 2
      BY <1>1, <2>1
    <3> HIDE DEF n
    <3>2. n = 0 \/ n = 1
      BY <3>1
    <3> QED BY <3>2 DEF n
  <2> QED BY <1>0, <1>1, <2>1, <2>2
<1>5. ~LegacyWrote(b)
  BY <1>0, <1>2 DEF LegacyWrote
<1>6. ~AllAbsolute(a) /\ ~AllAbsolute(b)
  BY <1>0, <1>1, <1>2, <1>3 DEF AllAbsolute
<1> QED BY <1>1, <1>2, <1>3, <1>4, <1>5, <1>6 DEF a, b, x, f

\* The operator adds names to what compose loads: still understood, and where it was
\* exactly what they mean, still that.
LEMMA AddingIsUnderstood ==
    ASSUME NEW e \in Seq(Seq(Name)), NEW d, NEW m, NEW w \in Seq(Name), Len(e) <= 1,
           EntryUnderstood(e, d, m, w), NEW l \in Seq(Name), NEW v \in Seq(Name),
           v # <<>>, ~LegacyWrote(v), ~AllAbsolute(v), WithoutOverride(Loads(e, d)) = w => WithoutOverride(l) = v,
           Loads(e, d) = w => l = v
    PROVE  /\ <<l>> \in Seq(Seq(Name)) /\ Len(<<l>>) <= 1 /\ EntryUnderstood(<<l>>, d, m, v)
           /\ Loads(e, d) = w => Loads(<<l>>, d) = v
<1> DEFINE o == <<l>>
<1>1. o \in Seq(Seq(Name)) /\ Len(o) = 1 /\ Loads(o, d) = l
  BY OneLine
<1> HIDE DEF o
<1>2. Len(o) <= 1
  BY <1>1
<1>3. CASE m = NoManifest
  <2>1. Loads(e, d) = w
    BY <1>3 DEF EntryUnderstood
  <2>2. EntryUnderstood(o, d, m, v)
    BY <1>1, <1>2, <1>3, <2>1 DEF EntryUnderstood
  <2> QED BY <1>1, <1>2, <2>2 DEF o
<1>4. CASE m # NoManifest
  <2>1. Len(e) # 2
    <3> DEFINE n == Len(e)
    <3>1. n \in Nat /\ n <= 1
      OBVIOUS
    <3> HIDE DEF n
    <3>2. n # 2
      BY <3>1
    <3> QED BY <3>2 DEF n
  <2>2. /\ WithoutOverride(Loads(e, d)) = w
        /\ m.created /\ ~m.legacy => WithoutOverride(m.written) = DiscoveredProject(d)
    BY <1>4, <2>1 DEF EntryUnderstood
  <2>3. EntryUnderstood(o, d, m, v)
    BY <1>1, <1>2, <1>4, <2>2 DEF EntryUnderstood
  <2> QED BY <1>1, <1>2, <2>3 DEF o
<1> QED BY <1>3, <1>4

\* The elements of a list with a name more.
LEMMA AppendElements ==
    ASSUME NEW t \in Seq(Name), NEW x \in Name
    PROVE  /\ Append(t, x) \in Seq(Name) /\ Append(t, x) # <<>>
           /\ \A i \in DOMAIN Append(t, x) : Append(t, x)[i] = x \/ (i \in DOMAIN t /\ Append(t, x)[i] = t[i])
<1> DEFINE n == Len(t)
<1>1. /\ Append(t, x) \in Seq(Name) /\ Append(t, x) # <<>> /\ n \in Nat
      /\ \A i \in 1 .. n : Append(t, x)[i] = t[i]
      /\ Append(t, x)[n + 1] = x /\ DOMAIN t = 1 .. n /\ DOMAIN Append(t, x) = 1 .. (n + 1)
  BY AppendProperties
<1> HIDE DEF n
<1>2. \A i \in 1 .. (n + 1) : i = n + 1 \/ i \in 1 .. n
  BY <1>1
<1> QED BY <1>1, <1>2

\* An install adds its override to an entry it may add to: the operator's names stay
\* what they were, and an entry that is loaded from anywhere still is.
LEMMA AddOverrideUnderstood ==
    ASSUME NEW e \in Seq(Seq(Name)), NEW d, NEW m \in Manifests, NEW w \in Seq(Name), m # NoManifest, ~m.legacy,
           EntryUnderstood(e, d, m, w), Addable(e), NEW base, e = <<>> => base = DiscoveredProject(d)
    PROVE  /\ AddOverrideEntry(e, base) \in Seq(Seq(Name))
           /\ EntryUnderstood(AddOverrideEntry(e, base), d, m, w)
<1>1. Len(e) <= 1
  BY DEF Addable
<1>2. /\ WithoutOverride(Loads(e, d)) = w
      /\ AllAbsolute(w) => AllAbsolute(Loads(e, d))
      /\ w # <<>>
      /\ m.created => WithoutOverride(m.written) = DiscoveredProject(d)
  BY DEF EntryUnderstood
<1>3. ASSUME NEW l \in Seq(Name), WithoutOverride(l) = w, AllAbsolute(w) => AllAbsolute(l)
      PROVE  <<l>> \in Seq(Seq(Name)) /\ EntryUnderstood(<<l>>, d, m, w)
  <2> DEFINE o == <<l>>
  <2>1. o \in Seq(Seq(Name)) /\ Len(o) = 1 /\ Loads(o, d) = l
    BY OneLine
  <2> HIDE DEF o
  <2>2. Len(o) <= 1
    BY <2>1
  <2>3. EntryUnderstood(o, d, m, w)
    BY <1>2, <1>3, <2>1, <2>2 DEF EntryUnderstood
  <2> QED BY <2>1, <2>3 DEF o
<1>4. /\ Named("bt") \in Name /\ Absolute("bt") \in Name /\ IsOverride(Named("bt")) /\ IsOverride(Absolute("bt"))
      /\ Absolute("bt").abs = TRUE
  BY DEF Named, Absolute, Name, Files, IsOverride
<1>5. CASE e = <<>>
  <2>1. base = DiscoveredProject(d) /\ base \in Seq(Name) /\ w = base /\ ~AllAbsolute(w)
    BY <1>2, <1>5, Discovered DEF Loads
  <2>2. Append(base, Named("bt")) \in Seq(Name) /\ WithoutOverride(Append(base, Named("bt"))) = w
    BY <1>4, <2>1, WithoutOverrideAppend, Discovered, AppendProperties
  <2>3. AddOverrideEntry(e, base) = <<Append(base, Named("bt"))>>
    BY <1>5 DEF AddOverrideEntry
  <2> QED BY <1>3, <2>1, <2>2, <2>3
<1>6. CASE e # <<>> /\ Lists(e[1])
  BY <1>6 DEF AddOverrideEntry
<1>7. CASE e # <<>> /\ ~Lists(e[1])
  <2>1. e[1] \in Seq(Name) /\ Loads(e, d) = e[1]
    BY <1>1, <1>7, LoadsOne
  <2> DEFINE x == IF AllAbsolute(e[1]) THEN Absolute("bt") ELSE Named("bt")
  <2>2. x \in Name /\ IsOverride(x) /\ (AllAbsolute(e[1]) => x.abs)
    BY <1>4
  <2>3. AddOverrideEntry(e, base) = <<Append(e[1], x)>>
    BY <1>7 DEF AddOverrideEntry
  <2> HIDE DEF x
  <2>4. /\ Append(e[1], x) \in Seq(Name) /\ Append(e[1], x) # <<>>
        /\ \A i \in DOMAIN Append(e[1], x) : Append(e[1], x)[i] = x \/ (i \in DOMAIN e[1] /\ Append(e[1], x)[i] = e[1][i])
    BY <2>1, <2>2, AppendElements
  <2>5. WithoutOverride(Append(e[1], x)) = w
    BY <1>2, <2>1, <2>2, WithoutOverrideAppend
  <2>6. AllAbsolute(w) => AllAbsolute(Append(e[1], x))
    BY <1>2, <2>1, <2>2, <2>4 DEF AllAbsolute
  <2> QED BY <1>3, <2>3, <2>4, <2>5, <2>6
<1> QED BY <1>5, <1>6, <1>7

\* Where install has not written the entry yet, and where rollback has restored it.
BeforeEntry == Emptied \cup {"manifest", "clear", "override", "env"}
AfterEntry == {"r_up", "r_lineage", "r_done"}

\* The project's entry is one that install and rollback understand, by the manifest there is.
EntryInv ==
    /\ manifest = NoManifest \/ manifest \in Manifests
    /\ row \in Rows /\ env \in Seq(Seq(Name)) /\ wanted \in Seq(Name)
    /\ {"base", "extra", "far"} \subseteq disk
    /\ \A i \in DOMAIN wanted : wanted[i].file \in disk \ {"bt"}
    /\ EntryUnderstood(env, disk, manifest, wanted)

\* What a command knows of the entry and of the row: the base files of an install that
\* will create the entry are the ones discovery finds, a rollback that has restored the
\* entry left what the operator wants, and the manifest is about the row before it.
CommandInv ==
    /\ cmd.pc \in AfterEntry => Len(env) <= 1 /\ Loads(env, disk) = wanted
    /\ cmd.pc \in BeforeEntry => "base" \in DOMAIN cmd /\ (env = <<>> => cmd.base = DiscoveredProject(disk))
    /\ cmd.pc \in BeforeEntry \ {"manifest"} => ~manifest.legacy
    /\ manifest # NoManifest => before = manifest.row
    /\ last = "rolledBack" => cmd.pc = "idle" /\ manifest = NoManifest /\ row = before

\* A step that leaves the entry alone.
LEMMA EntryStays ==
    ASSUME EntryInv, CommandInv, UNCHANGED <<env, manifest, wanted, before>>, row' \in Rows,
           disk' \in {disk, disk \cup {"bt"}, disk \ {"bt"}},
           cmd'.pc \in AfterEntry => cmd.pc \in AfterEntry,
           cmd'.pc \in BeforeEntry => cmd.pc \in BeforeEntry /\ "base" \in DOMAIN cmd' /\ cmd'.base = cmd.base,
           cmd'.pc \in BeforeEntry \ {"manifest"} => cmd.pc \in BeforeEntry \ {"manifest"},
           last' = "rolledBack" => last = "rolledBack" /\ cmd'.pc = "idle" /\ row' = row
    PROVE  EntryInv' /\ CommandInv'
<1>1. /\ DiscoveredProject(disk') = DiscoveredProject(disk) /\ Loads(env, disk') = Loads(env, disk)
      /\ EntryUnderstood(env, disk', manifest, wanted)
  <2>1. "conv" \in disk <=> "conv" \in disk'
    OBVIOUS
  <2>2. EntryUnderstood(env, disk, manifest, wanted)
    BY DEF EntryInv
  <2> QED BY <2>1, <2>2, SameDiscovery
<1>2. {"base", "extra", "far"} \subseteq disk' /\ \A i \in DOMAIN wanted : wanted[i].file \in disk' \ {"bt"}
  BY DEF EntryInv
<1>3. EntryInv'
  BY <1>1, <1>2 DEF EntryInv
<1>4. CommandInv'
  <2>1. cmd'.pc \in AfterEntry => Len(env') <= 1 /\ Loads(env', disk') = wanted'
    BY <1>1 DEF CommandInv
  <2>2. /\ cmd'.pc \in BeforeEntry => "base" \in DOMAIN cmd' /\ (env' = <<>> => cmd'.base = DiscoveredProject(disk'))
        /\ cmd'.pc \in BeforeEntry \ {"manifest"} => ~manifest'.legacy
    BY <1>1 DEF CommandInv
  <2>3. /\ manifest' # NoManifest => before' = manifest'.row
        /\ last' = "rolledBack" => cmd'.pc = "idle" /\ manifest' = NoManifest /\ row' = before'
    BY DEF CommandInv
  <2> QED BY <2>1, <2>2, <2>3 DEF CommandInv
<1> QED BY <1>3, <1>4

\* None of the names the operator wants is the override.
LEMMA WantedIsTheirs ==
    ASSUME EntryInv
    PROVE  ~Lists(wanted) /\ WithoutOverride(wanted) = wanted
<1>1. wanted \in Seq(Name) /\ ~Lists(wanted)
  BY DEF EntryInv, Lists, IsOverride
<1> QED BY <1>1, WithoutOverrideKeeps

\* A step of install keeps the entry understood: the manifest it saves says what rollback
\* will need, and the override is all it adds.
LEMMA EntryInstall ==
    ASSUME HandoverInv, EntryInv, CommandInv, InstallStep
    PROVE  EntryInv' /\ CommandInv'
<1> USE DEF project, data, machine, operator, At
<1>0. /\ "pc" \in DOMAIN cmd /\ ManifestInv /\ row \in Rows
      /\ cmd.pc \in Emptied \cup {"clear", "manifest"} => {"inv", "epoch", "log", "neo"} \subseteq DOMAIN cmd
  BY DEF HandoverInv, ShapeInv, EntryInv
<1>1. CASE StartInstall
  <2>1. /\ UNCHANGED <<env, disk, row, manifest, wanted, before>> /\ manifest = NoManifest
        /\ cmd'.pc = "manifest" /\ "base" \in DOMAIN cmd' /\ cmd'.base = ProjectFiles(env, disk) /\ last' = "installing"
    BY <1>1 DEF StartInstall
  <2>2. env = <<>> => cmd'.base = DiscoveredProject(disk)
    BY <2>1 DEF ProjectFiles
  <2>3. EntryInv'
    BY <2>1 DEF EntryInv
  <2>4. CommandInv'
    BY <2>1, <2>2 DEF CommandInv, AfterEntry, BeforeEntry, Emptied
  <2> QED BY <2>3, <2>4
<1>2. CASE SaveManifest
  <2>1. /\ UNCHANGED <<env, disk, row, wanted, last>> /\ cmd.pc = "manifest" /\ manifest = NoManifest
        /\ cmd.inv.row = row /\ before' = row /\ cmd'.pc \in {"clear", "override"} /\ Addable(env)
        /\ "base" \in DOMAIN cmd /\ (env = <<>> => cmd.base = DiscoveredProject(disk)) /\ last # "rolledBack"
    BY <1>0, <1>2, GotoMoves DEF SaveManifest, ManifestInv, TakeInventory, CommandInv, BeforeEntry
  <2>2. "base" \in DOMAIN cmd' /\ cmd'.base = cmd.base
    BY <1>0, <1>2, <2>1 DEF SaveManifest, Goto
  <2> DEFINE m == manifest'
             disc == DiscoveredProject(disk)
  <2>3. m = [row |-> row, created |-> env = <<>>, written |-> IF env = <<>> THEN Append(cmd.base, Named("bt")) ELSE <<>>,
             legacy |-> FALSE, prior |-> PriorComposeEntry(env)]
    BY <1>2, <2>1 DEF SaveManifest
  <2>4. Len(env) <= 1 /\ Loads(env, disk) = wanted /\ ~Lists(wanted) /\ WithoutOverride(wanted) = wanted /\ env \in Seq(Seq(Name))
    BY <2>1, WantedIsTheirs DEF EntryInv, EntryUnderstood
  <2>5. wanted # <<>>
    BY <2>1, <2>4, LoadsOne, Discovered DEF Addable
  <2>6. env = <<>> => m.written \in Seq(Name) /\ WithoutOverride(m.written) = disc
    <3> SUFFICES ASSUME env = <<>>  PROVE m.written \in Seq(Name) /\ WithoutOverride(m.written) = disc
      OBVIOUS
    <3>1. m.written = Append(disc, Named("bt")) /\ Named("bt") \in Name /\ IsOverride(Named("bt"))
      BY <2>1, <2>3 DEF Named, Name, Files, IsOverride
    <3> QED BY <3>1, Discovered, WithoutOverrideAppend, AppendProperties
  <2>7. m \in Manifests
    <3>1. m.written \in Seq(Name)
      BY <2>3, <2>6
    <3>2. PriorComposeEntry(env) \in {"absent", "present", "unknown"}
      BY DEF PriorComposeEntry
    <3> QED BY <1>0, <2>3, <3>1, <3>2 DEF Manifests
  <2>8. m # NoManifest /\ m.row = row /\ m.legacy = FALSE /\ (m.created <=> env = <<>>)
    <3>1. m.row = row /\ m.legacy = FALSE /\ (m.created <=> env = <<>>)
      BY <2>3
    <3>2. m.row # "absent"
      BY <1>0, <3>1 DEF Rows
    <3> QED BY <3>1, <3>2 DEF NoManifest
  <2> HIDE DEF m
  <2>9. EntryUnderstood(env, disk, m, wanted)
    BY <2>4, <2>5, <2>6, <2>8 DEF EntryUnderstood
  <2>10. EntryInv'
    BY <2>1, <2>7, <2>9 DEF EntryInv, m
  <2>11. CommandInv'
    BY <2>1, <2>2, <2>8 DEF CommandInv, AfterEntry, BeforeEntry, Emptied, m
  <2> QED BY <2>10, <2>11
<1>3. CASE WriteEnv
  <2>1. /\ UNCHANGED <<disk, row, manifest, wanted, before, last>> /\ cmd.pc = "env" /\ cmd'.pc = "row"
        /\ manifest # NoManifest /\ Addable(env) /\ env' = AddOverrideEntry(env, cmd.base)
    BY <1>0, <1>3, GotoMoves DEF WriteEnv, WriteEnvFile, ManifestInv, Switched
  <2>2. ~manifest.legacy /\ (env = <<>> => cmd.base = DiscoveredProject(disk)) /\ last # "rolledBack"
    BY <2>1 DEF CommandInv, BeforeEntry
  <2>3. /\ env \in Seq(Seq(Name)) /\ manifest \in Manifests /\ wanted \in Seq(Name)
        /\ EntryUnderstood(env, disk, manifest, wanted)
    BY <2>1 DEF EntryInv
  <2>4. env' \in Seq(Seq(Name)) /\ EntryUnderstood(env', disk, manifest, wanted)
    BY <2>1, <2>2, <2>3, AddOverrideUnderstood
  <2>5. EntryInv'
    BY <2>1, <2>4 DEF EntryInv
  <2>6. CommandInv'
    BY <2>1, <2>2 DEF CommandInv, AfterEntry, BeforeEntry, Emptied
  <2> QED BY <2>5, <2>6
<1>4. ASSUME NEW to, Goto(to), cmd.pc # "idle", to \notin AfterEntry \cup {"manifest"}, last' = last,
             UNCHANGED <<env, manifest, wanted, before>>, row' \in Rows, disk' \in {disk, disk \cup {"bt"}},
             to \in BeforeEntry => cmd.pc \in BeforeEntry \ {"manifest"}
      PROVE  EntryInv' /\ CommandInv'
  <2>1. cmd'.pc = to /\ last # "rolledBack"
    BY <1>4, GotoMoves DEF CommandInv
  <2>2. to \in BeforeEntry => "base" \in DOMAIN cmd' /\ cmd'.base = cmd.base
    BY <1>0, <1>4 DEF Goto, CommandInv
  <2> QED BY <1>4, <2>1, <2>2, EntryStays
<1>5. CASE LookBefore \/ CountNeo4j
  <2>1. /\ UNCHANGED <<env, disk, row, manifest, wanted, before, last>> /\ cmd.pc \in {"look", "countNeo"}
        /\ cmd'.pc \in {"start", "countPg"} /\ last # "rolledBack"
    BY <1>0, <1>5 DEF LookBefore, CountNeo4j, CommandInv
  <2>2. cmd.pc \in BeforeEntry \ {"manifest"} /\ cmd'.pc \notin AfterEntry
    BY <2>1 DEF BeforeEntry, Emptied, AfterEntry
  <2>3. "base" \in DOMAIN cmd' /\ cmd'.base = cmd.base
    BY <1>5, <2>2 DEF LookBefore, CountNeo4j, CommandInv
  <2> QED BY <1>0, <2>1, <2>2, <2>3, EntryStays
<1>6. CASE VerifyInstall
  <2>1. UNCHANGED <<env, disk, row, manifest, wanted, before>> /\ cmd'.pc = "idle" /\ last' = "installed"
    BY <1>6 DEF VerifyInstall, Idle
  <2> QED BY <1>0, <2>1, EntryStays DEF AfterEntry, BeforeEntry, Emptied
<1>7. CASE CheckPostgresGraphEmpty \/ StartNeoToPG \/ WaitUntilIdle \/ SwitchToPG \/ CheckEpoch \/ CountPostgres
           \/ CheckMigratorLog \/ WriteOverride \/ SetRow \/ InstallEndsLineage \/ InstallUp
  <2> USE <1>0, <1>4 DEF AfterEntry, BeforeEntry, Emptied, Rows
  <2>1. CASE CheckPostgresGraphEmpty
    BY <2>1 DEF CheckPostgresGraphEmpty
  <2>2. CASE StartNeoToPG \/ WaitUntilIdle
    BY <2>2 DEF StartNeoToPG, WaitUntilIdle
  <2>3. CASE SwitchToPG \/ CheckEpoch
    BY <2>3 DEF SwitchToPG, CheckEpoch
  <2>4. CASE CountPostgres \/ CheckMigratorLog
    BY <2>4 DEF CountPostgres, CheckMigratorLog
  <2>5. CASE WriteOverride \/ SetRow
    BY <2>5 DEF WriteOverride, SetRow
  <2>6. CASE InstallEndsLineage \/ InstallUp
    BY <2>6 DEF InstallEndsLineage, InstallUp
  <2> QED BY <1>7, <2>1, <2>2, <2>3, <2>4, <2>5, <2>6
<1> QED BY <1>1, <1>2, <1>3, <1>5, <1>6, <1>7 DEF InstallStep

\* A step of rollback keeps it understood: what it restores is what the operator wants,
\* and the manifest that says how goes last.
LEMMA EntryRollback ==
    ASSUME HandoverInv, EntryInv, CommandInv, RollbackStep \/ Fail
    PROVE  EntryInv' /\ CommandInv'
<1> USE DEF project, data, machine, operator, At
<1>0. "pc" \in DOMAIN cmd /\ ManifestInv /\ row \in Rows
  BY DEF HandoverInv, ShapeInv, EntryInv
<1>1. ASSUME UNCHANGED <<env, manifest, wanted, before>>, row' \in Rows, disk' \in {disk, disk \ {"bt"}},
             cmd'.pc \notin BeforeEntry, cmd'.pc \in AfterEntry => cmd.pc \in AfterEntry, last' # "rolledBack"
      PROVE  EntryInv' /\ CommandInv'
  BY <1>1, EntryStays
<1>2. cmd.pc # "idle" => last # "rolledBack"
  BY DEF CommandInv
<1>3. CASE StartRollback
  BY <1>0, <1>1, <1>3 DEF StartRollback, BeforeEntry, Emptied, AfterEntry
<1>4. CASE RestoreRow
  <2>1. /\ UNCHANGED <<env, disk, manifest, wanted, before, last>> /\ cmd'.pc = "r_override" /\ row' = manifest.row
        /\ cmd.pc # "idle" /\ manifest # NoManifest
    BY <1>0, <1>4, GotoMoves DEF RestoreRow, ManifestInv
  <2>2. manifest.row \in Rows
    BY <2>1 DEF EntryInv, Manifests
  <2> QED BY <1>1, <1>2, <2>1, <2>2 DEF BeforeEntry, Emptied, AfterEntry
<1>5. CASE RemoveOverride
  <2>1. /\ UNCHANGED <<env, row, manifest, wanted, before, last>> /\ cmd'.pc = "r_env" /\ disk' = disk \ {"bt"}
        /\ cmd.pc # "idle"
    BY <1>5, GotoMoves DEF RemoveOverride
  <2> QED BY <1>0, <1>1, <1>2, <2>1 DEF BeforeEntry, Emptied, AfterEntry
<1>6. CASE RestoreEnv
  <2>1. /\ UNCHANGED <<disk, row, manifest, wanted, before, last>> /\ cmd'.pc = "r_up" /\ cmd.pc = "r_env"
        /\ env' = RestoreEntry(env, manifest) /\ Restorable(env, manifest) /\ manifest # NoManifest
    BY <1>0, <1>6, GotoMoves DEF RestoreEnv, WriteEnvFile, ManifestInv, Restored
  <2>2. /\ env \in Seq(Seq(Name)) /\ manifest \in Manifests /\ wanted \in Seq(Name)
        /\ EntryUnderstood(env, disk, manifest, wanted) /\ ~Lists(wanted)
    BY <2>1, WantedIsTheirs DEF EntryInv
  <2>3. env' \in Seq(Seq(Name)) /\ Len(env') <= 1 /\ Loads(env', disk) = wanted
    BY <2>1, <2>2, RestoreEntryRestores
  <2>4. EntryUnderstood(env', disk, manifest, wanted)
    BY <2>1, <2>2, RestoredUnderstood
  <2>5. EntryInv'
    BY <2>1, <2>3, <2>4 DEF EntryInv
  <2>6. CommandInv'
    BY <1>2, <2>1, <2>3 DEF CommandInv, AfterEntry, BeforeEntry, Emptied
  <2> QED BY <2>5, <2>6
<1>7. CASE RollbackUp \/ RollbackEndsLineage
  <2>1. /\ UNCHANGED <<env, disk, row, manifest, wanted, before, last>> /\ cmd'.pc \in {"r_lineage", "r_done"}
        /\ cmd.pc \in AfterEntry /\ cmd.pc # "idle"
    BY <1>7, GotoMoves DEF RollbackUp, RollbackEndsLineage, AfterEntry
  <2> QED BY <1>0, <1>1, <1>2, <2>1 DEF BeforeEntry, Emptied
<1>8. CASE RollbackUpFails
  <2>1. UNCHANGED <<env, disk, row, manifest, wanted, before>> /\ cmd'.pc = "idle" /\ last' = "failed"
    BY <1>8 DEF RollbackUpFails, Idle
  <2> QED BY <1>0, <1>1, <2>1 DEF BeforeEntry, Emptied, AfterEntry
<1>9. CASE FinishRollback
  <2>1. /\ UNCHANGED <<env, disk, row, wanted, before>> /\ cmd.pc = "r_done" /\ cmd'.pc = "idle" /\ last' = "rolledBack"
        /\ manifest' = NoManifest /\ manifest # NoManifest /\ row = manifest.row
    BY <1>0, <1>9 DEF FinishRollback, Idle, ManifestInv, Restored
  <2>2. Len(env) <= 1 /\ Loads(env, disk) = wanted /\ before = manifest.row
    BY <2>1 DEF CommandInv, AfterEntry
  <2>3. EntryInv'
    BY <2>1, <2>2 DEF EntryInv, EntryUnderstood
  <2>4. CommandInv'
    BY <2>1, <2>2 DEF CommandInv, AfterEntry, BeforeEntry, Emptied
  <2> QED BY <2>3, <2>4
<1>10. CASE Fail
  <2>1. UNCHANGED <<env, disk, row, manifest, wanted, before>> /\ cmd'.pc = "idle" /\ last' # "rolledBack"
    BY <1>10 DEF Fail, Idle
  <2> QED BY <1>0, <1>1, <2>1 DEF BeforeEntry, Emptied, AfterEntry
<1> QED BY <1>3, <1>4, <1>5, <1>6, <1>7, <1>8, <1>9, <1>10 DEF RollbackStep

\* What the operator adds is one of the files there are, and no override.
LEMMA AddedIsTheirs ==
    ASSUME EntryInv
    PROVE  /\ \A i \in DOMAIN Append(wanted, Named("extra")) : Append(wanted, Named("extra"))[i].file \in disk \ {"bt"}
           /\ \A i \in DOMAIN (<<Named("far")>> \o wanted) : (<<Named("far")>> \o wanted)[i].file \in disk \ {"bt"}
<1>0. /\ wanted \in Seq(Name) /\ \A i \in DOMAIN wanted : wanted[i].file \in disk \ {"bt"}
      /\ "extra" \in disk /\ "far" \in disk
  BY DEF EntryInv
<1> DEFINE x == Named("extra")
           f == Named("far")
<1>1. x \in Name /\ f \in Name /\ x.file = "extra" /\ f.file = "far"
  BY DEF Named, Name, Files
<1> HIDE DEF x, f
<1>2. \A i \in DOMAIN Append(wanted, x) : Append(wanted, x)[i].file \in disk \ {"bt"}
  BY <1>0, <1>1, AppendElements
<1>3. \A i \in DOMAIN (<<f>> \o wanted) : (<<f>> \o wanted)[i].file \in disk \ {"bt"}
  <2> DEFINE n == Len(wanted)
  <2>1. <<f>> \in Seq(Name) /\ Len(<<f>>) = 1 /\ <<f>>[1] = f
    BY <1>1, Single
  <2>2. /\ <<f>> \o wanted \in Seq(Name) /\ Len(<<f>> \o wanted) = Len(<<f>>) + n
        /\ \A i \in 1 .. (Len(<<f>>) + n) : (<<f>> \o wanted)[i] = IF i <= Len(<<f>>) THEN <<f>>[i] ELSE wanted[i - Len(<<f>>)]
    BY <1>0, <2>1, ConcatProperties
  <2>3. n \in Nat /\ DOMAIN wanted = 1 .. n /\ DOMAIN (<<f>> \o wanted) = 1 .. (1 + n)
    BY <1>0, <2>1, <2>2
  <2> HIDE DEF n
  <2>4. ASSUME NEW i \in 1 .. (1 + n)
        PROVE  (<<f>> \o wanted)[i].file \in disk \ {"bt"}
    <3>1. CASE i = 1
      <4>1. i \in 1 .. (Len(<<f>>) + n) /\ i <= Len(<<f>>)
        BY <2>1, <2>3, <3>1
      <4>2. (<<f>> \o wanted)[i] = f
        BY <2>1, <2>2, <3>1, <4>1
      <4> QED BY <1>0, <1>1, <4>2
    <3>2. CASE i # 1
      <4>1. i \in 1 .. (Len(<<f>>) + n) /\ ~(i <= Len(<<f>>)) /\ i - Len(<<f>>) = i - 1 /\ i - 1 \in 1 .. n
        BY <2>1, <2>3, <3>2
      <4>2. (<<f>> \o wanted)[i] = wanted[i - 1]
        BY <2>2, <4>1
      <4> QED BY <1>0, <2>3, <4>1, <4>2
    <3> QED BY <3>1, <3>2
  <2> QED BY <2>3, <2>4
<1> QED BY <1>2, <1>3 DEF x, f

\* What goes on meanwhile keeps it: the operator's edits are to their own names, and a
\* backup that is lost makes a rollback ask less of it.
LEMMA EntryMeanwhile ==
    ASSUME HandoverInv, EntryInv, CommandInv, Meanwhile
    PROVE  EntryInv' /\ CommandInv'
<1> USE DEF project, data, machine, operator, At
<1>0. /\ row \in Rows /\ env \in Seq(Seq(Name)) /\ wanted \in Seq(Name) /\ EntryUnderstood(env, disk, manifest, wanted)
      /\ ~Lists(wanted) /\ Named("extra") \in Name /\ Named("far") \in Name
      /\ ~IsOverride(Named("extra")) /\ ~IsOverride(Named("far"))
  BY WantedIsTheirs DEF EntryInv, Named, Name, Files, IsOverride
<1>1. CASE UNCHANGED <<env, disk, row, manifest, wanted, before, cmd, last>>
  BY <1>0, <1>1, EntryStays DEF CommandInv
<1>2. ASSUME NEW l \in Seq(Name), NEW v \in Seq(Name), env' = <<l>>, wanted' = v, Len(env) <= 1,
             v # <<>>, ~LegacyWrote(v), ~AllAbsolute(v), WithoutOverride(Loads(env, disk)) = wanted => WithoutOverride(l) = v,
             Loads(env, disk) = wanted => l = v, \A i \in DOMAIN v : v[i].file \in disk \ {"bt"},
             UNCHANGED <<disk, row, manifest, before, cmd, last>>
      PROVE  EntryInv' /\ CommandInv'
  <2>1. /\ env' \in Seq(Seq(Name)) /\ Len(env') <= 1 /\ EntryUnderstood(env', disk, manifest, v)
        /\ Loads(env, disk) = wanted => Loads(env', disk) = v
    BY <1>0, <1>2, AddingIsUnderstood
  <2>2. EntryInv'
    BY <1>2, <2>1 DEF EntryInv
  <2>3. env' # <<>>
    BY <1>2, Single
  <2>4. CommandInv'
    BY <1>2, <2>1, <2>3 DEF CommandInv
  <2> QED BY <2>2, <2>4
<1>3. CASE OperatorAddsFile
  <2>1. /\ Len(env) <= 1 /\ env' = <<Append(Loads(env, disk), Named("extra"))>> /\ wanted' = Append(wanted, Named("extra"))
        /\ UNCHANGED <<disk, row, manifest, before, cmd, last>>
    BY <1>3 DEF OperatorAddsFile
  <2>2. Loads(env, disk) \in Seq(Name)
    BY <1>0, LoadsOne
  <2>3. /\ Append(Loads(env, disk), Named("extra")) \in Seq(Name)
        /\ WithoutOverride(Append(Loads(env, disk), Named("extra"))) = Append(WithoutOverride(Loads(env, disk)), Named("extra"))
    BY <1>0, <2>2, AppendProperties, WithoutOverrideAppend
  <2>4. /\ wanted' \in Seq(Name) /\ wanted' # <<>> /\ ~LegacyWrote(wanted') /\ ~AllAbsolute(wanted')
        /\ \A i \in DOMAIN wanted' : wanted'[i].file \in disk \ {"bt"}
    BY <1>0, <2>1, AddedToIsNotLegacy, AddedIsTheirs
  <2> QED BY <1>2, <2>1, <2>3, <2>4
<1>4. CASE OperatorPutsFirst
  <2>1. /\ Len(env) = 1 /\ env' = <<<<Named("far")>> \o env[1]>> /\ wanted' = <<Named("far")>> \o wanted
        /\ UNCHANGED <<disk, row, manifest, before, cmd, last>>
    BY <1>4 DEF OperatorPutsFirst
  <2>2. Len(env) <= 1 /\ env # <<>>
    BY <2>1
  <2>3. Loads(env, disk) = env[1] /\ env[1] \in Seq(Name)
    BY <1>0, <2>2, LoadsOne
  <2>4. /\ <<Named("far")>> \o env[1] \in Seq(Name)
        /\ WithoutOverride(<<Named("far")>> \o env[1]) = <<Named("far")>> \o WithoutOverride(env[1])
    BY <1>0, <2>3, AddedToIsNotLegacy, WithoutOverridePrepend
  <2>5. /\ wanted' \in Seq(Name) /\ wanted' # <<>> /\ ~LegacyWrote(wanted') /\ ~AllAbsolute(wanted')
        /\ \A i \in DOMAIN wanted' : wanted'[i].file \in disk \ {"bt"}
    BY <1>0, <2>1, AddedToIsNotLegacy, AddedIsTheirs
  <2> QED BY <1>2, <2>1, <2>2, <2>3, <2>4, <2>5
<1>5. CASE OperatorKeepsOwnLine
  <2>1. Len(env) = 2 /\ env' = <<env[1]>> /\ UNCHANGED <<disk, row, manifest, wanted, before, cmd, last>>
    BY <1>5 DEF OperatorKeepsOwnLine
  <2>2. ~(Len(env) <= 1)
    BY <2>1
  <2>3. manifest # NoManifest /\ env[1] = wanted /\ manifest.created /\ manifest.legacy /\ manifest.prior # "absent"
    BY <1>0, <2>2 DEF EntryUnderstood
  <2>4. env' \in Seq(Seq(Name)) /\ Len(env') = 1 /\ Loads(env', disk) = wanted /\ env' # <<>>
    BY <1>0, <2>1, <2>3, OneLine
  <2>5. Len(env') <= 1
    BY <2>4
  <2>6. EntryUnderstood(env', disk, manifest, wanted)
    BY <1>0, <2>3, <2>4, <2>5, WantedIsTheirs DEF EntryUnderstood
  <2>7. EntryInv'
    BY <2>1, <2>4, <2>6 DEF EntryInv
  <2>8. CommandInv'
    BY <2>1, <2>2, <2>4, <2>5 DEF CommandInv
  <2> QED BY <2>7, <2>8
<1>6. CASE BackupLost
  <2>1. /\ manifest # NoManifest /\ manifest' = [manifest EXCEPT !.prior = "unknown"]
        /\ UNCHANGED <<env, disk, row, wanted, before, cmd, last>> /\ manifest \in Manifests
    BY <1>6 DEF BackupLost, EntryInv
  <2> DEFINE m == manifest'
  <2>2. /\ m \in Manifests /\ m.prior = "unknown" /\ m.row = manifest.row /\ m.created = manifest.created
        /\ m.written = manifest.written /\ m.legacy = manifest.legacy
    BY <2>1 DEF Manifests
  <2>3. m # NoManifest
    BY <2>2 DEF Manifests, NoManifest, Rows
  <2> HIDE DEF m
  <2>4. EntryUnderstood(env, disk, m, wanted)
    BY <1>0, <2>1, <2>2, <2>3 DEF EntryUnderstood
  <2>5. EntryInv'
    BY <2>1, <2>2, <2>4 DEF EntryInv, m
  <2>6. CommandInv'
    BY <2>1, <2>2, <2>3 DEF CommandInv, m
  <2> QED BY <2>5, <2>6
<1>7. CASE \E x \in Objects : MigratorImports(x, TRUE) \/ MigratorImports(x, FALSE) \/ StockWrites(x) \/ BloodTrailWrites(x)
  BY <1>1, <1>7 DEF MigratorImports, StockWrites, BloodTrailWrites
<1>8. CASE RestartContainer \/ BloodTrailRebuilds \/ SaveSnapshotFile \/ OperatorUp
  BY <1>1, <1>8 DEF RestartContainer, BloodTrailRebuilds, SaveSnapshotFile, OperatorUp
<1> QED BY <1>3, <1>4, <1>5, <1>6, <1>7, <1>8 DEF Meanwhile

\* Every deployment starts with an entry that is understood.
LEMMA EntryInit == Init => EntryInv /\ CommandInv
<1> SUFFICES ASSUME Init  PROVE EntryInv /\ CommandInv
  OBVIOUS
<1>1. PICK d \in Deployments :
        /\ env = d.env /\ disk = d.disk /\ row = d.row /\ manifest = d.manifest /\ wanted = d.wanted /\ before = d.before
        /\ cmd = Idle /\ last = "none"
  BY DEF Init
<1>2. EntryInv
  BY <1>1, InstallerAssumption DEF EntryInv
<1>3. CommandInv
  BY <1>1, InstallerAssumption DEF CommandInv, Idle, AfterEntry, BeforeEntry, Emptied
<1> QED BY <1>2, <1>3

\* The entry stays one that install and rollback understand.
LEMMA EntryInvariant == Spec => [](EntryInv /\ CommandInv)
<1>1. HandoverInv /\ EntryInv /\ CommandInv /\ [Next]_vars => EntryInv' /\ CommandInv'
  <2> SUFFICES ASSUME HandoverInv, EntryInv, CommandInv, [Next]_vars  PROVE EntryInv' /\ CommandInv'
    OBVIOUS
  <2>1. CASE UNCHANGED vars
    BY <2>1, EntryStays DEF vars, EntryInv, CommandInv
  <2> QED BY <2>1, EntryInstall, EntryRollback, EntryMeanwhile DEF Next
<1> QED BY <1>1, EntryInit, HandoverInvariant, PTL DEF Spec

\* A rollback that finishes, of a complete or a partial install by this installer or an
\* old one, after any number of commands that were cut short and any edits the operator
\* made meanwhile, leaves the driver row, the compose files and the image as they were,
\* with the files the operator has added since.
THEOREM EveryRollbackRestores == Spec => []RollbackRestores
<1>1. ImageInv /\ EntryInv /\ CommandInv => RollbackRestores
  <2> SUFFICES ASSUME ImageInv, EntryInv, CommandInv, last = "rolledBack"
               PROVE  /\ manifest = NoManifest /\ "bt" \notin disk /\ row = before
                      /\ Loads(env, disk) = wanted /\ (~told => run.image = "stock")
    BY DEF RollbackRestores
  <2>1. manifest = NoManifest /\ row = before
    BY DEF CommandInv
  <2> QED BY <2>1 DEF ImageInv, EntryInv, EntryUnderstood
<1> QED BY <1>1, EntryInvariant, HandoverInvariant, PTL

\* Install and rollback, wherever they stop, keep the operator's files, their order and
\* the directories they load from; compose can load all of them once no manifest is left.
THEOREM ProjectIsKept == Spec => []ProjectKept
<1>1. EntryInv => ProjectKept
  <2> SUFFICES ASSUME EntryInv, manifest # NoManifest => ~manifest.legacy
               PROVE  /\ WithoutOverride(Loads(env, disk)) = wanted
                      /\ AllAbsolute(wanted) => AllAbsolute(Loads(env, disk))
                      /\ ~OnDisk(Loads(env, disk), disk) => manifest # NoManifest
    BY DEF ProjectKept
  <2>1. CASE manifest = NoManifest
    <3>1. Loads(env, disk) = wanted
      BY <2>1 DEF EntryInv, EntryUnderstood
    <3>2. WithoutOverride(wanted) = wanted /\ OnDisk(wanted, disk)
      BY WantedIsTheirs DEF OnDisk, EntryInv
    <3> QED BY <3>1, <3>2
  <2>2. CASE manifest # NoManifest
    BY <2>2 DEF EntryInv, EntryUnderstood
  <2> QED BY <2>1, <2>2
<1> QED BY <1>1, EntryInvariant, PTL
=============================================================================
