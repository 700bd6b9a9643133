----------------------------- MODULE Installer -----------------------------
(***************************************************************************)
(* `bloodtrail install` and `bloodtrail rollback` as sequences of steps on  *)
(* one deployment: its .env and compose files, the database_switch row, the *)
(* bloodhound container, the two graphs, the watermark lineage with the     *)
(* snapshot file it vouches for, and the install manifest.  A command may   *)
(* fail, or be killed, before any step; containers restart, BloodHound and  *)
(* BloodTrail write, and the operator edits .env while it runs.             *)
(* docker, compose, BloodHound and its migrator are external: they do what  *)
(* the installer's code relies on.                                          *)
(***************************************************************************)
EXTENDS ComposeEnv

CONSTANTS
    Objects,            \* what the graphs hold
    Deployments,        \* where the system starts: see the deployment records of MCInstaller
    WritesAfterSwitch,  \* BloodHound ingests into PostgreSQL between the migrator's switch and the counts
    MaxCommands, MaxFails, MaxRestarts, MaxEdits

VARIABLES
    env, disk,          \* the .env's COMPOSE_FILE lines; the compose files there are
    row,                \* the database_switch row, "none" without one
    conf,               \* bhe_graph_driver of the operator's own files, and whether install may replace the graph
    run,                \* the bloodhound container: image, the driver in use, its epoch
    neo, pg,            \* the two graphs
    mark,               \* PostgreSQL's watermark row: lineage and counter, as one token
    engine, file,       \* BloodTrail's replica and its snapshot file, each with the mark it was read at
    mig, log,           \* BloodHound's migrator: what is left to import; failures in the container's log
    manifest, cmd, last,
    wanted,             \* the names the operator means compose to load
    before,             \* the row before the install the manifest records
    told,               \* rollback left the restart to the operator
    used                \* how much of each bound is spent

vars == <<env, disk, row, conf, run, neo, pg, mark, engine, file, mig, log, manifest, cmd, last, wanted, before, told, used>>
Idle == [pc |-> "idle"]
NoManifest == [row |-> "absent"]
NoFile == [graph |-> {}, mark |-> 0]
NotMigrating == [active |-> FALSE, left |-> {}]

(* The entry e of a project on disk d, by what manifest m says of it, where the operator means compose to *)
(* load w.  Without a manifest it is theirs.  An install leaves one line, with the override in it or not: *)
(* the entry it created names the project it discovered, one it found is nobody's to remove.  v0.1.0 to    *)
(* v0.1.2 took an entry for theirs that was empty, or appended a second line to one that was not.          *)
EntryUnderstood(e, d, m, w) ==
    IF m = NoManifest THEN Len(e) <= 1 /\ Loads(e, d) = w
    ELSE \/ /\ Len(e) <= 1 /\ WithoutOverride(Loads(e, d)) = w
            /\ ~m.legacy => (AllAbsolute(w) => AllAbsolute(Loads(e, d)))
            /\ w = <<>> => m.legacy /\ m.created /\ m.prior # "absent"
            /\ m.created /\ ~m.legacy => WithoutOverride(m.written) = DiscoveredProject(d)
            /\ m.created /\ m.legacy /\ LegacyWrote(w) /\ (m.prior = "absent" \/ Lists(Loads(e, d))) => w = DiscoveredProject(d)
         \/ /\ Len(e) = 2 /\ e[1] = w /\ Lists(e[2])
            /\ m.created /\ m.legacy /\ m.prior # "absent"
Rows == {"none", "neo4j", "pg", "bloodtrail"}
Manifests == [row : Rows, created : BOOLEAN, written : Seq(Name), legacy : BOOLEAN, prior : {"absent", "present", "unknown"}]

(* Without a manifest no installer has been here; one that has leaves the row it found, the migration's *)
(* or its own, and its image runs by its own row and override.  A deployment that is not on Neo4j, by   *)
(* the row it has now and the one its manifest would restore, keeps nothing there that PostgreSQL lacks. *)
ASSUME InstallerAssumption ==
    /\ IsFiniteSet(Objects)
    /\ \A d \in Deployments :
        LET origin == IF d.manifest = NoManifest THEN d.row ELSE d.manifest.row
            offNeo4j(r) == r # "neo4j" /\ (r = "none" => d.conf.driver # "neo4j")
        IN  /\ d.neo \subseteq Objects /\ d.pg \subseteq Objects
            /\ "row" \in DOMAIN d.manifest /\ origin \in Rows /\ d.row \in Rows
            /\ d.image \in {"stock", "bt"} /\ (d.driver = "bloodtrail" => d.image = "bt")
            /\ d.image = "bt" => d.row = "bloodtrail" /\ "bt" \in d.disk
            /\ d.manifest # NoManifest => d.row \in {d.manifest.row, "pg", "bloodtrail"}
            /\ d.manifest = NoManifest => d.image = "stock" /\ "bt" \notin d.disk
            /\ offNeo4j(origin) => offNeo4j(d.row) /\ d.driver # "neo4j" /\ d.neo \subseteq d.pg
            /\ d.before = origin /\ (d.manifest # NoManifest => d.manifest \in Manifests)
            /\ d.env \in Seq(Seq(Name)) /\ d.wanted \in Seq(Name)
            /\ {"base", "extra", "far"} \subseteq d.disk
            /\ \A i \in DOMAIN d.wanted : d.wanted[i].file \in d.disk \ {"bt"}
            /\ EntryUnderstood(d.env, d.disk, d.manifest, d.wanted)

Fresh == CHOOSE n \in 1..4 : n \notin {mark, engine.mark, file.mark}
(* The lineage ends: nothing read or saved before it is taken for current again. *)
\* Broken on purpose: the watermark row outlives the handover.
KeepLineage == mark' = mark
EndLineage == mark' = Fresh
project == <<env, disk>>
data == <<neo, pg, mark, engine, file>>
machine == <<run, mig, log>>
operator == <<wanted, before, told, conf>>

At(pc) == cmd.pc = pc
Goto(pc) == cmd' = [cmd EXCEPT !.pc = pc]
Installing == cmd.pc \in {"manifest", "clear", "look", "start", "wait", "switch", "epoch", "countNeo", "countPg", "log",
                          "override", "env", "row", "lineage", "up", "verify"}

(* resolveDriver, and what booting an image with it does.  Stock BloodHound has no bloodtrail driver. *)
ResolveDriver(image, r) == IF r # "none" THEN r ELSE IF image = "bt" THEN "bloodtrail" ELSE conf.driver
Boots(image, r) ==
    LET d == ResolveDriver(image, r)
    IN  /\ run' = [image |-> image, driver |-> IF d = "bloodtrail" /\ image = "stock" THEN "dead" ELSE d, epoch |-> 1 - run.epoch]
        /\ engine' = IF d = "bloodtrail" /\ image = "bt"
                     THEN [graph |-> IF file.mark = mark THEN file.graph ELSE pg, mark |-> mark]
                     ELSE [graph |-> {}, mark |-> 0]
        /\ mig' = NotMigrating
(* `up -d` leaves a running container alone when nothing about it changed. *)
ComposeUp(image) ==
    IF run.image = image /\ run.driver # "dead" THEN UNCHANGED <<run, engine, mig, log>>
    ELSE Boots(image, row) /\ log' = 0

TakeInventory == [row |-> row, active |-> ResolveDriver("stock", row)]
ContainerEpoch == run.epoch
CountGraph == Cardinality(pg)
(* Only what the log gained is scanned; a log that is shorter was started over. *)
MigratorFailureInLogs(preLen) == log > (IF preLen > log THEN 0 ELSE preLen)
(* writeEnvFile: staged beside the .env and renamed over it, so no one reads half of it. *)
WriteEnvFile(e) == env' = e

(***************************************************************************)
(* Install.                                                                *)
(***************************************************************************)
(* Everything install learns and refuses before it changes anything. *)
StartInstall ==
    /\ At("idle") /\ used.commands < MaxCommands /\ ~told
    /\ manifest = NoManifest
    /\ StrictlyReadable(env, disk)
    /\ cmd' = [pc |-> "manifest", base |-> ProjectFiles(env, disk), inv |-> TakeInventory, epoch |-> 0, log |-> 0, neo |-> 0]
    /\ used' = [used EXCEPT !.commands = @ + 1]
    /\ last' = "installing"
    /\ UNCHANGED <<project, row, data, machine, manifest, operator>>

(* The backup, then the manifest: from here a rollback can find what to undo. *)
SaveManifest ==
    /\ At("manifest") /\ Addable(env)
    /\ manifest' = [row |-> cmd.inv.row, created |-> env = <<>>,
                    written |-> IF env = <<>> THEN Append(cmd.base, Named("bt")) ELSE <<>>,
                    legacy |-> FALSE, prior |-> PriorComposeEntry(env)]
    /\ before' = cmd.inv.row
    /\ Goto(IF cmd.inv.active = "neo4j" THEN "clear" ELSE "override")
    /\ UNCHANGED <<project, row, data, machine, last, wanted, told, conf, used>>

\* Broken on purpose: a graph an earlier migration left is migrated onto.
CheckNotAsked ==
    /\ At("clear")
    /\ Goto("look")
    /\ UNCHANGED <<project, row, data, machine, manifest, last, operator, used>>
(* checkPostgresGraphEmpty; without the flag a graph that is there stops the install (Fail). *)
CheckPostgresGraphEmpty ==
    /\ At("clear") /\ (pg = {} \/ conf.replace)
    /\ pg' = {}
    /\ IF pg = {} THEN UNCHANGED mark ELSE EndLineage
    /\ Goto("look")
    /\ UNCHANGED <<project, row, neo, engine, file, machine, manifest, last, operator, used>>
LookBefore ==
    /\ At("look")
    /\ cmd' = [cmd EXCEPT !.pc = "start", !.epoch = ContainerEpoch, !.log = log]
    /\ UNCHANGED <<project, row, data, machine, manifest, last, operator, used>>
StartNeoToPG ==
    /\ At("start") /\ run.driver # "dead"
    /\ mig' = [active |-> TRUE, left |-> neo]
    /\ Goto("wait")
    /\ UNCHANGED <<project, row, data, run, log, manifest, last, operator, used>>
WaitUntilIdle ==
    /\ At("wait") /\ ~mig.active
    /\ Goto("switch")
    /\ UNCHANGED <<project, row, data, machine, manifest, last, operator, used>>
(* The live process changes drivers as the row is written. *)
SwitchToPG ==
    /\ At("switch") /\ run.driver # "dead"
    /\ row' = "pg" /\ run' = [run EXCEPT !.driver = "pg"]
    /\ Goto("epoch")
    /\ UNCHANGED <<project, data, mig, log, manifest, last, operator, used>>
CheckEpoch ==
    /\ At("epoch") /\ ContainerEpoch = cmd.epoch
    /\ Goto("countNeo")
    /\ UNCHANGED <<project, row, data, machine, manifest, last, operator, used>>
CountNeo4j ==
    /\ At("countNeo")
    /\ cmd' = [cmd EXCEPT !.pc = "countPg", !.neo = Cardinality(neo)]
    /\ UNCHANGED <<project, row, data, machine, manifest, last, operator, used>>
CountPostgres ==
    /\ At("countPg") /\ CountGraph >= cmd.neo
    /\ Goto("log")
    /\ UNCHANGED <<project, row, data, machine, manifest, last, operator, used>>
CheckMigratorLog ==
    /\ At("log") /\ ~MigratorFailureInLogs(cmd.log)
    /\ Goto("override")
    /\ UNCHANGED <<project, row, data, machine, manifest, last, operator, used>>

WriteOverride ==
    /\ At("override")
    /\ disk' = disk \cup {"bt"}
    /\ Goto("env")
    /\ UNCHANGED <<env, row, data, machine, manifest, last, operator, used>>
(* Read again: whatever the operator changed meanwhile stays. *)
WriteEnv ==
    /\ At("env") /\ Addable(env)
    /\ WriteEnvFile(AddOverrideEntry(env, cmd.base))
    /\ Goto("row")
    /\ UNCHANGED <<disk, row, data, machine, manifest, last, operator, used>>
SetRow ==
    /\ At("row")
    /\ row' = "bloodtrail"
    /\ Goto("lineage")
    /\ UNCHANGED <<project, data, machine, manifest, last, operator, used>>
InstallEndsLineage ==
    /\ At("lineage")
    /\ EndLineage
    /\ Goto("up")
    /\ UNCHANGED <<project, row, neo, pg, engine, file, machine, manifest, last, operator, used>>
InstallUp ==
    /\ At("up")
    /\ ComposeUp("bt")
    /\ Goto("verify")
    /\ UNCHANGED <<project, row, neo, pg, mark, file, manifest, last, operator, used>>
(* checkDriverSetting and the driver's log line; the smoke test changes nothing but the graph. *)
VerifyInstall ==
    /\ At("verify") /\ ResolveDriver("bt", row) = "bloodtrail" /\ run.driver = "bloodtrail"
    /\ cmd' = Idle /\ last' = "installed"
    /\ UNCHANGED <<project, row, data, machine, manifest, operator, used>>

(***************************************************************************)
(* Rollback: it goes by the manifest, and is rerun until it finishes.       *)
(***************************************************************************)
StartRollback ==
    /\ At("idle") /\ used.commands < MaxCommands
    /\ manifest # NoManifest /\ Restorable(env, manifest)
    /\ cmd' = [pc |-> "r_row", elsewhere |-> RestoredElsewhere(env, manifest, disk)]
    /\ used' = [used EXCEPT !.commands = @ + 1]
    /\ last' = "rollingBack"
    /\ UNCHANGED <<project, row, data, machine, manifest, operator>>
RestoreRow ==
    /\ At("r_row")
    /\ row' = manifest.row
    /\ Goto("r_override")
    /\ UNCHANGED <<project, data, machine, manifest, last, operator, used>>
RemoveOverride ==
    /\ At("r_override")
    /\ disk' = disk \ {"bt"}
    /\ Goto("r_env")
    /\ UNCHANGED <<env, row, data, machine, manifest, last, operator, used>>
RestoreEnv ==
    /\ At("r_env") /\ Restorable(env, manifest)
    /\ WriteEnvFile(RestoreEntry(env, manifest))
    /\ Goto("r_up")
    /\ UNCHANGED <<disk, row, data, machine, manifest, last, operator, used>>
(* The override names the image, where its file is there to be read. *)
Image(names) == IF Lists(names) /\ "bt" \in disk THEN "bt" ELSE "stock"
RollbackUp ==
    /\ At("r_up")
    /\ IF cmd.elsewhere THEN UNCHANGED <<engine, machine>> ELSE ComposeUp(Image(ForgivingFiles(env, disk)))
    /\ Goto("r_lineage")
    /\ UNCHANGED <<project, row, neo, pg, mark, file, manifest, last, operator, used>>
(* `up` reported a failure, having started the container or not: the lineage ends all the same. *)
RollbackUpFails ==
    /\ At("r_up") /\ ~cmd.elsewhere /\ used.fails < MaxFails
    /\ EndLineage
    /\ UNCHANGED <<engine, machine>> \/ ComposeUp(Image(ForgivingFiles(env, disk)))
    /\ cmd' = Idle /\ last' = "failed"
    /\ used' = [used EXCEPT !.fails = @ + 1]
    /\ UNCHANGED <<project, row, neo, pg, file, manifest, operator>>
RollbackEndsLineage ==
    /\ At("r_lineage")
    /\ EndLineage
    /\ Goto("r_done")
    /\ UNCHANGED <<project, row, neo, pg, engine, file, machine, manifest, last, operator, used>>
FinishRollback ==
    /\ At("r_done") /\ (cmd.elsewhere \/ run.driver # "dead")
    /\ manifest' = NoManifest
    /\ told' = cmd.elsewhere
    /\ cmd' = Idle /\ last' = "rolledBack"
    /\ UNCHANGED <<project, row, data, machine, wanted, before, conf, used>>

(* Any step may fail, be refused, or never be reached because the command was killed. *)
Fail ==
    /\ ~At("idle") /\ used.fails < MaxFails
    /\ cmd' = Idle
    /\ last' = IF Installing THEN "failedInstall" ELSE "failed"
    /\ used' = [used EXCEPT !.fails = @ + 1]
    /\ UNCHANGED <<project, row, data, machine, manifest, operator>>

(***************************************************************************)
(* The deployment meanwhile.                                               *)
(***************************************************************************)
MigratorImports(x, failing) ==
    /\ mig.active /\ x \in mig.left
    /\ mig' = [active |-> mig.left # {x}, left |-> mig.left \ {x}]
    /\ pg' = IF failing THEN pg ELSE pg \cup {x}
    /\ log' = IF failing THEN log + 1 ELSE log
    /\ UNCHANGED <<project, row, conf, run, neo, mark, engine, file, manifest, cmd, last, wanted, before, told, used>>
RestartContainer ==
    /\ used.restarts < MaxRestarts
    /\ Boots(run.image, row)
    /\ used' = [used EXCEPT !.restarts = @ + 1]
    /\ UNCHANGED <<project, row, neo, pg, mark, file, log, manifest, cmd, last, operator>>

Migrating == cmd.pc \in {"look", "start", "wait", "switch", "epoch", "countNeo", "countPg", "log"}
StockWrites(x) ==
    /\ x \notin neo \cup pg
    /\ \/ run.driver = "neo4j" /\ neo' = neo \cup {x} /\ UNCHANGED pg
       \/ /\ run.driver = "pg" /\ (Migrating => WritesAfterSwitch)
          /\ pg' = pg \cup {x} /\ UNCHANGED neo
    /\ UNCHANGED <<project, row, mark, engine, file, machine, manifest, cmd, last, operator, used>>
BloodTrailWrites(x) ==
    /\ run.driver = "bloodtrail" /\ x \notin neo \cup pg
    /\ pg' = pg \cup {x} /\ mark' = Fresh
    /\ engine' = [graph |-> engine.graph \cup {x}, mark |-> IF engine.mark = mark THEN mark' ELSE engine.mark]
    /\ UNCHANGED <<project, row, neo, file, machine, manifest, cmd, last, operator, used>>
BloodTrailRebuilds ==
    /\ run.driver = "bloodtrail" /\ engine.mark # mark
    /\ engine' = [graph |-> pg, mark |-> mark]
    /\ UNCHANGED <<project, row, neo, pg, mark, file, machine, manifest, cmd, last, operator, used>>
SaveSnapshotFile ==
    /\ run.driver = "bloodtrail" /\ engine.mark = mark
    /\ file' = engine
    /\ UNCHANGED <<project, row, neo, pg, mark, engine, machine, manifest, cmd, last, operator, used>>

(* The operator's own `docker compose up -d`; a failed install asks for a rollback first. *)
OperatorUp ==
    /\ At("idle") /\ last # "failedInstall"
    /\ OnDisk(Loads(env, disk), disk)
    /\ ComposeUp(Image(Loads(env, disk)))
    /\ told' = FALSE
    /\ UNCHANGED <<project, row, neo, pg, mark, file, manifest, cmd, last, wanted, before, conf, used>>
Edit == used.edits < MaxEdits /\ used' = [used EXCEPT !.edits = @ + 1]
OperatorAddsFile ==
    /\ Edit /\ Len(env) <= 1 /\ "base" \in ToSet(FilesOf(Loads(env, disk)))
    /\ env' = <<Append(Loads(env, disk), Named("extra"))>>
    /\ wanted' = Append(wanted, Named("extra"))
    /\ UNCHANGED <<disk, row, data, machine, manifest, cmd, last, before, told, conf>>
OperatorPutsFirst ==
    /\ Edit /\ Len(env) = 1 /\ manifest # NoManifest /\ "base" \in ToSet(FilesOf(env[1]))
    /\ env' = <<<<Named("far")>> \o env[1]>>
    /\ wanted' = <<Named("far")>> \o wanted
    /\ UNCHANGED <<disk, row, data, machine, manifest, cmd, last, before, told, conf>>
OperatorKeepsOwnLine ==
    /\ Edit /\ Len(env) = 2
    /\ env' = <<env[1]>>
    /\ UNCHANGED <<disk, row, data, machine, manifest, cmd, last, operator>>
BackupLost ==
    /\ Edit /\ manifest # NoManifest /\ manifest.legacy
    /\ manifest' = [manifest EXCEPT !.prior = "unknown"]
    /\ UNCHANGED <<project, row, data, machine, cmd, last, operator>>

Init == \E d \in Deployments :
    /\ env = d.env /\ disk = d.disk /\ row = d.row /\ conf = d.conf /\ neo = d.neo /\ pg = d.pg
    /\ run = [image |-> d.image, driver |-> d.driver, epoch |-> 0]
    /\ mark = 1 /\ engine = [graph |-> IF d.driver = "bloodtrail" THEN d.pg ELSE {}, mark |-> IF d.driver = "bloodtrail" THEN 1 ELSE 0]
    /\ file = NoFile /\ mig = NotMigrating /\ log = 0
    /\ manifest = d.manifest /\ cmd = Idle /\ last = "none"
    /\ wanted = d.wanted /\ before = d.before /\ told = FALSE
    /\ used = [commands |-> 0, fails |-> 0, restarts |-> 0, edits |-> 0]

InstallStep ==
    \/ StartInstall \/ SaveManifest \/ CheckPostgresGraphEmpty \/ LookBefore \/ StartNeoToPG \/ WaitUntilIdle \/ SwitchToPG
    \/ CheckEpoch \/ CountNeo4j \/ CountPostgres \/ CheckMigratorLog \/ WriteOverride \/ WriteEnv \/ SetRow
    \/ InstallEndsLineage \/ InstallUp \/ VerifyInstall
RollbackStep ==
    \/ StartRollback \/ RestoreRow \/ RemoveOverride \/ RestoreEnv \/ RollbackUp \/ RollbackUpFails
    \/ RollbackEndsLineage \/ FinishRollback
Meanwhile ==
    \/ \E x \in Objects : MigratorImports(x, TRUE) \/ MigratorImports(x, FALSE) \/ StockWrites(x) \/ BloodTrailWrites(x)
    \/ RestartContainer \/ BloodTrailRebuilds \/ SaveSnapshotFile
    \/ OperatorUp \/ OperatorAddsFile \/ OperatorPutsFirst \/ OperatorKeepsOwnLine \/ BackupLost
Next == InstallStep \/ RollbackStep \/ Fail \/ Meanwhile
Spec == Init /\ [][Next]_vars

(***************************************************************************)
(* Properties.                                                             *)
(***************************************************************************)
(* A BloodTrail that runs serves what PostgreSQL holds: no snapshot file    *)
(* survives the graph passing to a writer that leaves the counter alone     *)
(* and back, however install and rollback were cut short in between.        *)
ReplicaSurvivesHandovers == run.driver = "bloodtrail" => engine.graph = pg

(* A rollback that finishes, of a complete or a partial install, and after  *)
(* any number of rollbacks that did not, leaves the driver row and the      *)
(* compose files the operator had, with the files they have added since.    *)
RollbackRestores ==
    last = "rolledBack" =>
        /\ manifest = NoManifest /\ "bt" \notin disk
        /\ row = before
        /\ Loads(env, disk) = wanted
        /\ ~told => run.image = "stock"

(* Install and rollback, wherever they stop, leave the operator's own       *)
(* compose commands loading the operator's files in their order, from any   *)
(* directory they could be loaded from before.  Only a rollback stopped     *)
(* between the override and .env leaves a project compose cannot load, and  *)
(* its manifest is there for another rollback.                              *)
ProjectKept ==
    (manifest # NoManifest => ~manifest.legacy) =>
        LET l == Loads(env, disk)
        IN  /\ WithoutOverride(l) = wanted
            /\ AllAbsolute(wanted) => AllAbsolute(l)
            /\ ~OnDisk(l, disk) => manifest # NoManifest

(* BloodTrail is switched on over a PostgreSQL graph that has everything    *)
(* Neo4j had: a migration that dropped something stops the install.         *)
NothingLeftBehind == (cmd.pc \in {"row", "lineage", "up", "verify"} \/ last = "installed") => neo \subseteq pg
=============================================================================
