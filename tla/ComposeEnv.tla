---------------------------- MODULE ComposeEnv -----------------------------
(***************************************************************************)
(* The project's COMPOSE_FILE entry, as install and rollback read and       *)
(* rewrite it.  An .env is the sequence of its COMPOSE_FILE lines, each the *)
(* list of names as written; a name is a file and whether it is spelled as  *)
(* an absolute path.  Without a line compose discovers the base file and    *)
(* the conventional override beside it.                                     *)
(***************************************************************************)
EXTENDS Integers, Sequences, FiniteSets, SequencesExt

Files == {"base", "conv", "extra", "far", "bt"}
Name == [file : Files, abs : BOOLEAN]
Named(f) == [file |-> f, abs |-> FALSE]
Absolute(f) == [file |-> f, abs |-> TRUE]
FilesOf(names) == [i \in DOMAIN names |-> names[i].file]

(* OverrideEntry.Is: the installer's override, however a list spells it. *)
IsOverride(n) == n.file = "bt"
WithoutOverride(names) ==
    LET kept[i \in 0 .. Len(names)] ==
            IF i = 0 THEN <<>>
            ELSE IF IsOverride(names[i]) THEN kept[i - 1] ELSE Append(kept[i - 1], names[i])
    IN  kept[Len(names)]
Lists(names) == \E i \in DOMAIN names : IsOverride(names[i])
AllAbsolute(names) == names # <<>> /\ \A i \in DOMAIN names : names[i].abs

DiscoveredProject(disk) == IF "conv" \in disk THEN <<Named("base"), Named("conv")>> ELSE <<Named("base")>>

(* What docker compose loads for the operator: the last line's list, or what it discovers. *)
ListedComposeFiles(env) == Last(env)
Loads(env, disk) == IF env = <<>> THEN DiscoveredProject(disk) ELSE ListedComposeFiles(env)
OnDisk(names, disk) == \A i \in DOMAIN names : names[i].file \in disk

(* The first file decides compose's project directory: every file but "far" is beside the .env. *)
SameDirectory(names) == names # <<>> => names[1].file # "far"

(* projectFiles, strict: what install goes by, or a refusal. *)
StrictlyReadable(env, disk) ==
    env # <<>> =>
        /\ Len(env) = 1 /\ env[1] # <<>>
        /\ \A i \in DOMAIN env[1] : env[1][i].file \in disk \cup {"bt"}
        /\ \E i \in DOMAIN env[1] : env[1][i].file = "base"
        /\ SameDirectory(env[1])
ProjectFiles(env, disk) ==
    IF env = <<>> THEN DiscoveredProject(disk) ELSE SelectSeq(env[1], LAMBDA n : n.file \in disk)
(* projectFiles, forgiving: rollback skips what is gone and puts the compose file back. *)
ForgivingFiles(env, disk) ==
    IF env = <<>> \/ ListedComposeFiles(env) = <<>> THEN DiscoveredProject(disk)
    ELSE LET there == SelectSeq(ListedComposeFiles(env), LAMBDA n : n.file \in disk)
         IN  IF \E i \in DOMAIN there : there[i].file = "base" THEN there ELSE <<Named("base")>> \o there

(* AddOverrideEntry, on an .env that is strictly readable. *)
\* Broken on purpose: a new entry names the base file and the override only.
AddOverrideBaseOnly(env, baseFiles) ==
    IF env = <<>> THEN <<<<Named("base"), Named("bt")>>>>
    ELSE IF Lists(env[1]) THEN env
    ELSE <<Append(env[1], IF AllAbsolute(env[1]) THEN Absolute("bt") ELSE Named("bt"))>>
AddOverrideEntry(env, baseFiles) ==
    IF env = <<>> THEN <<Append(baseFiles, Named("bt"))>>
    ELSE IF Lists(env[1]) THEN env
    ELSE <<Append(env[1], IF AllAbsolute(env[1]) THEN Absolute("bt") ELSE Named("bt"))>>
Addable(env) == Len(env) <= 1 /\ (env # <<>> => env[1] # <<>>)

(* takeOut: the line goes only when nothing else is listed, unless it is to be kept empty. *)
TakeOut(env, keepLine) ==
    IF Len(env) # 1 \/ ~Lists(env[1]) THEN env
    ELSE IF WithoutOverride(env[1]) = <<>> /\ ~keepLine THEN <<>>
    ELSE <<WithoutOverride(env[1])>>

(* priorComposeEntry: what the .env an install copied says of the entry; a copy that is gone says nothing. *)
PriorComposeEntry(copy) == IF copy = <<>> THEN "absent" ELSE "present"

(* legacyWrote: the list v0.1.0 to v0.1.2 put in an entry they created. *)
LegacyWrote(others) ==
    /\ others # <<>> /\ Len(others) <= 2
    /\ others[1] = Named("base")
    /\ Len(others) = 2 => others[2] = Named("conv")

(* dropAppendedComposeFileLine: the one line an earlier install appended, or a refusal. *)
AppendedLines(env) == {i \in DOMAIN env : Lists(env[i])}
DroppableLine(env) ==
    /\ Cardinality(AppendedLines(env)) = 1 /\ Len(env) = 2
    /\ \A i \in AppendedLines(env) : LegacyWrote(WithoutOverride(env[i]))

(* restoreLegacyComposeFileEntry: prior says whether the backed-up .env had an entry. *)
RestoreLegacy(env, prior) ==
    IF env = <<>> THEN env
    ELSE IF Len(env) > 1 THEN RemoveAt(env, CHOOSE i \in AppendedLines(env) : TRUE)
    ELSE LET others == WithoutOverride(env[1])
         IN  IF others = <<>> THEN IF prior = "absent" THEN <<>> ELSE TakeOut(env, TRUE)
             ELSE IF prior = "present" THEN TakeOut(env, FALSE)
             ELSE IF LegacyWrote(others) /\ (prior = "absent" \/ Lists(env[1])) THEN <<>>
             ELSE TakeOut(env, FALSE)

(* restoreComposeFileEntry: written is the list the install's own entry named; legacy manifests have none. *)
\* Broken on purpose: an entry the install created goes whole, whatever it lists by now.
RestoreEntryWhole(env, m) ==
    IF m.created /\ m.legacy THEN RestoreLegacy(env, m.prior)
    ELSE IF env = <<>> THEN env
    ELSE IF ~m.created THEN TakeOut(env, FALSE)
    ELSE <<>>
RestoreEntry(env, m) ==
    IF m.created /\ m.legacy THEN RestoreLegacy(env, m.prior)
    ELSE IF env = <<>> THEN env
    ELSE IF ~m.created THEN TakeOut(env, FALSE)
    ELSE IF WithoutOverride(ListedComposeFiles(env)) # WithoutOverride(m.written) THEN TakeOut(env, FALSE)
    ELSE <<>>
(* restoredProjectDirectory: compose loads the restored project from another directory than the .env's. *)
RestoredElsewhere(env, m, disk) == ~SameDirectory(Loads(RestoreEntry(env, m), disk))
(* An .env rollback can make something of: one line, or two of which one is an old install's. *)
Restorable(env, m) == Len(env) <= 1 \/ (m.created /\ m.legacy /\ DroppableLine(env))
=============================================================================
