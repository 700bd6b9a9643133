---- MODULE MCInstaller ----
(* Deployments Installer starts from: on Neo4j or PostgreSQL, with and without an entry or a conventional override, *)
(* and the ones an installer of v0.1.0 to v0.1.2 left installed. *)
EXTENDS Installer

B == Named("base")
Before(e, d, r, drv, n, p, rep) ==
    [env |-> e, disk |-> d, row |-> r, conf |-> [driver |-> drv, replace |-> rep], neo |-> n, pg |-> p, image |-> "stock",
     driver |-> IF r = "none" THEN drv ELSE r, manifest |-> NoManifest,
     wanted |-> Loads(e, d), before |-> r]
Plain == {"base", "far", "extra"}
WithConv == Plain \cup {"conv"}

OnPostgres == {Before(e, d, "pg", "neo4j", {}, {1}, FALSE) :
                  e \in {<<>>, <<<<B>>>>, <<<<Absolute("base")>>>>}, d \in {Plain, WithConv}}
OnNeo4j == {Before(<<>>, Plain, r, "neo4j", {1}, p, rep) : r \in {"none", "neo4j"}, p \in {{}, {3}}, rep \in BOOLEAN}

(* What the old installer wrote beside each .env it found; kept is what it took for an entry of its own. *)
Legacy(e, d, w, prior) ==
    [env |-> e, disk |-> d \cup {"bt"}, row |-> "bloodtrail", conf |-> [driver |-> "pg", replace |-> FALSE], neo |-> {}, pg |-> {1},
     image |-> "bt", driver |-> "bloodtrail", before |-> "pg", wanted |-> w,
     manifest |-> [row |-> "pg", created |-> TRUE, written |-> <<>>, legacy |-> TRUE, prior |-> prior]]
OldInstalls ==
    {Legacy(<<<<B, Named("bt")>>>>, Plain, <<B>>, "absent"),
     Legacy(<<<<B, Named("conv"), Named("bt")>>>>, WithConv, <<B, Named("conv")>>, "absent"),
     Legacy(<<<<B, Named("extra")>>, <<B, Named("bt")>>>>, Plain, <<B, Named("extra")>>, "present"),
     Legacy(<<<<Named("bt")>>>>, Plain, <<>>, "present")}

(* No more than five commands, edits and failures in all. *)
CommandsOrEdits == used.commands + used.edits + used.fails <= 5

AllDeployments == OnPostgres \cup OnNeo4j \cup OldInstalls
====
