---- MODULE MCUpkeep ----
(* The replica kept current, in four parts: applies, folds and rebuilds beside  *)
(* each other (Compaction), and the queries of one apply beside other writers   *)
(* (ReadBack) of nodes that were there and are re-keyed, of nodes being created *)
(* and of deletes by kind filter.  A behaviour stays in the part it began in;   *)
(* the variables of the other module keep their initial values.                 *)
EXTENDS Compaction, ReadBack, TLC

CONSTANTS c1, c2

VARIABLE part

Node(kinds, oid) == [kinds |-> kinds, oid |-> oid]
FoldRows == {Node({1}, "a"), Node({2}, NoOID)}
SelfLoop == [nodes |-> 1 :> Node({1}, "a"), edges |-> 7 :> [start |-> 1, end |-> 1, kind |-> 5]]
OneNode == [nodes |-> 1 :> Node({1}, "a"), edges |-> Empty]
TwoNodesOneEdge == [nodes |-> 1 :> Node({1}, "a") @@ 2 :> Node({1, 2}, "b"),
                    edges |-> 7 :> [start |-> 1, end |-> 2, kind |-> 5]]

(* Constants that are not named have the value the cfg gives them. *)
Rekeys == INSTANCE ReadBack WITH Base0 <- TwoNodesOneEdge
Births == INSTANCE ReadBack WITH EdgeIds <- {7}, Base0 <- OneNode, ObjectIds <- {"a", "b"}
Filters == INSTANCE ReadBack WITH
    NodeIds <- {1, 2, 3}, Base0 <- TwoNodesOneEdge,
    ObjectIds <- {"a"}, NodeKindSets <- {{1}, {1, 2}},
    NodeCriteria <- {[include |-> {1}, exclude |-> {2}], [include |-> {}, exclude |-> {9}], [include |-> {2}, exclude |-> {}]},
    EdgeCriteria <- {{5, 6}, {6}}

(* What the read-back's theorems assume of its constants, on these three. *)
ASSUME Rekeys!ReadBackConstants /\ Births!ReadBackConstants /\ Filters!ReadBackConstants

UpkeepInit ==
    /\ Init
    /\ \/ part \in {"fold", "rekeys"} /\ Rekeys!ReadInit
       \/ part = "births" /\ Births!ReadInit
       \/ part = "filters" /\ Filters!ReadInit

UpkeepNext ==
    /\ \/ part = "fold" /\ Next /\ UNCHANGED readVars
       \/ part = "rekeys" /\ Rekeys!ReadNext /\ UNCHANGED vars
       \/ part = "births" /\ Births!ReadNext /\ UNCHANGED vars
       \/ part = "filters" /\ Filters!ReadNext /\ UNCHANGED vars
    /\ UNCHANGED part

upkeepVars == <<part, vars, readVars>>
UpkeepSpec == UpkeepInit /\ [][UpkeepNext]_upkeepVars

(* The same with an object id that passes from one node to another. *)
Moves == INSTANCE ReadBack WITH EdgeIds <- {7}, Base0 <- OneNode, ObjectIdsMove <- TRUE
MovesInit == part = "moves" /\ Init /\ Moves!ReadInit
MovesSpec == MovesInit /\ [][Moves!ReadNext /\ UNCHANGED <<part, vars>>]_upkeepVars

Interchangeable == Permutations({c1, c2})
-----------------------------------------------------------------------------
(* The white paper: "The replica converges to exactly what PostgreSQL committed *)
(* for the touched keys", the node a re-key leaves under its old object id      *)
(* being the one the upsert meant.                                              *)
MovedMeansCurrent == ReadMeansCurrent
====
