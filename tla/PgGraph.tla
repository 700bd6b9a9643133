------------------------------ MODULE PgGraph ------------------------------
(***************************************************************************)
(* PostgreSQL's graph as the modules about the view see it: a table has a   *)
(* mark or a row for every id, and is loaded with the rows of Base0.        *)
(***************************************************************************)
EXTENDS Overlay

CONSTANTS NodeIds, EdgeIds,  \* database ids, never reused
          EdgeKinds,         \* kinds of the edges a write may create
          Base0,             \* rows loaded at start: [nodes, edges]
          MaxWrites          \* bound: commits of a behaviour

\* An id not given out yet; Tombstone marks one whose row was deleted.
Unborn == [unborn |-> TRUE]
Rows(table) == Restrict(table, {x \in DOMAIN table : table[x] \notin {Unborn, Tombstone}})
=============================================================================
