----------------------------- MODULE MCSnapshot -----------------------------
(* The snapshot from its builder to the disk and back, in four parts: saves,     *)
(* removals and crashes on one file (SnapshotStore), many edges packed (packing),*)
(* property bags packed and then damaged (validation), both of SnapshotBase, and *)
(* the file read back word by word (SnapshotFormat).  A behaviour stays in the   *)
(* part it began in; the others' variables keep what they started with.          *)
EXTENDS SnapshotStore, SnapshotFormat, SnapshotBase

CONSTANTS s1, s2, s3

VARIABLE part

Prop(name, kind, num, content) == [name |-> name, kind |-> kind, num |-> num, bytes |-> content]
SomeBags == {<<>>, <<Prop("objectid", "string", 0, <<1, 2>>), Prop("p", "number", 7, <<>>)>>,
             <<Prop("p", "number", 7, <<>>), Prop("objectid", "string", 0, <<1, 2>>)>>,
             <<Prop("q", "array", 0, <<3>>), Prop("p", "string", 0, <<>>)>>}
Edge(id, s, t, k) == [id |-> id, start |-> s, end |-> t, kind |-> k]
ManyEdges == {Edge(i, s, t, k) : i \in {11, 12, 13}, s \in {3, 5, 9}, t \in {3, 5}, k \in {1, 2}}

Packing == INSTANCE SnapshotBase WITH
    DbIds <- {3, 5, 8}, EdgeSlots <- ManyEdges, KindLists <- {<<2>>}, PropBags <- {<<>>},
    MaxEdges <- 3, MaxPropID <- 2, MaxArena <- 3, WordBits <- 2, Corruptions <- {}

\* The validation part: the constants of SnapshotBase itself.
FewEdges == {Edge(11, 3, 5, 1), Edge(12, 5, 5, 1)}
SomeKindLists == {<<>>, <<2, 1>>}
Values == 0 .. 4

NoFile == graph = {} /\ words = <<>> /\ crc = <<>> /\ tail = 0 /\ rd = NewReader

SnapshotInit ==
    /\ Init
    /\ \/ part \in {"store", "packing"} /\ Packing!BaseInit /\ NoFile
       \/ part = "validation" /\ BaseInit /\ NoFile
       \/ part = "format" /\ Packing!BaseInit /\ FormatInit

SnapshotNext ==
    /\ \/ part = "store" /\ Next /\ UNCHANGED <<baseVars, formatVars>>
       \/ part = "packing" /\ Packing!BaseNext /\ UNCHANGED <<vars, formatVars>>
       \/ part = "validation" /\ BaseNext /\ UNCHANGED <<vars, formatVars>>
       \/ part = "format" /\ FormatNext /\ UNCHANGED <<vars, baseVars>>
    /\ UNCHANGED part

SnapshotSpec == SnapshotInit /\ [][SnapshotNext]_<<part, vars, baseVars, formatVars>>

SaveSymmetry == Permutations(Save)
-----------------------------------------------------------------------------
(* Build: a snapshot answers exactly what was staged, in both directions, by  *)
(* edge id, by kind and by property, in whatever order it was staged.         *)
BuiltHoldsStaged ==
    /\ part = "packing" => Packing!HoldsStaged
    /\ part = "validation" => HoldsStaged
=============================================================================
