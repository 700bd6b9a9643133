--------------------------- MODULE SnapshotFormat ---------------------------
(***************************************************************************)
(* The snapshot file's wire format (snapshot/file.go): what                *)
(* WriteSnapshotFile lays down, and ReadSnapshotFile working through a     *)
(* file of which a word may have changed, or the end may be missing or     *)
(* grown.  A word stands for one wire field or array element; the checksum *)
(* is ideal.  What an accepted file's arrays must satisfy is in            *)
(* SnapshotBase.                                                           *)
(***************************************************************************)
EXTENDS Integers, Sequences

CONSTANTS MaxWord,      \* the largest value of a count or length field
          MaxCount,     \* graphs: nodes, edges, kinds and names at most this many
          MaxReadAlloc, \* readers refuse a single field larger than this
          MaxTable      \* entries a table's id type can tell apart

(* The graphs written are within what a reader takes: the fixed cap on one  *)
(* allocation, the tables' id types and the width of a count.              *)
FormatConstants ==
    /\ MaxWord \in Nat /\ MaxCount \in Nat /\ MaxReadAlloc \in Nat /\ MaxTable \in Nat
    /\ MaxCount < MaxWord /\ MaxCount < MaxReadAlloc /\ MaxCount <= MaxTable
ASSUME FormatAssumption == FormatConstants

Word == 0 .. MaxWord
Magic == 1
Version == 3

\* The file: its words, its checksum (the words it covers) if it has one, and
\* how many words follow that.
VARIABLES graph, words, crc, tail, rd
fileVars == <<graph, words, crc, tail>>
formatVars == <<fileVars, rd>>
-----------------------------------------------------------------------------
(* writeSnapshotBody.  Each section is a field, an array of as many words   *)
(* as an earlier field counts, or a table that opens with its own count.    *)

Sections == <<"version", "header", "n", "e", "k",
              "graphIDs", "outOffsets", "outTargets", "kindOffsets", "nodeKinds", "edgeIDPerm",
              "kindTable", "propNames", "propEntries", "nodeOffsets", "arena",
              "multiGraph", "droppedEdges">>

Zeros(n) == [i \in 1 .. n |-> 0]
Str(n) == <<n>> \o Zeros(n)
Repeat(s, n) == [i \in 1 .. n * Len(s) |-> s[((i - 1) % Len(s)) + 1]]

\* An edge of the graph has a target, a kind and an id of its own; the arrays of
\* the same shape are written the same way and stand for each other.
Encode(section, g) ==
    CASE section = "version" -> <<Version>>
      [] section = "n" -> <<g.n>>
      [] section = "e" -> <<g.e>>
      [] section = "k" -> <<g.k>>
      [] section = "graphIDs" -> Zeros(g.n)
      [] section \in {"outOffsets", "kindOffsets", "nodeOffsets"} -> Zeros(g.n + 1)
      [] section \in {"outTargets", "edgeIDPerm"} -> Zeros(g.e)
      [] section = "nodeKinds" -> Zeros(g.k)
      [] section = "kindTable" -> <<g.kinds>> \o Repeat(<<0>> \o Str(1), g.kinds)
      [] section = "propNames" -> <<g.names>> \o Repeat(Str(1), g.names)
      [] section = "propEntries" -> <<g.names>> \o Zeros(2 * g.names)
      [] section = "arena" -> Str(g.names)
      [] OTHER -> <<0>>

Body(g) ==
    Encode("version", g) \o Encode("header", g) \o Encode("n", g) \o Encode("e", g) \o Encode("k", g)
      \o Encode("graphIDs", g) \o Encode("outOffsets", g) \o Encode("outTargets", g) \o Encode("kindOffsets", g)
      \o Encode("nodeKinds", g) \o Encode("edgeIDPerm", g) \o Encode("kindTable", g) \o Encode("propNames", g)
      \o Encode("propEntries", g) \o Encode("nodeOffsets", g) \o Encode("arena", g)
      \o Encode("multiGraph", g) \o Encode("droppedEdges", g)
WriteSnapshotFile(g) == words = <<Magic>> \o Body(g) /\ crc = <<Body(g)>> /\ tail = 0
-----------------------------------------------------------------------------
(* ReadSnapshotFile, a section at a time, with a sticky error.              *)

NewReader == [pc |-> "magic", at |-> 1, pos |-> 1, left |-> 0, items |-> 0,
              n |-> 0, e |-> 0, k |-> 0, alloc |-> 0]
Fail == [rd EXCEPT !.pc = "rejected"]
HasCrc == crc # <<>>
Size == Len(words) + Len(crc) + tail

\* The field at a place: a word, whatever the bytes after the words say, or
\* nothing at the end of the file.
FieldAt(pos) == IF pos <= Len(words) THEN {words[pos]}
                ELSE IF pos <= Size THEN Word ELSE {}

\* Broken on purpose: only the fixed cap on one allocation.
ClaimByCap(r, n, width) == n <= MaxReadAlloc

\* claim: n elements of this width must fit in what the file has left.
Claim(r, n, width) == n <= MaxReadAlloc /\ r.left >= 0 /\ n <= r.left \div width

Consume(r, n) == [r EXCEPT !.pos = @ + n, !.left = @ - n]
Done(r) == [r EXCEPT !.at = @ + 1]

\* A bulk array is allocated, and then read, only once it is claimed.
ReadArray(r, n, width) ==
    IF Claim(r, n, width) /\ r.pos + n * width <= Size + 1
    THEN Done(Consume([r EXCEPT !.alloc = n * width], n * width))
    ELSE [Fail EXCEPT !.alloc = IF Claim(r, n, width) THEN n * width ELSE 0]

\* n + 1 offsets are counted in a fixed-width word.
PlusOne(n) == (n + 1) % (MaxWord + 1)

\* The magic and the checksum are not part of the byte budget.
ReadMagic ==
    /\ rd.pc = "magic"
    /\ rd' = IF words # <<>> /\ words[1] = Magic
             THEN [rd EXCEPT !.pc = "body", !.pos = 2, !.left = Size - 2]
             ELSE Fail
    /\ UNCHANGED fileVars

Section == Sections[rd.at]
InBody == rd.pc = "body" /\ rd.at <= Len(Sections)

\* A field at EOF fails; a version that is not this one does too.
ReadField(v) ==
    /\ InBody
    /\ Section \in {"version", "header", "n", "e", "k", "multiGraph", "droppedEdges"}
    /\ rd' = IF Section = "version" /\ v # Version THEN Fail
             ELSE LET r == Done(Consume(rd, 1))
                  IN CASE Section = "n" -> [r EXCEPT !.n = v]
                       [] Section = "e" -> [r EXCEPT !.e = v]
                       [] Section = "k" -> [r EXCEPT !.k = v]
                       [] OTHER -> r
    /\ UNCHANGED fileVars

ReadCounted ==
    /\ InBody
    /\ \/ Section = "graphIDs" /\ rd' = ReadArray(rd, rd.n, 1)
       \/ /\ Section \in {"outOffsets", "kindOffsets", "nodeOffsets"}
          /\ rd' = ReadArray(rd, PlusOne(rd.n), 1)
       \/ Section \in {"outTargets", "edgeIDPerm"} /\ rd' = ReadArray(rd, rd.e, 1)
       \/ Section = "nodeKinds" /\ rd' = ReadArray(rd, rd.k, 1)
    /\ UNCHANGED fileVars

\* Entries and the arena open with their count; an entry takes two words.
ReadPrefixed(v) ==
    /\ InBody /\ Section \in {"propEntries", "arena"}
    /\ rd' = ReadArray(Consume(rd, 1), v, IF Section = "propEntries" THEN 2 ELSE 1)
    /\ UNCHANGED fileVars

\* A table's count is held to its id type's range, then claimed at the least
\* its entries take.
EntryWidth == IF Section = "kindTable" THEN 2 ELSE 1
ReadTableCount(v) ==
    /\ InBody /\ Section \in {"kindTable", "propNames"}
    /\ LET r == Consume(rd, 1)
       IN rd' = IF v > MaxTable \/ ~Claim(r, v, EntryWidth) THEN Fail
                ELSE IF v = 0 THEN Done(r)
                ELSE [r EXCEPT !.pc = "table", !.items = v, !.alloc = v * EntryWidth]
    /\ UNCHANGED fileVars

\* One entry: its id if it is a kind, then a length-prefixed name.
ReadTableEntry(v) ==
    /\ rd.pc = "table"
    /\ LET r == Consume(rd, EntryWidth)
           named == ReadArray(r, v, 1)
       IN rd' = IF named.pc = "rejected" THEN named
                ELSE [named EXCEPT !.items = rd.items - 1,
                                   !.pc = IF rd.items = 1 THEN "body" ELSE "table",
                                   !.at = IF rd.items = 1 THEN @ ELSE rd.at]
    /\ UNCHANGED fileVars

\* Broken on purpose: any words in the checksum's place will do.
CrcUnchecked == rd.pos <= Size

\* The checksum covers every word after the magic that was read.
CrcMatches == HasCrc /\ rd.pos = Len(words) + 1 /\ crc[1] = Tail(words)

ReadCrc ==
    /\ rd.pc = "body" /\ rd.at > Len(Sections)
    /\ rd' = IF CrcMatches THEN [rd EXCEPT !.pc = "accepted"] ELSE Fail
    /\ UNCHANGED fileVars

\* io.ReadFull at the end of the file; the name of a kind follows its id.
ReadPastEnd ==
    /\ \/ InBody /\ Section \notin {"graphIDs", "outOffsets", "kindOffsets", "nodeOffsets",
                                    "outTargets", "edgeIDPerm", "nodeKinds"}
       \/ rd.pc = "table"
    /\ FieldAt(IF rd.pc = "table" THEN rd.pos + EntryWidth - 1 ELSE rd.pos) = {}
    /\ rd' = Fail
    /\ UNCHANGED fileVars

ReadStep ==
    \/ ReadMagic \/ ReadCounted \/ ReadCrc \/ ReadPastEnd
    \/ rd.pc = "body" /\ \E v \in FieldAt(rd.pos) : ReadField(v) \/ ReadPrefixed(v) \/ ReadTableCount(v)
    \/ rd.pc = "table" /\ \E v \in FieldAt(rd.pos + EntryWidth - 1) : ReadTableEntry(v)
-----------------------------------------------------------------------------
Graph == [n : 0 .. MaxCount, e : 0 .. MaxCount, k : 0 .. MaxCount,
          kinds : 0 .. MaxCount, names : 0 .. MaxCount]

FormatInit ==
    /\ graph \in Graph
    /\ WriteSnapshotFile(graph)
    /\ rd = [NewReader EXCEPT !.pc = "closed"]

Whole == words = <<Magic>> \o Body(graph) /\ crc = <<Body(graph)>>

\* The medium: one word changed, the end cut off, a word inserted before the
\* checksum, or words after it.
Damage ==
    /\ rd.pc = "closed" /\ Whole /\ tail = 0
    /\ \/ \E i \in 1 .. Len(words), v \in Word :
              v # words[i] /\ words' = [words EXCEPT ![i] = v] /\ UNCHANGED <<crc, tail>>
       \/ \E i \in 0 .. Len(words) :
              words' = SubSeq(words, 1, i) /\ crc' = <<>> /\ UNCHANGED tail
       \/ words' = Append(words, 0) /\ UNCHANGED <<crc, tail>>
       \/ tail' = 2 /\ UNCHANGED <<words, crc>>
    /\ UNCHANGED <<graph, rd>>

Open ==
    /\ rd.pc = "closed"
    /\ rd' = NewReader
    /\ UNCHANGED fileVars

Finished == rd.pc \in {"accepted", "rejected"} /\ UNCHANGED formatVars

FormatNext == Damage \/ Open \/ ReadStep \/ Finished
FormatSpec == FormatInit /\ [][FormatNext]_formatVars
-----------------------------------------------------------------------------
\* ReadSnapshotFile: a file is accepted exactly when it is, word for word, the
\* one that was written: any changed, missing or inserted word is refused, and
\* words after the checksum are never read.
OnlyWholeAccepted ==
    /\ rd.pc = "accepted" => Whole
    /\ rd.pc = "rejected" => ~Whole

\* claim: no count or length field, however it was damaged, makes the reader
\* allocate for more than the file holds, long before the checksum is reached.
AllocationsFitTheFile == rd.alloc <= Size
=============================================================================
