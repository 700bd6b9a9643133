---------------------------- MODULE EngineProofs ----------------------------
(***************************************************************************)
(* Proofs about the composed engine, for every set of rows and writes and  *)
(* every bound: every variable keeps its type, the trust generations stay  *)
(* in order, fallback always has a rebuild, and (below) the replica is     *)
(* what PostgreSQL holds.                                                  *)
(*                                                                         *)
(* EngineInv is inductive.  Beside the types it says who holds applyMu,    *)
(* that a handler which uses a view or a load has one, and that every      *)
(* bump failure not yet settled is a generation not yet settled.           *)
(***************************************************************************)
EXTENDS TrustReader, OperatorLemmas

CriticalPC == {"resolve", "retire", "decide", "readback"}
InCritical(w) == ws[w].pc \in CriticalPC

LoaderPC == {"flip", "bootReplay"}

\* Where the loop has loaded rows in hand, and where a file's stamp.
HoldsStamp == {"bootFreeze", "bootAttempt", "bootReplay"}
HoldsRows  == {"adopt", "flip", "rebase"} \cup HoldsStamp

\* applyMu belongs to the one goroutine inside its critical section.
LockInv ==
    /\ \A w \in Write : InCritical(w) <=> applyMu = w
    /\ loop.pc \in LoaderPC <=> applyMu = Loader

\* Where a handler uses a view, a load or a capture, it has one.
HeldInv ==
    /\ \A w \in Write : ws[w].pc = "readback" => building # Null
    /\ loop.pc = "bootReplay" => building # Null
    /\ loop.pc \in HoldsRows => load.rows # Null
    /\ loop.pc \in HoldsStamp => load.counter # Null
    /\ save.pc = "write" => save.rows # Null

\* A process that is down runs nothing, and a finished call carries no failure.
DownInv ==
    /\ ~up => /\ loop.pc = "none" /\ loop.finishing = 0 /\ loop.launcher = "none"
              /\ ~loop.fresh /\ save.pc = "idle"
              /\ resolvedGen = 0 /\ load.gen = 0
              /\ \A w \in Write : ~InFlight(w)
    /\ \A w \in Write : ~InFlight(w) => ~ws[w].bumpFailed

ControlInv == LockInv /\ HeldInv /\ DownInv

Unsettled == {w \in Write : ws[w].bumpFailed}

\* Every failure not yet settled is a generation not yet settled, and a load
\* vouches for no generation settled after it was read.
GenerationInv ==
    /\ settledGen + Cardinality(Unsettled) <= dirtyGen
    /\ resolvedGen <= settledGen
    /\ load.gen <= settledGen

EngineInv == TypeOK /\ ControlInv /\ GenerationInv /\ FallbackHasARebuild
-----------------------------------------------------------------------------
(* What the helpers return.                                                 *)

\* startFallbackRebuild starts a loop where none runs and changes nothing else.
LEMMA StartFallbackRebuildType ==
    ASSUME NEW l \in LoopType
    PROVE  /\ StartFallbackRebuild(l) \in LoopType
           /\ StartFallbackRebuild(l).pc = IF l.pc = "none" THEN "top" ELSE l.pc
           /\ StartFallbackRebuild(l).finishing = l.finishing
           /\ StartFallbackRebuild(l).launcher = l.launcher
BY DEF StartFallbackRebuild, LoopType, LoopPC

\* requestTrustRebuild may start a loop, and never ends or finishes one.
LEMMA RequestTrustRebuildType ==
    ASSUME NEW l \in LoopType
    PROVE  /\ RequestTrustRebuild(l) \in LoopType
           /\ \/ RequestTrustRebuild(l).pc = l.pc
              \/ l.pc = "none" /\ RequestTrustRebuild(l).pc = "top"
           /\ RequestTrustRebuild(l).finishing = l.finishing
<1> DEFINE f == [l EXCEPT !.fresh = TRUE]
           a == [l EXCEPT !.launcher = "asleep"]
<1>1. f \in LoopType /\ f.pc = l.pc /\ f.finishing = l.finishing
  BY DEF LoopType
<1>2. a \in LoopType /\ a.pc = l.pc /\ a.finishing = l.finishing
  BY DEF LoopType
<1>3. RequestTrustRebuild(l) \in {StartFallbackRebuild(f), a, l}
  BY DEF RequestTrustRebuild
<1> HIDE DEF f, a
<1> QED BY <1>1, <1>2, <1>3, StartFallbackRebuildType

\* Every call on the boot gap buffer leaves it a buffer.
LEMMA BootGapTypes ==
    ASSUME NEW b \in BootGapType, NEW s \in Scope
    PROVE  /\ Observe(b, s) \in BootGapType
           /\ ObserveAbandoned(b, s) \in BootGapType
           /\ Deactivate(b) \in BootGapType
<1>1. s.counter \in Nat /\ s.keys \in SUBSET Row
  BY DEF Scope
<1>2. [b EXCEPT !.poisoned = TRUE] \in BootGapType
  BY DEF BootGapType
<1>3. \A k \in SUBSET Row : AppendEntry(b, s.counter, k) \in BootGapType
  <2> SUFFICES ASSUME NEW k \in SUBSET Row PROVE AppendEntry(b, s.counter, k) \in BootGapType
    OBVIOUS
  <2> DEFINE e == [counter |-> s.counter, keys |-> k]
  <2>1. b.entries \cup {e} \in SUBSET [counter : Nat, keys : SUBSET Row]
    BY <1>1 DEF BootGapType
  <2>2. [b EXCEPT !.entries = b.entries \cup {e}] \in BootGapType
    BY <2>1 DEF BootGapType
  <2> QED BY <2>2, <1>2 DEF AppendEntry
<1>4. Observe(b, s) \in {b, [b EXCEPT !.poisoned = TRUE], AppendEntry(b, s.counter, s.keys)}
  BY DEF Observe
<1>5. ObserveAbandoned(b, s) \in {b, AppendEntry(b, s.counter, {})}
  BY DEF ObserveAbandoned
<1>6. Deactivate(b) \in BootGapType
  BY DEF Deactivate, BootGapType
<1> QED BY <1>1, <1>2, <1>3, <1>4, <1>5, <1>6

\* A fresh write scope has its type and owes no settlement.
LEMMA NewScopeType == NewScope \in Scope /\ NewScope.pc = "idle" /\ ~NewScope.bumpFailed
BY DEF NewScope, Scope, WritePC, Rows, NoRows

\* A scope whose driver call is over has its type and owes no settlement.
LEMMA OverScopeType ==
    ASSUME NEW s \in Scope, NEW pc \in {"returned", "dead"}
    PROVE  /\ OverScope(s, pc) \in Scope
           /\ OverScope(s, pc).pc = pc /\ ~OverScope(s, pc).bumpFailed
<1>1. s.counter \in Nat /\ s.reply \in Nat /\ s.ver \in Rows
  BY DEF Scope
<1>2. MaxOf(s.counter, s.reply) \in Nat
  BY <1>1, MaxOfProperties
<1> QED BY <1>1, <1>2, NewScopeType DEF OverScope, Scope, WritePC

\* Replacing one scope by another leaves the other writes alone.
LEMMA BecomesType ==
    ASSUME WriteTypeOK, NEW w \in Write, NEW s \in Scope, Becomes(w, s)
    PROVE  WriteTypeOK' /\ ws'[w] = s /\ \A x \in Write \ {w} : ws'[x] = ws[x]
BY DEF WriteTypeOK, Becomes

\* What callers may expect, raised by a returning write, is still rows.
LEMMA RaisedRows ==
    ASSUME NEW a \in Rows, NEW b \in Rows
    PROVE  [r \in Row |-> MaxOf(a[r], b[r])] \in Rows
BY MaxOfProperties DEF Rows, MaxOf
-----------------------------------------------------------------------------
(* The handlers of a write.                                                 *)

\* A write's step keeps the control invariant if its lock, its view under
\* construction and its effect on the loop are in order.
LEMMA WriteFrame ==
    ASSUME EngineInv, NEW w \in Write, NEW s \in Scope, Becomes(w, s), up \/ InFlight(w),
           \/ /\ applyMu' = applyMu /\ building' = building
              /\ ~InCritical(w) /\ s.pc \notin CriticalPC
           \/ /\ applyMu \in {w, Null}
              /\ applyMu' = IF s.pc \in CriticalPC THEN w ELSE Null
              /\ s.pc = "readback" => building' # Null,
           loop'.pc = loop.pc \/ (loop.pc = "none" /\ loop'.pc = "top"),
           loop'.finishing = loop.finishing,
           state' = "fallback" => state = "fallback" \/ loop'.pc # "none",
           s.pc \in Finished => ~s.bumpFailed,
           UNCHANGED <<up, stopping, load, save, resolvedGen>>
    PROVE  WriteTypeOK' /\ ControlInv' /\ FallbackHasARebuild'
<1>1. WriteTypeOK' /\ ws'[w] = s /\ \A x \in Write \ {w} : ws'[x] = ws[x]
  BY BecomesType DEF EngineInv, TypeOK
<1>2. up /\ up' = up
  BY DEF EngineInv, ControlInv, DownInv
<1>3. Loader \notin Write /\ Null \notin Write /\ Null # Loader
  BY EngineConstants
<1>4. LockInv'
  BY <1>1, <1>3 DEF EngineInv, ControlInv, LockInv, InCritical, CriticalPC, LoaderPC
<1>5. HeldInv'
  BY <1>1, <1>3 DEF EngineInv, ControlInv, LockInv, HeldInv, InCritical, CriticalPC, LoaderPC,
     HoldsRows, HoldsStamp
<1>6. DownInv'
  BY <1>1, <1>2 DEF EngineInv, ControlInv, DownInv, InFlight
<1>7. FallbackHasARebuild'
  BY <1>2 DEF EngineInv, FallbackHasARebuild
<1> QED BY <1>1, <1>4, <1>5, <1>6, <1>7 DEF ControlInv

\* The failures still to be settled can be counted.
LEMMA UnsettledFinite == IsFiniteSet(Unsettled) /\ Cardinality(Unsettled) \in Nat
BY EngineConstants, FS_Subset, FS_CardinalityType DEF Unsettled

\* The generations, where a step opens and settles none.
LEMMA GenerationFrame ==
    ASSUME EngineInv, NEW w \in Write, NEW s \in Scope, Becomes(w, s),
           ws[w].bumpFailed => s.bumpFailed \/ s.pc \in Finished, s.bumpFailed => ws[w].bumpFailed,
           UNCHANGED <<genVars, load>>
    PROVE  GenerationInv'
<1>1. WriteTypeOK' /\ ws'[w] = s /\ \A x \in Write \ {w} : ws'[x] = ws[x]
  BY BecomesType DEF EngineInv, TypeOK
<1>2. /\ dirtyGen' = dirtyGen /\ settledGen' = settledGen /\ resolvedGen' = resolvedGen
      /\ load' = load /\ dirtyGen \in Nat /\ settledGen \in Nat
  BY DEF genVars, EngineInv, TypeOK, EngineTypeOK
<1>3. Unsettled' \in SUBSET Unsettled
  BY <1>1 DEF Unsettled
<1>4. Cardinality(Unsettled') \in Nat /\ Cardinality(Unsettled') <= Cardinality(Unsettled)
  BY <1>3, UnsettledFinite, FS_Subset, FS_CardinalityType
<1> QED BY <1>2, <1>4, UnsettledFinite DEF EngineInv, GenerationInv

\* What a handler of a write may take for granted.
LEMMA ScopeFacts ==
    ASSUME EngineInv, NEW w \in Write
    PROVE  /\ ws[w] \in Scope /\ Touches[w] \in SUBSET Row
           /\ ws[w].counter \in Nat /\ ws[w].reply \in Nat /\ ws[w].bumpFailed \in BOOLEAN
           /\ ws[w].todo \in SUBSET Row /\ ws[w].keys \in SUBSET Row /\ ws[w].ver \in Rows
           /\ pgRow \in Rows /\ pgCounter \in Nat /\ pgCounter + 1 \in Nat
           /\ pgSeq \in Nat /\ pgSeq + 1 \in Nat
           /\ InFlight(w) => up
           /\ ~InFlight(w) => ~ws[w].bumpFailed
           /\ InCritical(w) <=> applyMu = w
BY EngineConstants DEF EngineInv, TypeOK, StoreTypeOK, WriteTypeOK, Scope, ControlInv, DownInv,
   LockInv

\* A fault is paid for within the type of the bounds.
LEMMA UsedType ==
    ASSUME TypeOK, Fault
    PROVE  used' \in Counts
BY DEF TypeOK, StoreTypeOK, Fault, Counts

\* The versions a commit leaves, in PostgreSQL and in the scope's history.
LEMMA VersionsType ==
    ASSUME EngineInv, NEW w \in Write, NEW rows \in SUBSET Row
    PROVE  /\ VersionsOf(w, rows) \in Rows
           /\ [r \in Row |-> IF r \in rows THEN pgRow[r] + 1 ELSE pgRow[r]] \in Rows
BY ScopeFacts DEF VersionsOf, Rows

\* The steps that move nothing but the scope, the disk and PostgreSQL.
LEMMA DriverStepInv ==
    ASSUME EngineInv, NEW w \in Write,
           \/ BeginWrite(w) \/ BumpSend(w) \/ BumpLands(w) \/ BumpReturns(w) \/ InvalidateFile(w)
           \/ BatchReturns(w) \/ AbortTransaction(w)
    PROVE  EngineInv'
<1> USE DEF pgVars, engineVars, lifeVars, viewVars, genVars, countVars
<1>1. CASE BeginWrite(w)
  <2> DEFINE s == [NewScope EXCEPT !.pc = "call", !.todo = Touches[w]]
  <2>1. s \in Scope /\ s.pc \notin Finished \cup CriticalPC /\ s.bumpFailed = ws[w].bumpFailed
    BY <1>1, NewScopeType, ScopeFacts DEF Scope, WritePC, CriticalPC, Finished, InFlight, NewScope, BeginWrite
  <2>2. Becomes(w, s) /\ (up \/ InFlight(w)) /\ ~InCritical(w)
    BY <1>1, ScopeFacts DEF BeginWrite, InFlight, InCritical, CriticalPC, Finished
  <2>3. UNCHANGED <<up, stopping, state, applyMu, loop, load, building, save, genVars>>
    BY <1>1 DEF BeginWrite
  <2>4. StoreTypeOK' /\ EngineTypeOK' /\ LoaderTypeOK' /\ ReaderTypeOK'
    BY <1>1, ScopeFacts DEF BeginWrite, EngineInv, TypeOK, StoreTypeOK, EngineTypeOK,
       LoaderTypeOK, ReaderTypeOK
  <2> HIDE DEF s
  <2>5. WriteTypeOK' /\ ControlInv' /\ FallbackHasARebuild'
    BY <2>1, <2>2, <2>3, WriteFrame
  <2>6. GenerationInv'
    BY <2>1, <2>2, <2>3, GenerationFrame
  <2> QED BY <2>4, <2>5, <2>6 DEF EngineInv, TypeOK
<1>2. CASE BumpSend(w)
  <2> DEFINE s == [ws[w] EXCEPT !.pc = "bumping"]
  <2>1. s \in Scope /\ s.pc \notin Finished \cup CriticalPC /\ s.bumpFailed = ws[w].bumpFailed
    BY ScopeFacts DEF Scope, WritePC, CriticalPC, Finished
  <2>2. Becomes(w, s) /\ (up \/ InFlight(w)) /\ ~InCritical(w)
    BY <1>2, ScopeFacts DEF BumpSend, Step, InFlight, InCritical, CriticalPC, Finished
  <2>3. UNCHANGED <<up, stopping, state, applyMu, loop, load, building, save, genVars>>
    BY <1>2 DEF BumpSend
  <2>4. StoreTypeOK' /\ EngineTypeOK' /\ LoaderTypeOK' /\ ReaderTypeOK'
    BY <1>2, ScopeFacts DEF BumpSend, EngineInv, TypeOK, StoreTypeOK, EngineTypeOK,
       LoaderTypeOK, ReaderTypeOK
  <2> HIDE DEF s
  <2>5. WriteTypeOK' /\ ControlInv' /\ FallbackHasARebuild'
    BY <2>1, <2>2, <2>3, WriteFrame
  <2>6. GenerationInv'
    BY <2>1, <2>2, <2>3, GenerationFrame
  <2> QED BY <2>4, <2>5, <2>6 DEF EngineInv, TypeOK
<1>3. CASE BumpLands(w)
  <2> DEFINE s == [ws[w] EXCEPT !.pc = "replying", !.reply = pgCounter + 1]
  <2>1. s \in Scope /\ s.pc \notin Finished \cup CriticalPC /\ s.bumpFailed = ws[w].bumpFailed
    BY ScopeFacts DEF Scope, WritePC, CriticalPC, Finished
  <2>2. Becomes(w, s) /\ (up \/ InFlight(w)) /\ ~InCritical(w)
    BY <1>3, ScopeFacts DEF BumpLands, InFlight, InCritical, CriticalPC, Finished
  <2>3. UNCHANGED <<up, stopping, state, applyMu, loop, load, building, save, genVars>>
    BY <1>3 DEF BumpLands
  <2>4. StoreTypeOK' /\ EngineTypeOK' /\ LoaderTypeOK' /\ ReaderTypeOK'
    BY <1>3, ScopeFacts DEF BumpLands, EngineInv, TypeOK, StoreTypeOK, EngineTypeOK,
       LoaderTypeOK, ReaderTypeOK
  <2> HIDE DEF s
  <2>5. WriteTypeOK' /\ ControlInv' /\ FallbackHasARebuild'
    BY <2>1, <2>2, <2>3, WriteFrame
  <2>6. GenerationInv'
    BY <2>1, <2>2, <2>3, GenerationFrame
  <2> QED BY <2>4, <2>5, <2>6 DEF EngineInv, TypeOK
<1>4. CASE BumpReturns(w)
  <2> DEFINE s == [ws[w] EXCEPT !.pc = "mutate", !.counter = ws[w].reply, !.reply = 0]
  <2>1. s \in Scope /\ s.pc \notin Finished \cup CriticalPC /\ s.bumpFailed = ws[w].bumpFailed
    BY ScopeFacts DEF Scope, WritePC, CriticalPC, Finished
  <2>2. Becomes(w, s) /\ (up \/ InFlight(w)) /\ ~InCritical(w)
    BY <1>4, ScopeFacts DEF BumpReturns, InFlight, InCritical, CriticalPC, Finished
  <2>3. UNCHANGED <<up, stopping, state, applyMu, loop, load, building, save, genVars>>
    BY <1>4 DEF BumpReturns
  <2>4. StoreTypeOK' /\ EngineTypeOK' /\ LoaderTypeOK' /\ ReaderTypeOK'
    BY <1>4, ScopeFacts DEF BumpReturns, EngineInv, TypeOK, StoreTypeOK, EngineTypeOK,
       LoaderTypeOK, ReaderTypeOK
  <2> HIDE DEF s
  <2>5. WriteTypeOK' /\ ControlInv' /\ FallbackHasARebuild'
    BY <2>1, <2>2, <2>3, WriteFrame
  <2>6. GenerationInv'
    BY <2>1, <2>2, <2>3, GenerationFrame
  <2> QED BY <2>4, <2>5, <2>6 DEF EngineInv, TypeOK
<1>5. CASE InvalidateFile(w)
  <2> DEFINE s == [ws[w] EXCEPT !.pc = "mutate", !.fallback = TRUE]
  <2>1. s \in Scope /\ s.pc \notin Finished \cup CriticalPC /\ s.bumpFailed = ws[w].bumpFailed
    BY ScopeFacts DEF Scope, WritePC, CriticalPC, Finished
  <2>2. Becomes(w, s) /\ (up \/ InFlight(w)) /\ ~InCritical(w)
    BY <1>5, ScopeFacts DEF InvalidateFile, InFlight, InCritical, CriticalPC, Finished
  <2>3. UNCHANGED <<up, stopping, state, applyMu, loop, load, building, save, genVars>>
    BY <1>5 DEF InvalidateFile
  <2>4. StoreTypeOK' /\ EngineTypeOK' /\ LoaderTypeOK' /\ ReaderTypeOK'
    BY <1>5, ScopeFacts DEF InvalidateFile, EngineInv, TypeOK, StoreTypeOK, EngineTypeOK,
       LoaderTypeOK, ReaderTypeOK
  <2> HIDE DEF s
  <2>5. WriteTypeOK' /\ ControlInv' /\ FallbackHasARebuild'
    BY <2>1, <2>2, <2>3, WriteFrame
  <2>6. GenerationInv'
    BY <2>1, <2>2, <2>3, GenerationFrame
  <2> QED BY <2>4, <2>5, <2>6 DEF EngineInv, TypeOK
<1>6. CASE BatchReturns(w)
  <2> DEFINE s == [ws[w] EXCEPT !.pc = "apply"]
  <2>1. s \in Scope /\ s.pc \notin Finished \cup CriticalPC /\ s.bumpFailed = ws[w].bumpFailed
    BY ScopeFacts DEF Scope, WritePC, CriticalPC, Finished
  <2>2. Becomes(w, s) /\ (up \/ InFlight(w)) /\ ~InCritical(w)
    BY <1>6, ScopeFacts DEF BatchReturns, Step, InFlight, InCritical, CriticalPC, Finished
  <2>3. UNCHANGED <<up, stopping, state, applyMu, loop, load, building, save, genVars>>
    BY <1>6 DEF BatchReturns
  <2>4. StoreTypeOK' /\ EngineTypeOK' /\ LoaderTypeOK' /\ ReaderTypeOK'
    BY <1>6, ScopeFacts DEF BatchReturns, EngineInv, TypeOK, StoreTypeOK, EngineTypeOK,
       LoaderTypeOK, ReaderTypeOK
  <2> HIDE DEF s
  <2>5. WriteTypeOK' /\ ControlInv' /\ FallbackHasARebuild'
    BY <2>1, <2>2, <2>3, WriteFrame
  <2>6. GenerationInv'
    BY <2>1, <2>2, <2>3, GenerationFrame
  <2> QED BY <2>4, <2>5, <2>6 DEF EngineInv, TypeOK
<1>7. CASE AbortTransaction(w)
  <2> DEFINE s == [ws[w] EXCEPT !.pc = "abandon"]
  <2>1. s \in Scope /\ s.pc \notin Finished \cup CriticalPC /\ s.bumpFailed = ws[w].bumpFailed
    BY ScopeFacts DEF Scope, WritePC, CriticalPC, Finished
  <2>2. Becomes(w, s) /\ (up \/ InFlight(w)) /\ ~InCritical(w)
    BY <1>7, ScopeFacts DEF AbortTransaction, Step, InFlight, InCritical, CriticalPC, Finished
  <2>3. UNCHANGED <<up, stopping, state, applyMu, loop, load, building, save, genVars>>
    BY <1>7 DEF AbortTransaction
  <2>4. StoreTypeOK' /\ EngineTypeOK' /\ LoaderTypeOK' /\ ReaderTypeOK'
    BY <1>7, ScopeFacts DEF AbortTransaction, EngineInv, TypeOK, StoreTypeOK, EngineTypeOK,
       LoaderTypeOK, ReaderTypeOK
  <2> HIDE DEF s
  <2>5. WriteTypeOK' /\ ControlInv' /\ FallbackHasARebuild'
    BY <2>1, <2>2, <2>3, WriteFrame
  <2>6. GenerationInv'
    BY <2>1, <2>2, <2>3, GenerationFrame
  <2> QED BY <2>4, <2>5, <2>6 DEF EngineInv, TypeOK
<1> QED BY <1>1, <1>2, <1>3, <1>4, <1>5, <1>6, <1>7

\* The steps that make rows durable or record a key.
LEMMA DurableStepInv ==
    ASSUME EngineInv, NEW w \in Write,
           \/ MutatingCall(w) \/ FlushChunk(w) \/ CommitTransaction(w) \/ CommitAmbiguous(w)
           \/ BatchPanics(w)
    PROVE  EngineInv'
<1> USE DEF pgVars, engineVars, lifeVars, viewVars, genVars, countVars
<1>1. ASSUME NEW s \in Scope, Becomes(w, s), s.bumpFailed = ws[w].bumpFailed,
             s.pc \notin Finished \cup CriticalPC, InFlight(w), ~InCritical(w),
             UNCHANGED <<file, engineVars, loop, load, building, save, query, acked>>,
             StoreTypeOK'
      PROVE  EngineInv'
  <2>1. EngineTypeOK' /\ LoaderTypeOK' /\ ReaderTypeOK'
    BY <1>1 DEF EngineInv, TypeOK, EngineTypeOK, LoaderTypeOK, ReaderTypeOK
  <2>2. UNCHANGED <<up, stopping, state, applyMu, loop, load, building, save, genVars>>
    BY <1>1
  <2>3. WriteTypeOK' /\ ControlInv' /\ FallbackHasARebuild'
    BY <1>1, <2>2, WriteFrame
  <2>4. GenerationInv'
    BY <1>1, <2>2, GenerationFrame
  <2> QED BY <1>1, <2>1, <2>3, <2>4 DEF EngineInv, TypeOK
<1>2. CASE MutatingCall(w)
  <2>1. PICK r \in ws[w].todo :
            Becomes(w, [ws[w] EXCEPT !.pc = "call", !.todo = @ \ {r},
                                     !.keys = IF w \in Opaque THEN @ ELSE @ \cup {r},
                                     !.fallback = @ \/ w \in Opaque])
    BY <1>2 DEF MutatingCall
  <2> DEFINE k == IF w \in Opaque THEN ws[w].keys ELSE ws[w].keys \cup {r}
             b == ws[w].fallback \/ w \in Opaque
             s == [ws[w] EXCEPT !.pc = "call", !.todo = ws[w].todo \ {r}, !.keys = k,
                                !.fallback = b]
  <2>2. Becomes(w, s)
    BY <2>1
  <2>3. k \in SUBSET Row /\ ws[w].todo \ {r} \in SUBSET Row /\ b \in BOOLEAN
    BY ScopeFacts
  <2>4. s \in Scope /\ s.pc \notin Finished \cup CriticalPC /\ s.bumpFailed = ws[w].bumpFailed
    <3> HIDE DEF k, b
    <3> QED BY <2>3, ScopeFacts DEF Scope, WritePC, CriticalPC, Finished
  <2>5. InFlight(w) /\ ~InCritical(w) /\ StoreTypeOK'
    BY <1>2, ScopeFacts DEF MutatingCall, MayMutate, InFlight, InCritical, CriticalPC, Finished,
       EngineInv, TypeOK, StoreTypeOK
  <2> HIDE DEF s
  <2> QED BY <1>1, <1>2, <2>2, <2>4, <2>5 DEF MutatingCall
<1>3. ASSUME NEW rows \in SUBSET Row, MakeDurable(w, rows),
             UNCHANGED <<file, acked>>,
             used' \in Counts
      PROVE  StoreTypeOK'
  BY <1>3, VersionsType DEF MakeDurable, EngineInv, TypeOK, StoreTypeOK
<1>4. used \in Counts
  BY DEF EngineInv, TypeOK, StoreTypeOK
<1>5. ws[w].pc = "call" => InFlight(w) /\ ~InCritical(w)
  BY DEF InFlight, InCritical, CriticalPC, Finished
<1>6. CASE FlushChunk(w)
  <2>1. PICK r \in Touches[w] \ (ws[w].todo \cup DurableRows(w)) :
            MakeDurable(w, {r}) /\ Becomes(w, [ws[w] EXCEPT !.ver = VersionsOf(w, {r})])
    BY <1>6 DEF FlushChunk
  <2>2. {r} \in SUBSET Row
    BY ScopeFacts
  <2> DEFINE s == [ws[w] EXCEPT !.ver = VersionsOf(w, {r})]
  <2>3. s \in Scope /\ s.pc = ws[w].pc /\ s.bumpFailed = ws[w].bumpFailed
    BY <2>2, ScopeFacts, VersionsType DEF Scope
  <2>4. StoreTypeOK'
    BY <1>3, <1>4, <1>6, <2>1, <2>2 DEF FlushChunk
  <2>5. ws[w].pc \notin Finished \cup CriticalPC /\ InFlight(w) /\ ~InCritical(w)
    BY <1>6 DEF FlushChunk, InFlight, InCritical, CriticalPC, Finished
  <2> HIDE DEF s
  <2> QED BY <1>1, <1>6, <2>1, <2>3, <2>4, <2>5 DEF FlushChunk, s
<1>7. CASE CommitTransaction(w)
  <2> DEFINE s == [ws[w] EXCEPT !.pc = "apply", !.ver = VersionsOf(w, Touches[w])]
  <2>1. s \in Scope /\ s.pc \notin Finished \cup CriticalPC /\ s.bumpFailed = ws[w].bumpFailed
    BY ScopeFacts, VersionsType DEF Scope, WritePC, CriticalPC, Finished
  <2>2. StoreTypeOK'
    BY <1>3, <1>4, <1>7, ScopeFacts DEF CommitTransaction
  <2>3. Becomes(w, s)
    BY <1>7 DEF CommitTransaction
  <2> HIDE DEF s
  <2> QED BY <1>1, <1>5, <1>7, <2>1, <2>2, <2>3 DEF CommitTransaction
<1>8. CASE CommitAmbiguous(w)
  <2>1. PICK rows \in {{}, Touches[w]} :
            /\ MakeDurable(w, rows)
            /\ Becomes(w, [ws[w] EXCEPT !.pc = "apply", !.fallback = TRUE,
                                        !.ver = VersionsOf(w, rows)])
    BY <1>8 DEF CommitAmbiguous
  <2>2. rows \in SUBSET Row
    BY ScopeFacts
  <2> DEFINE s == [ws[w] EXCEPT !.pc = "apply", !.fallback = TRUE, !.ver = VersionsOf(w, rows)]
  <2>3. s \in Scope /\ s.pc \notin Finished \cup CriticalPC /\ s.bumpFailed = ws[w].bumpFailed
    BY <2>2, ScopeFacts, VersionsType DEF Scope, WritePC, CriticalPC, Finished
  <2>4. StoreTypeOK'
    BY <1>3, <1>8, <2>1, <2>2, UsedType DEF CommitAmbiguous, EngineInv
  <2>5. Becomes(w, s)
    BY <2>1
  <2> HIDE DEF s
  <2> QED BY <1>1, <1>5, <1>8, <2>3, <2>4, <2>5 DEF CommitAmbiguous
<1>9. CASE BatchPanics(w)
  <2>1. PICK rows \in {{}} \cup {{r} : r \in ws[w].todo} :
            /\ MakeDurable(w, rows)
            /\ Becomes(w, [ws[w] EXCEPT !.pc = "apply", !.fallback = TRUE,
                                        !.ver = VersionsOf(w, rows)])
    BY <1>9 DEF BatchPanics
  <2>2. rows \in SUBSET Row
    BY ScopeFacts
  <2> DEFINE s == [ws[w] EXCEPT !.pc = "apply", !.fallback = TRUE, !.ver = VersionsOf(w, rows)]
  <2>3. s \in Scope /\ s.pc \notin Finished \cup CriticalPC /\ s.bumpFailed = ws[w].bumpFailed
    BY <2>2, ScopeFacts, VersionsType DEF Scope, WritePC, CriticalPC, Finished
  <2>4. StoreTypeOK'
    BY <1>3, <1>9, <2>1, <2>2, UsedType DEF BatchPanics, EngineInv
  <2>5. Becomes(w, s) /\ InFlight(w) /\ ~InCritical(w)
    BY <1>9, <2>1 DEF BatchPanics, InFlight, InCritical, CriticalPC, Finished
  <2> HIDE DEF s
  <2> QED BY <1>1, <1>9, <2>3, <2>4, <2>5 DEF BatchPanics
<1> QED BY <1>2, <1>6, <1>7, <1>8, <1>9

\* A failed bump: the scope's first failure opens a generation.
LEMMA BumpFailsInv ==
    ASSUME EngineInv, NEW w \in Write, BumpFails(w)
    PROVE  EngineInv'
<1> USE DEF pgVars, engineVars, lifeVars, viewVars, genVars, countVars
<1> DEFINE pc == IF ws[w].bumpFailed THEN "mutate" ELSE "invalidate"
           s == [ws[w] EXCEPT !.reply = 0, !.bumpFailed = TRUE, !.pc = pc]
<1>1. pc \in {"mutate", "invalidate"}
  OBVIOUS
<1>2. s \in Scope /\ s.pc \notin Finished \cup CriticalPC /\ s.bumpFailed = TRUE
  <2> HIDE DEF pc
  <2> QED BY <1>1, ScopeFacts DEF Scope, WritePC, CriticalPC, Finished
<1>3. Becomes(w, s) /\ InFlight(w) /\ ~InCritical(w)
  BY DEF BumpFails, InFlight, InCritical, CriticalPC, Finished
<1>4. UNCHANGED <<up, stopping, state, applyMu, loop, load, building, save, resolvedGen, settledGen>>
  BY DEF BumpFails
<1>5. StoreTypeOK' /\ LoaderTypeOK' /\ ReaderTypeOK'
  BY UsedType DEF BumpFails, EngineInv, TypeOK, StoreTypeOK, LoaderTypeOK, ReaderTypeOK
<1>6. EngineTypeOK'
  BY DEF BumpFails, OpensGeneration, EngineInv, TypeOK, EngineTypeOK
<1> HIDE DEF s
<1>7. WriteTypeOK' /\ ControlInv' /\ FallbackHasARebuild'
  BY <1>2, <1>3, <1>4, WriteFrame
<1>8. GenerationInv'
  <2>1. ws'[w] = s /\ \A x \in Write \ {w} : ws'[x] = ws[x]
    BY <1>2, <1>3, BecomesType DEF EngineInv, TypeOK
  <2>2. Unsettled' = Unsettled \cup {w} /\ (w \in Unsettled <=> ws[w].bumpFailed)
    BY <1>2, <2>1 DEF Unsettled
  <2>3. Cardinality(Unsettled') = IF w \in Unsettled THEN Cardinality(Unsettled)
                                                     ELSE Cardinality(Unsettled) + 1
    BY <2>2, UnsettledFinite, FS_AddElement
  <2>4. dirtyGen' = IF w \in Unsettled THEN dirtyGen ELSE dirtyGen + 1
    BY <2>2 DEF BumpFails, OpensGeneration
  <2>5. dirtyGen \in Nat /\ settledGen \in Nat
    BY DEF EngineInv, TypeOK, EngineTypeOK
  <2> QED BY <1>4, <2>3, <2>4, <2>5, UnsettledFinite DEF EngineInv, GenerationInv
<1> QED BY <1>5, <1>6, <1>7, <1>8 DEF EngineInv, TypeOK

\* Settling a failure takes the write out of the unsettled ones.
LEMMA SettleGeneration ==
    ASSUME EngineInv, NEW w \in Write, NEW s \in Scope, Becomes(w, s), ~s.bumpFailed,
           settledGen' = IF ws[w].bumpFailed THEN settledGen + 1 ELSE settledGen,
           UNCHANGED <<dirtyGen, resolvedGen, load>>
    PROVE  GenerationInv'
<1>1. ws'[w] = s /\ \A x \in Write \ {w} : ws'[x] = ws[x]
  BY BecomesType DEF EngineInv, TypeOK
<1>2. Unsettled' = Unsettled \ {w} /\ (w \in Unsettled <=> ws[w].bumpFailed)
  BY <1>1 DEF Unsettled
<1>3. Cardinality(Unsettled') = IF w \in Unsettled THEN Cardinality(Unsettled) - 1
                                                   ELSE Cardinality(Unsettled)
  BY <1>2, UnsettledFinite, FS_RemoveElement
<1>4. dirtyGen \in Nat /\ settledGen \in Nat /\ resolvedGen \in Nat /\ load.gen \in Nat
  BY DEF EngineInv, TypeOK, EngineTypeOK, LoaderTypeOK, LoadType
<1> QED BY <1>2, <1>3, <1>4, UnsettledFinite DEF EngineInv, GenerationInv

\* AdvanceWatermark keeps the ledger one advanceLocked can work on.
LEMMA ResolvedLedgerType ==
    ASSUME EngineInv, NEW w \in Write,
           ledger' = IF ws[w].counter > 0 THEN Resolve(ledger, ws[w].counter) ELSE ledger
    PROVE  ledger' \in Ledger /\ \A v \in ledger'.above : v <= ledger'.highest
<1>1. BoundedLedger(ledger)
  BY DEF EngineInv, TypeOK, EngineTypeOK, BoundedLedger
<1>2. BoundedLedger(Resolve(ledger, ws[w].counter))
  BY <1>1, ScopeFacts, ResolveBounded
<1> QED BY <1>1, <1>2 DEF BoundedLedger

\* ResolveAbandonedWrite.
LEMMA AbandonStepInv ==
    ASSUME EngineInv, NEW w \in Write, AbandonStep(w)
    PROVE  EngineInv'
<1> USE DEF pgVars, engineVars, lifeVars, viewVars, genVars, countVars
<1>1. ASSUME NEW to \in {"abandonRetire", "abandonObserve", "abandonSettle"},
             Becomes(w, [ws[w] EXCEPT !.pc = to]), InFlight(w), ~InCritical(w),
             UNCHANGED <<up, stopping, state, applyMu, loop, load, building, save, genVars>>
      PROVE  WriteTypeOK' /\ ControlInv' /\ FallbackHasARebuild' /\ GenerationInv'
  <2> DEFINE s == [ws[w] EXCEPT !.pc = to]
  <2>1. s \in Scope /\ s.pc \notin Finished \cup CriticalPC /\ s.bumpFailed = ws[w].bumpFailed
    BY ScopeFacts DEF Scope, WritePC, CriticalPC, Finished
  <2>2. Becomes(w, s)
    BY <1>1
  <2> HIDE DEF s
  <2> QED BY <1>1, <2>1, <2>2, WriteFrame, GenerationFrame
<1>2. ws[w].pc \in {"abandon", "abandonRetire", "abandonObserve", "abandonSettle"}
        => InFlight(w) /\ ~InCritical(w)
  BY DEF InFlight, InCritical, CriticalPC, Finished
<1>3. CASE AbandonResolve(w)
  <2>1. StoreTypeOK' /\ LoaderTypeOK' /\ ReaderTypeOK'
    BY <1>3 DEF AbandonResolve, EngineInv, TypeOK, StoreTypeOK, LoaderTypeOK, ReaderTypeOK
  <2>2. EngineTypeOK'
    BY <1>3, ResolvedLedgerType DEF AbandonResolve, EngineInv, TypeOK, EngineTypeOK
  <2> QED BY <1>1, <1>2, <1>3, <2>1, <2>2 DEF AbandonResolve, Step, EngineInv, TypeOK
<1>4. CASE AbandonRetire(w)
  <2>1. StoreTypeOK' /\ LoaderTypeOK' /\ ReaderTypeOK'
    BY <1>4 DEF AbandonRetire, EngineInv, TypeOK, StoreTypeOK, LoaderTypeOK, ReaderTypeOK
  <2>2. EngineTypeOK'
    BY <1>4 DEF AbandonRetire, EngineInv, TypeOK, EngineTypeOK
  <2> QED BY <1>1, <1>2, <1>4, <2>1, <2>2 DEF AbandonRetire, Step, EngineInv, TypeOK
<1>5. CASE AbandonObserve(w)
  <2>1. bootGap' \in BootGapType
    BY <1>5, ScopeFacts, BootGapTypes DEF AbandonObserve, EngineInv, TypeOK, LoaderTypeOK
  <2>2. StoreTypeOK' /\ EngineTypeOK' /\ LoaderTypeOK' /\ ReaderTypeOK'
    BY <1>5, <2>1 DEF AbandonObserve, EngineInv, TypeOK, StoreTypeOK, EngineTypeOK, LoaderTypeOK,
       ReaderTypeOK
  <2> QED BY <1>1, <1>2, <1>5, <2>2 DEF AbandonObserve, Step, EngineInv, TypeOK
<1>6. CASE AbandonSettle(w)
  <2> DEFINE s == OverScope(ws[w], "returned")
  <2>1. s \in Scope /\ s.pc = "returned" /\ ~s.bumpFailed
    BY ScopeFacts, OverScopeType
  <2>2. Becomes(w, s) /\ InFlight(w) /\ ~InCritical(w)
    BY <1>2, <1>6 DEF AbandonSettle
  <2>3. /\ loop' \in LoopType
        /\ loop'.pc = loop.pc \/ (loop.pc = "none" /\ loop'.pc = "top")
        /\ loop'.finishing = loop.finishing
    BY <1>6, RequestTrustRebuildType DEF AbandonSettle, EngineInv, TypeOK, LoaderTypeOK
  <2>4. StoreTypeOK' /\ EngineTypeOK' /\ LoaderTypeOK' /\ ReaderTypeOK'
    BY <1>6, <2>3 DEF AbandonSettle, EngineInv, TypeOK, StoreTypeOK, EngineTypeOK, LoaderTypeOK,
       ReaderTypeOK
  <2>5. /\ UNCHANGED <<up, stopping, state, applyMu, building, load, save, resolvedGen, dirtyGen>>
        /\ settledGen' = IF ws[w].bumpFailed THEN settledGen + 1 ELSE settledGen
    BY <1>6 DEF AbandonSettle
  <2>6. s.pc \notin CriticalPC
    BY <2>1 DEF CriticalPC
  <2> HIDE DEF s
  <2>7. WriteTypeOK' /\ ControlInv' /\ FallbackHasARebuild'
    BY <2>1, <2>2, <2>3, <2>5, <2>6, WriteFrame
  <2>8. GenerationInv'
    BY <2>1, <2>2, <2>5, SettleGeneration
  <2> QED BY <2>4, <2>7, <2>8 DEF EngineInv, TypeOK
<1> QED BY <1>3, <1>4, <1>5, <1>6 DEF AbandonStep

\* Apply's steps that hold on to the lock, or take it.
LEMMA ApplyHoldsInv ==
    ASSUME EngineInv, NEW w \in Write,
           ApplyLock(w) \/ ApplyResolve(w) \/ ApplySettle(w) \/ ReadBackRow(w)
    PROVE  EngineInv'
<1> USE DEF pgVars, engineVars, lifeVars, viewVars, genVars, countVars
<1>1. ASSUME NEW s \in Scope, Becomes(w, s), s.pc \in {"resolve", "retire", "decide"},
             ws[w].pc \in {"apply", "resolve", "retire"}, applyMu \in {w, Null}, applyMu' = w,
             UNCHANGED <<up, stopping, state, loop, load, building, save, resolvedGen>>
      PROVE  WriteTypeOK' /\ ControlInv' /\ FallbackHasARebuild'
  <2>1. s.pc \in CriticalPC /\ s.pc \notin Finished /\ InFlight(w)
    BY <1>1 DEF CriticalPC, Finished, InFlight
  <2>2. s.pc # "readback"
    BY <1>1
  <2> QED BY <1>1, <2>1, <2>2, WriteFrame
<1>2. CASE ApplyLock(w)
  <2> DEFINE s == [ws[w] EXCEPT !.pc = "resolve"]
  <2>1. s \in Scope /\ s.pc = "resolve" /\ s.bumpFailed = ws[w].bumpFailed
    BY ScopeFacts DEF Scope, WritePC
  <2>2. Becomes(w, s) /\ ws[w].pc = "apply" /\ applyMu = Null /\ applyMu' = w
    BY <1>2 DEF ApplyLock, Step
  <2>3. StoreTypeOK' /\ EngineTypeOK' /\ LoaderTypeOK' /\ ReaderTypeOK'
    BY <1>2 DEF ApplyLock, EngineInv, TypeOK, StoreTypeOK, EngineTypeOK, LoaderTypeOK, ReaderTypeOK
  <2>4. UNCHANGED <<up, stopping, state, loop, load, building, save, genVars>>
    BY <1>2 DEF ApplyLock
  <2> HIDE DEF s
  <2> QED BY <1>1, <2>1, <2>2, <2>3, <2>4, GenerationFrame DEF EngineInv, TypeOK
<1>3. CASE ApplyResolve(w)
  <2> DEFINE s == [ws[w] EXCEPT !.pc = "retire"]
  <2>1. s \in Scope /\ s.pc = "retire" /\ s.bumpFailed = ws[w].bumpFailed
    BY ScopeFacts DEF Scope, WritePC
  <2>2. Becomes(w, s) /\ ws[w].pc = "resolve" /\ applyMu = w /\ applyMu' = w
    BY <1>3, ScopeFacts DEF ApplyResolve, Step, InCritical, CriticalPC
  <2>3. StoreTypeOK' /\ LoaderTypeOK' /\ ReaderTypeOK'
    BY <1>3 DEF ApplyResolve, EngineInv, TypeOK, StoreTypeOK, LoaderTypeOK, ReaderTypeOK
  <2>4. EngineTypeOK'
    BY <1>3, ResolvedLedgerType DEF ApplyResolve, EngineInv, TypeOK, EngineTypeOK
  <2>5. UNCHANGED <<up, stopping, state, loop, load, building, save, genVars>>
    BY <1>3 DEF ApplyResolve
  <2> HIDE DEF s
  <2> QED BY <1>1, <2>1, <2>2, <2>3, <2>4, <2>5, GenerationFrame DEF EngineInv, TypeOK
<1>4. CASE ApplySettle(w)
  <2> DEFINE s == [ws[w] EXCEPT !.pc = "decide", !.bumpFailed = FALSE, !.settled = ws[w].bumpFailed]
  <2>1. s \in Scope /\ s.pc = "decide" /\ ~s.bumpFailed
    BY ScopeFacts DEF Scope, WritePC
  <2>2. Becomes(w, s) /\ ws[w].pc = "retire" /\ applyMu = w /\ applyMu' = w
    BY <1>4, ScopeFacts DEF ApplySettle, InCritical, CriticalPC
  <2>3. StoreTypeOK' /\ LoaderTypeOK' /\ ReaderTypeOK'
    BY <1>4 DEF ApplySettle, EngineInv, TypeOK, StoreTypeOK, LoaderTypeOK, ReaderTypeOK
  <2>4. EngineTypeOK'
    BY <1>4 DEF ApplySettle, EngineInv, TypeOK, EngineTypeOK
  <2>5. /\ UNCHANGED <<up, stopping, state, loop, load, building, save, resolvedGen, dirtyGen>>
        /\ settledGen' = IF ws[w].bumpFailed THEN settledGen + 1 ELSE settledGen
    BY <1>4 DEF ApplySettle
  <2> HIDE DEF s
  <2>6. GenerationInv'
    BY <2>1, <2>2, <2>5, SettleGeneration
  <2> QED BY <1>1, <2>1, <2>2, <2>3, <2>4, <2>5, <2>6 DEF EngineInv, TypeOK
<1>5. CASE ReadBackRow(w)
  <2>1. building \in BuildingType
    BY <1>5 DEF ReadBackRow, EngineInv, TypeOK, LoaderTypeOK, ControlInv, HeldInv
  <2>2. PICK r \in building.todo :
            building' = [todo |-> building.todo \ {r},
                         rows |-> [building.rows EXCEPT ![r] = pgRow[r]]]
    BY <1>5 DEF ReadBackRow
  <2>3. building' \in BuildingType
    BY <2>1, <2>2, ScopeFacts DEF BuildingType, Rows
  <2>4. building' # Null
    BY <2>3, EngineConstants DEF BuildingType, Rows
  <2>5. UNCHANGED <<pgVars, file, engineVars, loop, load, ws, save, query, used, acked>>
    BY <1>5 DEF ReadBackRow
  <2>6. TypeOK'
    BY <2>3, <2>5 DEF EngineInv, TypeOK, StoreTypeOK, EngineTypeOK, LoaderTypeOK, WriteTypeOK,
       ReaderTypeOK
  <2>7. ControlInv'
    BY <2>4, <2>5 DEF EngineInv, ControlInv, LockInv, HeldInv, DownInv, InCritical, InFlight
  <2>8. GenerationInv' /\ FallbackHasARebuild'
    BY <2>5 DEF EngineInv, GenerationInv, Unsettled, FallbackHasARebuild
  <2> QED BY <2>6, <2>7, <2>8 DEF EngineInv
<1> QED BY <1>2, <1>3, <1>4, <1>5

\* Apply returns: the lock is released and the scope is over.
LEMMA ReturnFromInv ==
    ASSUME EngineInv, NEW w \in Write, applyMu = w, applyMu' = Null, ReturnFrom(w),
           loop'.pc = loop.pc \/ (loop.pc = "none" /\ loop'.pc = "top"),
           loop'.finishing = loop.finishing,
           state' = "fallback" => state = "fallback" \/ loop'.pc # "none",
           UNCHANGED <<up, stopping, load, save, genVars>>
    PROVE  /\ acked' \in Rows
           /\ WriteTypeOK' /\ ControlInv' /\ FallbackHasARebuild' /\ GenerationInv'
<1> DEFINE s == OverScope(ws[w], "returned")
<1>1. s \in Scope /\ s.pc = "returned" /\ ~s.bumpFailed
  BY ScopeFacts, OverScopeType
<1>2. Becomes(w, s) /\ acked' = [r \in Row |-> MaxOf(acked[r], ws[w].ver[r])]
  BY DEF ReturnFrom
<1>3. acked' \in Rows
  BY <1>2, ScopeFacts, RaisedRows DEF EngineInv, TypeOK, StoreTypeOK
<1>4. s.pc \notin CriticalPC /\ s.pc \in Finished /\ s.pc # "readback"
  BY <1>1 DEF CriticalPC, Finished
<1>5. InFlight(w)
  BY ScopeFacts DEF InFlight, InCritical, CriticalPC, Finished
<1>6. resolvedGen' = resolvedGen
  BY DEF genVars
<1> HIDE DEF s
<1>7. WriteTypeOK' /\ ControlInv' /\ FallbackHasARebuild'
  BY <1>1, <1>2, <1>4, <1>5, <1>6, WriteFrame
<1>8. GenerationInv'
  BY <1>1, <1>2, <1>4, GenerationFrame
<1> QED BY <1>3, <1>7, <1>8

\* Apply's decision: fall back, return early or begin the read-back.
LEMMA ApplyDecideInv ==
    ASSUME EngineInv, NEW w \in Write, ApplyDecide(w)
    PROVE  EngineInv'
<1> USE DEF pgVars, engineVars, lifeVars, viewVars, genVars, countVars
<1> DEFINE requested == IF ws[w].settled THEN RequestTrustRebuild(loop) ELSE loop
<1>1. /\ requested \in LoopType
      /\ requested.pc = loop.pc \/ (loop.pc = "none" /\ requested.pc = "top")
      /\ requested.finishing = loop.finishing
  BY RequestTrustRebuildType DEF EngineInv, TypeOK, LoaderTypeOK
<1>2. bootGap' \in BootGapType
  BY ScopeFacts, BootGapTypes DEF ApplyDecide, EngineInv, TypeOK, LoaderTypeOK
<1>3. ws[w].pc = "decide" /\ applyMu = w
  BY ScopeFacts DEF ApplyDecide, InCritical, CriticalPC
<1>4. /\ UNCHANGED <<pgVars, file, lifeVars, snap, baseLineage, delta, genVars, countVars, load,
                     save, query, used>>
      /\ applyEpoch' = applyEpoch + 1
  BY DEF ApplyDecide
<1>5. \/ /\ EnterFallback(requested)
         /\ applyMu' = Null /\ ReturnFrom(w) /\ UNCHANGED building
      \/ /\ loop' \in {requested, StartFallbackRebuild(requested)}
         /\ applyMu' = Null /\ ReturnFrom(w) /\ UNCHANGED <<state, building>>
      \/ /\ snap # Null /\ loop' = requested
         /\ building' = [todo |-> ws[w].keys, rows |-> snap]
         /\ Becomes(w, [ws[w] EXCEPT !.pc = "readback"])
         /\ UNCHANGED <<state, applyMu, acked>>
  BY DEF ApplyDecide, ReadBackNeeded
<1> HIDE DEF requested
<1>6. ASSUME acked' \in Rows, state' \in {"serving", "fallback"}, applyMu' \in {w, Null},
             loop' \in LoopType, building' \in BuildingType \cup {Null}
      PROVE  StoreTypeOK' /\ EngineTypeOK' /\ LoaderTypeOK' /\ ReaderTypeOK'
  BY <1>2, <1>4, <1>6 DEF EngineInv, TypeOK, StoreTypeOK, EngineTypeOK, LoaderTypeOK, ReaderTypeOK
<1>7. state \in {"serving", "fallback"} /\ building \in BuildingType \cup {Null}
  BY DEF EngineInv, TypeOK, EngineTypeOK, LoaderTypeOK
<1>8. CASE applyMu' = Null /\ ReturnFrom(w) /\ UNCHANGED building
  <2>1. /\ loop' \in LoopType
        /\ loop'.pc = loop.pc \/ (loop.pc = "none" /\ loop'.pc = "top")
        /\ loop'.finishing = loop.finishing
        /\ state' \in {"serving", "fallback"}
        /\ state' = "fallback" => state = "fallback" \/ loop'.pc # "none"
    <3>1. CASE EnterFallback(requested)
      BY <1>1, <3>1, StartFallbackRebuildType DEF EnterFallback
    <3>2. CASE loop' \in {requested, StartFallbackRebuild(requested)} /\ UNCHANGED state
      BY <1>1, <1>7, <3>2, StartFallbackRebuildType
    <3>3. CASE loop' = requested /\ UNCHANGED state
      BY <1>1, <1>7, <3>3
    <3> QED BY <1>5, <3>1, <3>2, <3>3
  <2>2. /\ acked' \in Rows
        /\ WriteTypeOK' /\ ControlInv' /\ FallbackHasARebuild' /\ GenerationInv'
    BY <1>3, <1>4, <1>8, <2>1, ReturnFromInv
  <2> QED BY <1>6, <1>7, <1>8, <2>1, <2>2 DEF EngineInv, TypeOK
<1>9. CASE /\ snap # Null /\ loop' = requested
           /\ building' = [todo |-> ws[w].keys, rows |-> snap]
           /\ Becomes(w, [ws[w] EXCEPT !.pc = "readback"])
           /\ UNCHANGED <<state, applyMu, acked>>
  <2> DEFINE s == [ws[w] EXCEPT !.pc = "readback"]
  <2>1. s \in Scope /\ s.pc = "readback" /\ s.bumpFailed = ws[w].bumpFailed
    BY ScopeFacts DEF Scope, WritePC
  <2>2. s.pc \in CriticalPC /\ s.pc \notin Finished /\ InFlight(w)
    BY <1>3, <2>1 DEF CriticalPC, Finished, InFlight
  <2>3. Becomes(w, s)
    BY <1>9
  <2>4. snap \in Rows /\ acked \in Rows
    BY <1>9 DEF EngineInv, TypeOK, StoreTypeOK, EngineTypeOK
  <2>5. building' \in BuildingType
    BY <1>9, <2>4, ScopeFacts DEF BuildingType
  <2>6. building' # Null
    BY <2>5, EngineConstants DEF BuildingType, Rows
  <2>7. StoreTypeOK' /\ EngineTypeOK' /\ LoaderTypeOK' /\ ReaderTypeOK'
    BY <1>1, <1>3, <1>6, <1>7, <1>9, <2>4, <2>5
  <2> HIDE DEF s
  <2>8. WriteTypeOK' /\ ControlInv' /\ FallbackHasARebuild'
    BY <1>1, <1>3, <1>4, <1>9, <2>1, <2>2, <2>3, <2>6, WriteFrame
  <2>9. GenerationInv'
    BY <1>4, <2>1, <2>3, GenerationFrame
  <2> QED BY <2>7, <2>8, <2>9 DEF EngineInv, TypeOK
<1> QED BY <1>5, <1>8, <1>9

\* Apply's ends: published, failed in the read-back, or panicked.
LEMMA ApplyEndsInv ==
    ASSUME EngineInv, NEW w \in Write, ApplyPublish(w) \/ ApplyFails(w) \/ ApplyPanics(w)
    PROVE  EngineInv'
<1> USE DEF pgVars, engineVars, lifeVars, viewVars, genVars, countVars
<1>1. /\ applyMu = w /\ applyMu' = Null /\ ReturnFrom(w) /\ building' = Null
      /\ UNCHANGED <<pgVars, file, lifeVars, baseLineage, genVars, countVars, bootGap, load, save,
                     query>>
  BY ScopeFacts DEF ApplyPublish, ApplyFails, ApplyPanics, InCritical, CriticalPC
<1>2. loop \in LoopType
  BY DEF EngineInv, TypeOK, LoaderTypeOK
<1>3. /\ loop' \in LoopType
      /\ loop'.pc = loop.pc \/ (loop.pc = "none" /\ loop'.pc = "top")
      /\ loop'.finishing = loop.finishing
      /\ state' = "fallback" => state = "fallback" \/ loop'.pc # "none"
      /\ state' \in {state, "fallback"}
  BY <1>2, StartFallbackRebuildType DEF ApplyPublish, ApplyFails, ApplyPanics, EnterFallback
<1>4. snap' \in Rows \cup {Null} /\ delta' \in BOOLEAN
  <2>1. CASE ApplyPublish(w)
    <3>1. building \in BuildingType
      BY <2>1 DEF ApplyPublish, EngineInv, TypeOK, LoaderTypeOK, ControlInv, HeldInv
    <3> QED BY <2>1, <3>1 DEF ApplyPublish, BuildingType
  <2>2. CASE ApplyFails(w) \/ ApplyPanics(w)
    BY <2>2 DEF ApplyFails, ApplyPanics, EngineInv, TypeOK, EngineTypeOK
  <2> QED BY <2>1, <2>2
<1>5. applyEpoch' \in Nat /\ used' \in Counts
  BY UsedType DEF ApplyPublish, ApplyFails, ApplyPanics, EngineInv, TypeOK, EngineTypeOK, StoreTypeOK
<1>6. /\ acked' \in Rows
      /\ WriteTypeOK' /\ ControlInv' /\ FallbackHasARebuild' /\ GenerationInv'
  BY <1>1, <1>3, ReturnFromInv
<1>7. StoreTypeOK' /\ EngineTypeOK' /\ LoaderTypeOK' /\ ReaderTypeOK'
  BY <1>1, <1>3, <1>4, <1>5, <1>6 DEF EngineInv, TypeOK, StoreTypeOK, EngineTypeOK, LoaderTypeOK,
     ReaderTypeOK
<1> QED BY <1>6, <1>7 DEF EngineInv, TypeOK

\* Every step of a driver call preserves the invariant.
LEMMA WriteNextInv ==
    ASSUME EngineInv, NEW w \in Write, WriteNext(w)
    PROVE  EngineInv'
BY DriverStepInv, DurableStepInv, BumpFailsInv, AbandonStepInv, ApplyHoldsInv, ApplyDecideInv,
   ApplyEndsInv
   DEF WriteNext, DriverStep, ApplyStep, WriteFault
-----------------------------------------------------------------------------
(* The rebuild loop and its launcher.                                       *)

\* A step that moves no write keeps the invariant if the lock and what the
\* loop and the save have in hand are in order.
LEMMA BackgroundFrame ==
    ASSUME EngineInv, up, UNCHANGED <<up, ws, dirtyGen, settledGen>>,
           \/ /\ applyMu' = applyMu /\ building' = building
              /\ loop'.pc \in LoaderPC <=> loop.pc \in LoaderPC
              /\ loop'.pc = "bootReplay" => loop.pc = "bootReplay"
           \/ /\ applyMu \in {Loader, Null}
              /\ applyMu' = IF loop'.pc \in LoaderPC THEN Loader ELSE Null
              /\ loop'.pc = "bootReplay" => building' # Null,
           loop'.pc \in HoldsRows => load'.rows # Null,
           loop'.pc \in HoldsStamp => load'.counter # Null,
           save'.pc = "write" => save'.rows # Null,
           ~stopping' /\ state' = "fallback" => loop'.pc # "none" \/ loop'.finishing > 0,
           resolvedGen' <= settledGen, load'.gen <= settledGen
    PROVE  ControlInv' /\ GenerationInv' /\ FallbackHasARebuild'
<1>1. ws' = ws /\ up' /\ dirtyGen' = dirtyGen /\ settledGen' = settledGen
  OBVIOUS
<1>2. Loader \notin Write /\ Null \notin Write /\ Null # Loader
  BY EngineConstants
<1>3. LockInv'
  BY <1>1, <1>2 DEF EngineInv, ControlInv, LockInv, InCritical, LoaderPC
<1>4. HeldInv'
  BY <1>1, <1>2
  DEF EngineInv, ControlInv, LockInv, HeldInv, InCritical, CriticalPC, LoaderPC, HoldsRows, HoldsStamp
<1>5. DownInv'
  BY <1>1 DEF EngineInv, ControlInv, DownInv, InFlight
<1>6. GenerationInv'
  BY <1>1 DEF EngineInv, GenerationInv, Unsettled
<1>7. FallbackHasARebuild'
  BY <1>1 DEF FallbackHasARebuild
<1> QED BY <1>3, <1>4, <1>5, <1>6, <1>7 DEF ControlInv

\* A step of the rebuild loop moves its place alone.
LEMMA LoopStepType ==
    ASSUME EngineInv, NEW from, NEW to \in LoopPC, LoopStep(from, to)
    PROVE  /\ loop' \in LoopType /\ loop.pc = from /\ loop'.pc = to
           /\ loop'.finishing = loop.finishing
BY DEF LoopStep, EngineInv, TypeOK, LoaderTypeOK, LoopType

\* What the loop and the save may take for granted.
LEMMA BackgroundFacts ==
    ASSUME EngineInv
    PROVE  /\ loop \in LoopType /\ load \in LoadType /\ save \in SaveType
           /\ loop.finishing \in Nat /\ load.gen \in Nat /\ load.target \in Nat
           /\ load.epoch \in Nat /\ load.lineage \in Nat
           /\ load.rows \in Rows \cup {Null} /\ load.counter \in Nat \cup {Null}
           /\ pgRow \in Rows /\ pgCounter \in Nat /\ pgSeq \in Nat /\ pgLineage \in Nat
           /\ state \in {"serving", "fallback"} /\ bootGap \in BootGapType
           /\ applyEpoch \in Nat /\ settledGen \in Nat /\ resolvedGen \in Nat /\ dirtyGen \in Nat
           /\ resolvedGen <= settledGen /\ load.gen <= settledGen
           /\ loop.pc # "none" \/ loop.finishing > 0 \/ loop.launcher # "none" \/ loop.fresh => up
           /\ save.pc # "idle" => up
           /\ loop.pc \in HoldsRows => load.rows # Null
           /\ loop.pc \in HoldsStamp => load.counter # Null
           /\ loop.pc \in LoaderPC <=> applyMu = Loader
           /\ loop.pc = "bootReplay" => building # Null
           /\ save.pc = "write" => save.rows # Null
           /\ ~stopping /\ state = "fallback" /\ up => loop.pc # "none" \/ loop.finishing > 0
BY DEF EngineInv, TypeOK, StoreTypeOK, EngineTypeOK, LoaderTypeOK, ReaderTypeOK, LoadType, LoopType,
   GenerationInv, ControlInv, LockInv, HeldInv, DownInv, HoldsRows, HoldsStamp, LoaderPC,
   FallbackHasARebuild

\* The zero value of the load and of the save.
LEMMA NewLoadType == NewLoad \in LoadType /\ NewLoad.gen = 0
BY DEF NewLoad, LoadType

\* A save that is over has its type.
LEMMA NewSaveType == NewSave \in SaveType /\ NewSave.pc = "idle"
BY DEF NewSave, SaveType, SavePC

\* Steps that move only the loop and its load.
LEMMA LoopOnly ==
    ASSUME EngineInv, up, used' \in Counts, loop' \in LoopType, load' \in LoadType,
           loop'.pc \in LoaderPC <=> loop.pc \in LoaderPC,
           loop'.pc = "bootReplay" => loop.pc = "bootReplay",
           loop'.pc \in HoldsRows => load'.rows # Null,
           loop'.pc \in HoldsStamp => load'.counter # Null,
           ~stopping /\ state = "fallback" => loop'.pc # "none" \/ loop'.finishing > 0,
           load'.gen <= settledGen,
           UNCHANGED <<pgVars, file, engineVars, ws, building, save, query, acked>>
    PROVE  EngineInv'
<1> USE DEF pgVars, engineVars, lifeVars, viewVars, genVars, countVars
<1>1. TypeOK'
  BY DEF EngineInv, TypeOK, StoreTypeOK, EngineTypeOK, LoaderTypeOK, WriteTypeOK, ReaderTypeOK
<1>2. ControlInv' /\ GenerationInv' /\ FallbackHasARebuild'
  BY BackgroundFacts, BackgroundFrame
<1> QED BY <1>1, <1>2 DEF EngineInv

\* One attempt, up to its adoption.
LEMMA RebuildAttemptInv ==
    ASSUME EngineInv,
           \/ RebuildReadEpoch \/ RebuildReadGen \/ RebuildLoad \/ RebuildLoadUncounted
           \/ RebuildFails \/ RebuildRefused \/ LoopBackoff
    PROVE  EngineInv'
<1>1. CASE RebuildReadEpoch
  <2>1. loop' \in LoopType /\ loop.pc = "top" /\ loop'.pc = "gen"
    BY <1>1, LoopStepType DEF RebuildReadEpoch, LoopPC
  <2>2. load' \in LoadType /\ load'.gen <= settledGen
    BY <1>1, BackgroundFacts, NewLoadType DEF RebuildReadEpoch, LoadType, NewLoad
  <2>3. used' \in Counts /\ UNCHANGED <<pgVars, file, engineVars, ws, building, save, query, acked>>
    BY <1>1, UsedType DEF RebuildReadEpoch, EngineInv, TypeOK, StoreTypeOK
  <2> QED BY <2>1, <2>2, <2>3, BackgroundFacts, LoopOnly DEF LoaderPC, HoldsRows, HoldsStamp
<1>2. CASE RebuildReadGen
  <2>1. loop' \in LoopType /\ loop.pc = "gen" /\ loop'.pc = "load"
    BY <1>2, LoopStepType DEF RebuildReadGen, LoopPC
  <2>2. load' \in LoadType /\ load'.gen <= settledGen
    BY <1>2, BackgroundFacts, NewLoadType DEF RebuildReadGen, LoadType
  <2>3. used' \in Counts /\ UNCHANGED <<pgVars, file, engineVars, ws, building, save, query, acked>>
    BY <1>2, UsedType DEF RebuildReadGen, EngineInv, TypeOK, StoreTypeOK
  <2> QED BY <2>1, <2>2, <2>3, BackgroundFacts, LoopOnly DEF LoaderPC, HoldsRows, HoldsStamp
<1>3. CASE RebuildLoad
  <2>1. loop' \in LoopType /\ loop.pc = "load" /\ loop'.pc = "adopt"
    BY <1>3, LoopStepType DEF RebuildLoad, LoopPC
  <2>2. load' \in LoadType /\ load'.gen <= settledGen /\ load'.rows # Null
    BY <1>3, BackgroundFacts, NewLoadType, EngineConstants DEF RebuildLoad, LoadType, Rows
  <2>3. used' \in Counts /\ UNCHANGED <<pgVars, file, engineVars, ws, building, save, query, acked>>
    BY <1>3, UsedType DEF RebuildLoad, EngineInv, TypeOK, StoreTypeOK
  <2> QED BY <2>1, <2>2, <2>3, BackgroundFacts, LoopOnly DEF LoaderPC, HoldsRows, HoldsStamp
<1>4. CASE RebuildLoadUncounted
  <2>1. loop' \in LoopType /\ loop.pc = "load" /\ loop'.pc = "adopt"
    BY <1>4, LoopStepType DEF RebuildLoadUncounted, LoopPC
  <2>2. load' \in LoadType /\ load'.gen <= settledGen /\ load'.rows # Null
    <3>1. PICK c \in {Null, pgCounter} : load' = [load EXCEPT !.rows = pgRow, !.counter = c]
      BY <1>4 DEF RebuildLoadUncounted
    <3>2. c \in Nat \cup {Null}
      BY BackgroundFacts
    <3> QED BY <3>1, <3>2, BackgroundFacts, EngineConstants DEF LoadType, Rows
  <2>3. used' \in Counts /\ UNCHANGED <<pgVars, file, engineVars, ws, building, save, query, acked>>
    BY <1>4, UsedType DEF RebuildLoadUncounted, EngineInv, TypeOK, StoreTypeOK
  <2> QED BY <2>1, <2>2, <2>3, BackgroundFacts, LoopOnly DEF LoaderPC, HoldsRows, HoldsStamp
<1>5. CASE RebuildFails
  <2>1. loop' \in LoopType /\ loop.pc = "load" /\ loop'.pc = "backoff"
    BY <1>5, LoopStepType DEF RebuildFails, LoopPC
  <2>2. load' \in LoadType /\ load'.gen <= settledGen
    BY <1>5, BackgroundFacts, NewLoadType DEF RebuildFails, LoadType
  <2>3. used' \in Counts /\ UNCHANGED <<pgVars, file, engineVars, ws, building, save, query, acked>>
    BY <1>5, UsedType DEF RebuildFails, EngineInv, TypeOK, StoreTypeOK
  <2> QED BY <2>1, <2>2, <2>3, BackgroundFacts, LoopOnly DEF LoaderPC, HoldsRows, HoldsStamp
<1>6. CASE RebuildRefused
  <2>1. loop' \in LoopType /\ loop.pc = "adopt" /\ loop'.pc = "backoff"
    BY <1>6, LoopStepType DEF RebuildRefused, LoopPC
  <2>2. load' \in LoadType /\ load'.gen <= settledGen
    BY <1>6, BackgroundFacts, NewLoadType DEF RebuildRefused, LoadType
  <2>3. used' \in Counts /\ UNCHANGED <<pgVars, file, engineVars, ws, building, save, query, acked>>
    BY <1>6, UsedType DEF RebuildRefused, EngineInv, TypeOK, StoreTypeOK
  <2> QED BY <2>1, <2>2, <2>3, BackgroundFacts, LoopOnly DEF LoaderPC, HoldsRows, HoldsStamp
<1>7. CASE LoopBackoff
  <2>1. loop' \in LoopType /\ loop.pc = "backoff" /\ loop'.pc = "top"
    BY <1>7, LoopStepType DEF LoopBackoff, LoopPC
  <2>2. load' \in LoadType /\ load'.gen <= settledGen
    BY <1>7, BackgroundFacts, NewLoadType DEF LoopBackoff, LoadType
  <2>3. used' \in Counts /\ UNCHANGED <<pgVars, file, engineVars, ws, building, save, query, acked>>
    BY <1>7, UsedType DEF LoopBackoff, EngineInv, TypeOK, StoreTypeOK
  <2> QED BY <2>1, <2>2, <2>3, BackgroundFacts, LoopOnly DEF LoaderPC, HoldsRows, HoldsStamp
<1> QED BY <1>1, <1>2, <1>3, <1>4, <1>5, <1>6, <1>7

\* The loop's end, the recheck after it, and the launcher.
LEMMA LoopEndsInv ==
    ASSUME EngineInv,
           LoopStops \/ LoopFinish \/ RelaunchAfterAdoption \/ LauncherStep
    PROVE  EngineInv'
<1>1. used' \in Counts /\ UNCHANGED <<pgVars, file, engineVars, ws, building, save, query, acked>>
  BY DEF LoopStops, LoopFinish, RelaunchAfterAdoption, LauncherStep, IntervalElapses, LauncherFires,
     LauncherLeaves, EngineInv, TypeOK, StoreTypeOK
<1>2. ASSUME loop' \in LoopType, loop'.pc = loop.pc \/ (loop.pc = "none" /\ loop'.pc = "top"),
             load' = load, up,
             ~stopping /\ state = "fallback" => loop'.pc # "none" \/ loop'.finishing > 0
      PROVE  EngineInv'
  <2>1. load' \in LoadType /\ load'.gen <= settledGen
    BY <1>2, BackgroundFacts
  <2> QED BY <1>1, <1>2, <2>1, BackgroundFacts, LoopOnly DEF LoaderPC, HoldsRows, HoldsStamp
<1>3. CASE LoopStops
  <2>1. loop' \in LoopType /\ loop'.pc = "none" /\ stopping /\ loop.pc \in {"boot", "top", "backoff"}
    BY <1>3, BackgroundFacts DEF LoopStops, LoopType, LoopPC
  <2>2. load' \in LoadType /\ load'.gen <= settledGen
    BY <1>3, NewLoadType, BackgroundFacts DEF LoopStops
  <2> QED BY <1>1, <2>1, <2>2, BackgroundFacts, LoopOnly DEF LoaderPC, HoldsRows, HoldsStamp
<1>4. CASE LoopFinish
  <2>1. loop.pc = "finish" /\ load' = load
    BY <1>4 DEF LoopFinish
  <2> DEFINE n == loop.finishing + 1
  <2>2. n \in Nat /\ n > 0
    BY BackgroundFacts
  <2>3. loop' = [loop EXCEPT !.pc = "none", !.finishing = n]
    BY <1>4 DEF LoopFinish
  <2> HIDE DEF n
  <2>4. loop' \in LoopType /\ loop'.pc = "none" /\ loop'.finishing > 0
    BY <2>2, <2>3, BackgroundFacts DEF LoopType, LoopPC
  <2>5. load' \in LoadType /\ load'.gen <= settledGen
    BY <2>1, BackgroundFacts
  <2> QED BY <1>1, <2>1, <2>4, <2>5, BackgroundFacts, LoopOnly DEF LoaderPC, HoldsRows, HoldsStamp
<1>5. CASE RelaunchAfterAdoption
  <2> DEFINE done == [loop EXCEPT !.finishing = loop.finishing - 1]
  <2>1. loop.finishing > 0 /\ load' = load
    BY <1>5 DEF RelaunchAfterAdoption
  <2>2. done \in LoopType /\ done.pc = loop.pc
    BY <2>1, BackgroundFacts DEF LoopType
  <2>3. \/ state = "fallback" /\ loop' = StartFallbackRebuild(done)
        \/ state # "fallback" /\ loop' = RequestTrustRebuild(done)
        \/ state # "fallback" /\ loop' = done
    BY <1>5 DEF RelaunchAfterAdoption
  <2> HIDE DEF done
  <2>4. /\ loop' \in LoopType
        /\ loop'.pc = loop.pc \/ (loop.pc = "none" /\ loop'.pc = "top")
        /\ state = "fallback" => loop'.pc # "none"
    BY <2>2, <2>3, StartFallbackRebuildType, RequestTrustRebuildType
  <2> QED BY <1>2, <2>1, <2>4, BackgroundFacts
<1>6. CASE IntervalElapses \/ LauncherLeaves
  <2>1. loop' \in LoopType /\ loop'.pc = loop.pc /\ loop'.finishing = loop.finishing /\ load' = load
    BY <1>6, BackgroundFacts DEF IntervalElapses, LauncherLeaves, LoopType
  <2>2. up
    BY <1>6, BackgroundFacts DEF IntervalElapses, LauncherLeaves
  <2> QED BY <1>2, <2>1, <2>2, BackgroundFacts
<1>7. CASE LauncherFires
  <2> DEFINE l == [loop EXCEPT !.launcher = "leaving"]
             f == [loop EXCEPT !.launcher = "leaving", !.fresh = TRUE]
  <2>1. /\ l \in LoopType /\ l.pc = loop.pc /\ l.finishing = loop.finishing
        /\ f \in LoopType /\ f.pc = loop.pc /\ f.finishing = loop.finishing
    BY BackgroundFacts DEF LoopType
  <2>2. loop' \in {l, StartFallbackRebuild(f)} /\ load' = load /\ loop.launcher = "due"
    BY <1>7 DEF LauncherFires
  <2> HIDE DEF l, f
  <2>3. /\ loop' \in LoopType
        /\ loop'.pc = loop.pc \/ (loop.pc = "none" /\ loop'.pc = "top")
        /\ loop'.finishing = loop.finishing
    BY <2>1, <2>2, StartFallbackRebuildType
  <2> QED BY <1>2, <2>2, <2>3, BackgroundFacts
<1> QED BY <1>3, <1>4, <1>5, <1>6, <1>7 DEF LauncherStep

\* The steps that publish the loaded rows, and the panic that gives them up.
LEMMA RebuildAdoptsInv ==
    ASSUME EngineInv, RebuildAdopt \/ RebuildFlip \/ RebuildRebase \/ RebuildPanics
    PROVE  EngineInv'
<1> USE DEF pgVars, engineVars, lifeVars, viewVars, genVars, countVars
<1>1. CASE RebuildAdopt
  <2>1. loop' \in LoopType /\ loop.pc = "adopt" /\ loop'.pc = "flip" /\ load' = load
    BY <1>1, LoopStepType DEF RebuildAdopt, LoopPC
  <2>2. load.rows \in Rows
    BY <2>1, BackgroundFacts DEF HoldsRows
  <2>3. resolvedGen' \in Nat /\ resolvedGen' <= settledGen
    BY <1>1, BackgroundFacts DEF RebuildAdopt, MaxOf
  <2>4. bootGap' \in BootGapType
    BY <1>1, BackgroundFacts, NewScopeType, BootGapTypes DEF RebuildAdopt
  <2>5. TypeOK'
    BY <1>1, <2>1, <2>2, <2>3, <2>4, BackgroundFacts
    DEF RebuildAdopt, EngineInv, TypeOK, StoreTypeOK, EngineTypeOK, LoaderTypeOK, WriteTypeOK,
        ReaderTypeOK
  <2>6. /\ up /\ UNCHANGED <<up, ws, dirtyGen, settledGen, stopping, state, save>>
        /\ applyMu = Null /\ applyMu' = Loader
    BY <1>1, <2>1, BackgroundFacts DEF RebuildAdopt
  <2>7. ControlInv' /\ GenerationInv' /\ FallbackHasARebuild'
    BY <2>1, <2>3, <2>6, BackgroundFacts, BackgroundFrame DEF LoaderPC, HoldsRows, HoldsStamp
  <2> QED BY <2>5, <2>7 DEF EngineInv
<1>2. CASE RebuildFlip
  <2>1. loop' \in LoopType /\ loop.pc = "flip" /\ loop'.pc = "rebase" /\ load' = load
    BY <1>2, LoopStepType DEF RebuildFlip, LoopPC
  <2>2. TypeOK'
    BY <1>2, <2>1
    DEF RebuildFlip, EngineInv, TypeOK, StoreTypeOK, EngineTypeOK, LoaderTypeOK, WriteTypeOK,
        ReaderTypeOK
  <2>3. /\ up /\ UNCHANGED <<up, ws, dirtyGen, settledGen, resolvedGen, save>>
        /\ applyMu = Loader /\ applyMu' = Null
    BY <1>2, <2>1, BackgroundFacts DEF RebuildFlip, LoaderPC
  <2>4. ControlInv' /\ GenerationInv' /\ FallbackHasARebuild'
    BY <2>1, <2>3, BackgroundFacts, BackgroundFrame DEF LoaderPC, HoldsRows, HoldsStamp
  <2> QED BY <2>2, <2>4 DEF EngineInv
<1>3. CASE RebuildRebase
  <2>1. loop' \in LoopType /\ loop.pc = "rebase" /\ loop'.pc = "finish"
    BY <1>3, LoopStepType DEF RebuildRebase, LoopPC
  <2>2. BoundedLedger(ledger)
    BY DEF EngineInv, TypeOK, EngineTypeOK, BoundedLedger
  <2>3. BoundedLedger(ledger')
    <3>1. CASE load.counter = Null
      BY <1>3, <2>2, <3>1 DEF RebuildRebase
    <3>2. CASE load.counter # Null
      <4>1. load.counter \in Nat
        BY <3>2, BackgroundFacts
      <4> QED BY <1>3, <2>2, <3>2, <4>1, RebaseBounded DEF RebuildRebase
    <3> QED BY <3>1, <3>2
  <2>4. load' \in LoadType /\ load'.gen <= settledGen
    BY <1>3, NewLoadType, BackgroundFacts DEF RebuildRebase
  <2>5. TypeOK'
    BY <1>3, <2>1, <2>3, <2>4
    DEF RebuildRebase, EngineInv, TypeOK, StoreTypeOK, EngineTypeOK, LoaderTypeOK, WriteTypeOK,
        ReaderTypeOK, BoundedLedger
  <2>6. up /\ UNCHANGED <<up, ws, dirtyGen, settledGen, resolvedGen, stopping, state, save, applyMu,
                          building>>
    BY <1>3, <2>1, BackgroundFacts DEF RebuildRebase
  <2>7. ControlInv' /\ GenerationInv' /\ FallbackHasARebuild'
    BY <2>1, <2>4, <2>6, BackgroundFacts, BackgroundFrame DEF LoaderPC, HoldsRows, HoldsStamp
  <2> QED BY <2>5, <2>7 DEF EngineInv
<1>4. CASE RebuildPanics
  <2> DEFINE l == [loop EXCEPT !.pc = "backoff"]
  <2>1. l \in LoopType /\ l.pc = "backoff"
    BY BackgroundFacts DEF LoopType, LoopPC
  <2>2. loop' = StartFallbackRebuild(l) /\ state' = "fallback" /\ loop.pc \in {"gen", "load", "adopt"}
    BY <1>4 DEF RebuildPanics, EnterFallback
  <2> HIDE DEF l
  <2>3. loop' \in LoopType /\ loop'.pc = "backoff"
    BY <2>1, <2>2, StartFallbackRebuildType
  <2>4. TypeOK'
    BY <1>4, <2>2, <2>3, UsedType
    DEF RebuildPanics, EngineInv, TypeOK, StoreTypeOK, EngineTypeOK, LoaderTypeOK, WriteTypeOK,
        ReaderTypeOK
  <2>5. up /\ UNCHANGED <<up, ws, dirtyGen, settledGen, resolvedGen, load, save, applyMu, building>>
    BY <1>4, <2>2, BackgroundFacts DEF RebuildPanics
  <2>6. ControlInv' /\ GenerationInv' /\ FallbackHasARebuild'
    BY <2>2, <2>3, <2>5, BackgroundFacts, BackgroundFrame DEF LoaderPC, HoldsRows, HoldsStamp
  <2> QED BY <2>4, <2>6 DEF EngineInv
<1> QED BY <1>1, <1>2, <1>3, <1>4

\* Every step of the rebuild loop and its launcher preserves the invariant.
LEMMA RebuildNextInv ==
    ASSUME EngineInv, RebuildNext
    PROVE  EngineInv'
BY RebuildAttemptInv, LoopEndsInv, RebuildAdoptsInv DEF RebuildNext, RebuildStep, RebuildFault
-----------------------------------------------------------------------------
(* Saves and compactions.                                                   *)

\* Every step of a save keeps the invariant: it moves the save itself, and at
\* most the file, the loop and the bounds.
LEMMA SaveOnly ==
    ASSUME EngineInv, up, save' \in SaveType, save'.pc = "write" => save'.rows # Null,
           file' \in FileType \cup {Null}, used' \in Counts, loop' \in LoopType,
           loop'.pc = loop.pc \/ (loop.pc = "none" /\ loop'.pc = "top"),
           loop'.finishing = loop.finishing,
           UNCHANGED <<pgVars, engineVars, load, ws, building, query, acked>>
    PROVE  EngineInv'
<1> USE DEF pgVars, engineVars, lifeVars, viewVars, genVars, countVars
<1>1. TypeOK'
  BY DEF EngineInv, TypeOK, StoreTypeOK, EngineTypeOK, LoaderTypeOK, WriteTypeOK, ReaderTypeOK
<1>2. ControlInv' /\ GenerationInv' /\ FallbackHasARebuild'
  BY BackgroundFacts, BackgroundFrame DEF LoaderPC, HoldsRows, HoldsStamp
<1> QED BY <1>1, <1>2 DEF EngineInv

\* Every step of a save, and a compaction, preserve the invariant.
LEMMA SaveNextInv ==
    ASSUME EngineInv, SaveNext
    PROVE  EngineInv'
<1> USE DEF pgVars, engineVars, lifeVars, viewVars, genVars, countVars
<1>1. /\ file \in FileType \cup {Null} /\ used \in Counts /\ inflight \in Int
      /\ snap \in Rows \cup {Null} /\ baseLineage \in Nat
  BY DEF EngineInv, TypeOK, StoreTypeOK, EngineTypeOK
<1>2. ASSUME NEW shutdown \in BOOLEAN, SaveBegin(shutdown) PROVE EngineInv'
  <2>1. save' \in SaveType /\ save'.pc = "counter"
    BY <1>2, NewSaveType, BackgroundFacts DEF SaveBegin, SaveType, SavePC
  <2>2. used' \in Counts
    BY <1>1, <1>2 DEF SaveBegin, Counts
  <2> QED BY <1>1, <1>2, <2>1, <2>2, BackgroundFacts, SaveOnly DEF SaveBegin
<1>3. CASE SaveReadCounter \/ SaveReadInflight \/ SaveReadSequence
  <2>1. save' \in SaveType /\ save'.pc # "write" /\ up
    BY <1>1, <1>3, BackgroundFacts
    DEF SaveReadCounter, SaveReadInflight, SaveReadSequence, SaveType, SavePC
  <2> QED BY <1>1, <1>3, <2>1, BackgroundFacts, SaveOnly
          DEF SaveReadCounter, SaveReadInflight, SaveReadSequence
<1>4. CASE SaveReadLedger
  <2>1. save' \in SaveType /\ save'.pc # "write" /\ up
    BY <1>4, BackgroundFacts, NewSaveType DEF SaveReadLedger, SaveStep, SaveDone, SaveType, SavePC
  <2>2. loop' \in {loop, RequestTrustRebuild(loop)}
    BY <1>4 DEF SaveReadLedger
  <2>3. /\ loop' \in LoopType
        /\ loop'.pc = loop.pc \/ (loop.pc = "none" /\ loop'.pc = "top")
        /\ loop'.finishing = loop.finishing
    BY <2>2, BackgroundFacts, RequestTrustRebuildType
  <2> QED BY <1>1, <1>4, <2>1, <2>3, SaveOnly DEF SaveReadLedger
<1>5. CASE SavePrepare
  <2>1. up
    BY <1>5, BackgroundFacts DEF SavePrepare
  <2>2. CASE SavePreconditions /\ ~DeltaRefuses
    <3>1. snap \in Rows /\ snap # Null
      BY <1>1, <2>2 DEF SavePreconditions
    <3>2. save' \in SaveType /\ save'.rows = snap
      BY <1>1, <1>5, <2>2, <3>1, BackgroundFacts DEF SavePrepare, SaveType, SavePC
    <3> QED BY <1>1, <1>5, <2>1, <2>2, <3>1, <3>2, BackgroundFacts, SaveOnly DEF SavePrepare
  <2>3. CASE ~SavePreconditions \/ DeltaRefuses
    <3>1. loop' \in {loop, RequestTrustRebuild(loop)} /\ save' = NewSave
      BY <1>5, <2>3 DEF SavePrepare, SaveDone
    <3>2. /\ loop' \in LoopType
          /\ loop'.pc = loop.pc \/ (loop.pc = "none" /\ loop'.pc = "top")
          /\ loop'.finishing = loop.finishing
      BY <3>1, BackgroundFacts, RequestTrustRebuildType
    <3> QED BY <1>1, <1>5, <2>1, <3>1, <3>2, NewSaveType, SaveOnly DEF SavePrepare
  <2> QED BY <2>2, <2>3
<1>6. CASE SaveWrite \/ SaveWriteFails
  <2>1. up /\ save.pc = "write" /\ save.rows \in Rows
    BY <1>6, BackgroundFacts DEF SaveWrite, SaveWriteFails, SaveStep, SaveType
  <2>2. save' \in SaveType /\ save'.pc = "recheck"
    BY <1>6, BackgroundFacts DEF SaveWrite, SaveWriteFails, SaveStep, SaveType, SavePC
  <2>3. file' \in FileType \cup {Null}
    <3>1. CASE SaveWrite
      <4>1. save.counter \in Nat /\ save.seq \in Nat /\ save.lineage \in Nat
        BY BackgroundFacts DEF SaveType
      <4> QED BY <2>1, <3>1, <4>1 DEF SaveWrite, FileType
    <3>2. CASE SaveWriteFails
      BY <1>1, <3>2 DEF SaveWriteFails
    <3> QED BY <1>6, <3>1, <3>2
  <2>4. used' \in Counts
    BY <1>1, <1>6, UsedType DEF SaveWrite, SaveWriteFails, EngineInv
  <2> QED BY <1>6, <2>1, <2>2, <2>3, <2>4, BackgroundFacts, SaveOnly DEF SaveWrite, SaveWriteFails
<1>7. CASE SaveRecheck
  <2>1. up /\ save' \in SaveType /\ save'.pc = "idle" /\ file' \in FileType \cup {Null}
    BY <1>1, <1>7, NewSaveType, BackgroundFacts DEF SaveRecheck, SaveDone
  <2> QED BY <1>1, <1>7, <2>1, BackgroundFacts, SaveOnly DEF SaveRecheck
<1>8. CASE CompactionAdopted
  <2>1. TypeOK'
    BY <1>8
    DEF CompactionAdopted, EngineInv, TypeOK, StoreTypeOK, EngineTypeOK, LoaderTypeOK, WriteTypeOK,
        ReaderTypeOK
  <2>2. up /\ UNCHANGED <<up, ws, dirtyGen, settledGen, resolvedGen, stopping, state, save, applyMu,
                          building, loop, load>>
    BY <1>8 DEF CompactionAdopted
  <2>3. ControlInv' /\ GenerationInv' /\ FallbackHasARebuild'
    BY <2>2, BackgroundFacts, BackgroundFrame
  <2> QED BY <2>1, <2>3 DEF EngineInv
<1>9. CASE SaveFails
  <2>1. up /\ save' \in SaveType /\ save'.pc = "idle" /\ used' \in Counts
    BY <1>9, NewSaveType, BackgroundFacts, UsedType DEF SaveFails, SaveDone, EngineInv
  <2> QED BY <1>1, <1>9, <2>1, BackgroundFacts, SaveOnly DEF SaveFails
<1> QED BY <1>2, <1>3, <1>4, <1>5, <1>6, <1>7, <1>8, <1>9 DEF SaveNext
-----------------------------------------------------------------------------
(* Starting, and adopting the snapshot file.                                *)

\* A step of the file attempt that does not hold the lock, or lets go of it.
LEMMA BootOnly ==
    ASSUME EngineInv, loop.pc \in {"boot", "bootFile", "bootFreeze", "bootAttempt", "bootReplay"},
           loop' \in LoopType, loop'.pc \in {"bootFile", "bootFreeze", "bootAttempt", "top"},
           load' \in LoadType, load'.gen <= settledGen,
           loop'.pc \in HoldsStamp => load'.rows # Null /\ load'.counter # Null,
           \/ applyMu' = applyMu /\ building' = building /\ loop.pc # "bootReplay"
           \/ applyMu \in {Loader, Null} /\ applyMu' = Null /\ building' = Null,
           bootGap' \in BootGapType, file' \in FileType \cup {Null}, used' \in Counts,
           state' \in {"serving", "fallback"},
           UNCHANGED <<pgVars, lifeVars, snap, baseLineage, delta, genVars, countVars, applyEpoch,
                       ws, save, query, acked>>
    PROVE  EngineInv'
<1> USE DEF pgVars, lifeVars, genVars, countVars
<1>1. TypeOK'
  BY DEF EngineInv, TypeOK, StoreTypeOK, EngineTypeOK, LoaderTypeOK, WriteTypeOK, ReaderTypeOK
<1>2. up /\ loop'.pc \notin LoaderPC /\ (loop.pc # "bootReplay" => loop.pc \notin LoaderPC)
  BY BackgroundFacts DEF LoaderPC
<1>3. /\ loop'.pc \in HoldsRows => load'.rows # Null
      /\ loop'.pc \in HoldsStamp => load'.counter # Null
  BY DEF HoldsRows, HoldsStamp
<1>4. ControlInv' /\ GenerationInv' /\ FallbackHasARebuild'
  BY <1>2, <1>3, BackgroundFacts, BackgroundFrame
<1> QED BY <1>1, <1>4 DEF EngineInv

\* A boot that gives up on the file goes on to a rebuild.
LEMMA GiveUpOnFileType ==
    ASSUME EngineInv, GiveUpOnFile
    PROVE  /\ loop' \in LoopType /\ loop'.pc = "top"
           /\ load' \in LoadType /\ load'.gen <= settledGen
           /\ bootGap' \in BootGapType
           /\ loop'.pc \notin HoldsStamp
<1>1. loop' \in LoopType /\ loop'.pc = "top"
  BY BackgroundFacts DEF GiveUpOnFile, LoopType, LoopPC
<1>2. load' \in LoadType /\ load'.gen <= settledGen
  BY BackgroundFacts, NewLoadType DEF GiveUpOnFile
<1>3. bootGap' \in BootGapType
  BY BackgroundFacts, NewScopeType, BootGapTypes DEF GiveUpOnFile
<1> QED BY <1>1, <1>2, <1>3 DEF HoldsStamp

\* Every way the attempt goes on or is given up before the buffer is taken.
LEMMA BootAttemptInv ==
    ASSUME EngineInv,
           \/ BootReadGen \/ BootReadFile \/ BootFreeze \/ BootAttemptRejected
           \/ BootReadFileUnchecked \/ BootFileFails
           \/ BootSettleTimeout \/ BootReplayFails \/ BootPanics
    PROVE  EngineInv'
<1> USE DEF pgVars, engineVars, lifeVars, viewVars, genVars, countVars
<1>1. file \in FileType \cup {Null} /\ used \in Counts
  BY DEF EngineInv, TypeOK, StoreTypeOK
<1>2. CASE GiveUpOnFile
  <2>1. /\ loop' \in LoopType /\ loop'.pc = "top" /\ loop'.pc \notin HoldsStamp
        /\ load' \in LoadType /\ load'.gen <= settledGen /\ bootGap' \in BootGapType
    BY <1>2, GiveUpOnFileType
  <2>2. CASE BootReadGen \/ BootReadFile \/ BootFreeze \/ BootAttemptRejected \/ BootSettleTimeout
    <3>1. /\ loop.pc \in {"boot", "bootFile", "bootFreeze", "bootAttempt"}
          /\ UNCHANGED <<pgVars, file, lifeVars, viewVars, genVars, countVars, applyMu, applyEpoch,
                         ws, building, save, query, used, acked>>
      BY <2>2 DEF BootReadGen, BootReadFile, BootFreeze, BootAttemptRejected, BootSettleTimeout
    <3> QED BY <1>1, <2>1, <3>1, BackgroundFacts, BootOnly
  <2>3. CASE BootReplayFails \/ BootPanics
    <3>1. used' \in Counts /\ file' \in FileType \cup {Null} /\ state' \in {"serving", "fallback"}
      BY <1>1, <2>3, UsedType, BackgroundFacts DEF BootReplayFails, BootPanics, EngineInv
    <3>2. /\ loop.pc \in {"boot", "bootFile", "bootFreeze", "bootAttempt", "bootReplay"}
          /\ applyMu \in {Loader, Null} /\ applyMu' = Null /\ building' = Null
          /\ UNCHANGED <<pgVars, lifeVars, snap, baseLineage, delta, genVars, countVars, applyEpoch,
                         ws, save, query, acked>>
      BY <2>3, BackgroundFacts DEF BootReplayFails, BootPanics, LoaderPC
    <3> QED BY <2>1, <3>1, <3>2, BootOnly
  <2>4. CASE BootReadFileUnchecked \/ BootFileFails
    <3>1. /\ loop.pc \in {"bootFile", "bootFreeze"} /\ used' \in Counts
          /\ UNCHANGED <<pgVars, file, lifeVars, viewVars, genVars, countVars, applyMu, applyEpoch,
                         ws, building, save, query, acked>>
      BY <2>4, UsedType DEF BootReadFileUnchecked, BootFileFails, ReadSnapshotFile, LoopStep, EngineInv
    <3> QED BY <1>1, <2>1, <3>1, BackgroundFacts, BootOnly
  <2> QED BY <2>2, <2>3, <2>4
<1>3. CASE BootReadGen /\ ~GiveUpOnFile
  <2>1. loop' \in LoopType /\ loop.pc = "boot" /\ loop'.pc = "bootFile"
    BY <1>3, LoopStepType DEF BootReadGen, LoopPC
  <2>2. load' \in LoadType /\ load'.gen <= settledGen /\ bootGap' \in BootGapType
    BY <1>3, NewLoadType, BackgroundFacts DEF BootReadGen, LoadType, NewLoad
  <2> QED BY <1>1, <1>3, <2>1, <2>2, BackgroundFacts, BootOnly DEF BootReadGen, HoldsStamp
<1>4. CASE (BootReadFile \/ BootReadFileUnchecked) /\ ~GiveUpOnFile
  <2>1. loop' \in LoopType /\ loop.pc = "bootFile" /\ loop'.pc = "bootFreeze"
    BY <1>4, LoopStepType DEF BootReadFile, BootReadFileUnchecked, ReadSnapshotFile, LoopPC
  <2>2. file \in FileType /\ used' \in Counts
    BY <1>1, <1>4, UsedType DEF BootReadFile, BootReadFileUnchecked, FileUsable, EngineInv
  <2>3. file.rows \in Rows /\ file.counter \in Nat /\ file.seq \in Nat /\ file.lineage \in Nat
    BY <2>2 DEF FileType
  <2>4. /\ load' = [load EXCEPT !.rows = file.rows, !.counter = file.counter, !.seq = file.seq,
                                !.lineage = file.lineage]
        /\ bootGap' = bootGap
    BY <1>4 DEF BootReadFile, BootReadFileUnchecked, ReadSnapshotFile
  <2>5. /\ load' \in LoadType /\ load'.gen = load.gen
        /\ load'.rows = file.rows /\ load'.counter = file.counter
    BY <2>3, <2>4, BackgroundFacts DEF LoadType
  <2>6. load'.rows # Null /\ load'.counter # Null
    BY <2>3, <2>5, EngineConstants DEF Rows
  <2> QED BY <1>1, <1>4, <2>1, <2>2, <2>4, <2>5, <2>6, BackgroundFacts, BootOnly
          DEF BootReadFile, BootReadFileUnchecked
<1>5. CASE BootFreeze /\ ~GiveUpOnFile
  <2>1. LoopStep("bootFreeze", "bootAttempt") /\ load' = [load EXCEPT !.target = pgCounter]
        /\ bootGap' = bootGap
    BY <1>5 DEF BootFreeze
  <2>2. loop' \in LoopType /\ loop.pc = "bootFreeze" /\ loop'.pc = "bootAttempt"
    BY <2>1, LoopStepType DEF LoopPC
  <2>3. /\ load' \in LoadType /\ load'.gen = load.gen
        /\ load'.rows = load.rows /\ load'.counter = load.counter
    BY <2>1, BackgroundFacts DEF LoadType
  <2>4. load.rows # Null /\ load.counter # Null
    BY <2>2, BackgroundFacts DEF HoldsRows, HoldsStamp
  <2> QED BY <1>1, <1>5, <2>1, <2>2, <2>3, <2>4, BackgroundFacts, BootOnly DEF BootFreeze
<1> QED BY <1>2, <1>3, <1>4, <1>5 DEF BootAttemptRejected, BootSettleTimeout, BootFileFails,
        BootReplayFails, BootPanics

\* The replay, under applyMu, and its publication.
LEMMA BootReplayInv ==
    ASSUME EngineInv, BootTake \/ BootReplayRow \/ BootPublish
    PROVE  EngineInv'
<1> USE DEF pgVars, engineVars, lifeVars, viewVars, genVars, countVars
<1>1. CASE BootTake
  <2>1. loop' \in LoopType /\ loop.pc = "bootAttempt" /\ loop'.pc = "bootReplay" /\ load' = load
    BY <1>1, LoopStepType DEF BootTake, LoopPC
  <2>2. load.rows \in Rows /\ load.counter # Null
    BY <2>1, BackgroundFacts DEF HoldsRows, HoldsStamp
  <2>3. UNION {e.keys : e \in bootGap.entries} \in SUBSET Row
    BY BackgroundFacts DEF BootGapType
  <2>4. building' \in BuildingType
    BY <1>1, <2>2, <2>3 DEF BootTake, BuildingType
  <2>5. building' # Null
    BY <2>4, EngineConstants DEF BuildingType, Rows
  <2>6. bootGap' \in BootGapType
    BY <1>1, BackgroundFacts, NewScopeType, BootGapTypes DEF BootTake
  <2>7. TypeOK'
    BY <1>1, <2>1, <2>4, <2>6
    DEF BootTake, EngineInv, TypeOK, StoreTypeOK, EngineTypeOK, LoaderTypeOK, WriteTypeOK,
        ReaderTypeOK
  <2>8. /\ up /\ UNCHANGED <<up, ws, dirtyGen, settledGen, resolvedGen, stopping, state, save>>
        /\ applyMu = Null /\ applyMu' = Loader
    BY <1>1, <2>1, BackgroundFacts DEF BootTake
  <2>9. load.rows # Null
    BY <2>2, EngineConstants DEF Rows
  <2>10. ControlInv' /\ GenerationInv' /\ FallbackHasARebuild'
    BY <2>1, <2>2, <2>5, <2>8, <2>9, BackgroundFacts, BackgroundFrame DEF LoaderPC
  <2> QED BY <2>7, <2>10 DEF EngineInv
<1>2. CASE BootReplayRow
  <2>1. loop.pc = "bootReplay" /\ building \in BuildingType /\ applyMu = Loader
    BY <1>2, BackgroundFacts DEF BootReplayRow, EngineInv, TypeOK, LoaderTypeOK, LoaderPC
  <2>2. PICK r \in building.todo :
            building' = [todo |-> building.todo \ {r},
                         rows |-> [building.rows EXCEPT ![r] = pgRow[r]]]
    BY <1>2 DEF BootReplayRow
  <2>3. building' \in BuildingType
    BY <2>1, <2>2, BackgroundFacts DEF BuildingType, Rows
  <2>4. building' # Null
    BY <2>3, EngineConstants DEF BuildingType, Rows
  <2>5. UNCHANGED <<pgVars, file, engineVars, loop, load, ws, save, query, used, acked>>
    BY <1>2 DEF BootReplayRow
  <2>6. TypeOK'
    BY <2>3, <2>5 DEF EngineInv, TypeOK, StoreTypeOK, EngineTypeOK, LoaderTypeOK, WriteTypeOK,
       ReaderTypeOK
  <2>7. ControlInv'
    BY <2>4, <2>5 DEF EngineInv, ControlInv, LockInv, HeldInv, DownInv, InCritical, InFlight
  <2>8. GenerationInv' /\ FallbackHasARebuild'
    BY <2>5 DEF EngineInv, GenerationInv, Unsettled, FallbackHasARebuild
  <2> QED BY <2>6, <2>7, <2>8 DEF EngineInv
<1>3. CASE BootPublish
  <2>1. loop' \in LoopType /\ loop.pc = "bootReplay" /\ loop'.pc = "finish" /\ applyMu = Loader
    BY <1>3, LoopStepType, BackgroundFacts DEF BootPublish, LoopPC, LoaderPC
  <2>2. building \in BuildingType
    BY <2>1, BackgroundFacts DEF EngineInv, TypeOK, LoaderTypeOK
  <2>3. building.rows \in Rows
    BY <2>2 DEF BuildingType
  <2>4. BoundedLedger(ledger')
    BY <1>3, BackgroundFacts, RebaseBounded
    DEF BootPublish, EngineInv, TypeOK, EngineTypeOK, BoundedLedger
  <2>5. resolvedGen' \in Nat /\ resolvedGen' <= settledGen
    BY <1>3, BackgroundFacts DEF BootPublish, MaxOf
  <2>6. load' \in LoadType /\ load'.gen <= settledGen
    BY <1>3, NewLoadType, BackgroundFacts DEF BootPublish
  <2>7. delta' \in BOOLEAN
    BY <1>3 DEF BootPublish
  <2>8. TypeOK'
    BY <1>3, <2>1, <2>3, <2>4, <2>5, <2>6, <2>7, BackgroundFacts
    DEF BootPublish, EngineInv, TypeOK, StoreTypeOK, EngineTypeOK, LoaderTypeOK, WriteTypeOK,
        ReaderTypeOK, BoundedLedger
  <2>9. /\ up /\ UNCHANGED <<up, ws, dirtyGen, settledGen, stopping, state, save>>
        /\ applyMu' = Null
    BY <1>3, <2>1, BackgroundFacts DEF BootPublish
  <2>10. ControlInv' /\ GenerationInv' /\ FallbackHasARebuild'
    BY <2>1, <2>5, <2>6, <2>9, BackgroundFacts, BackgroundFrame DEF LoaderPC, HoldsRows, HoldsStamp
  <2> QED BY <2>8, <2>10 DEF EngineInv
<1> QED BY <1>1, <1>2, <1>3

\* Every step of the boot from the file preserves the invariant.
LEMMA BootNextInv ==
    ASSUME EngineInv, BootNext
    PROVE  EngineInv'
BY BootAttemptInv, BootReplayInv DEF BootNext, BootStep, BootFault
-----------------------------------------------------------------------------
(* The process, its queries, and what happens around it.                  *)

\* A start preserves the invariant, with or without its DDL and capture.
LEMMA StartInv ==
    ASSUME EngineInv, Start
    PROVE  EngineInv'
<1> USE DEF pgVars, engineVars, lifeVars, viewVars, genVars, countVars
<1>1. PICK ddlFails, captureFails \in BOOLEAN :
          /\ IF ddlFails \/ captureFails THEN Fault ELSE UNCHANGED used
          /\ dirtyGen' = IF ddlFails THEN 1 ELSE 0
          /\ settledGen' = dirtyGen'
          /\ atStart' = IF SnapshotDir /\ ~captureFails
                        THEN [counter |-> pgCounter, seq |-> pgSeq] ELSE Null
  BY DEF Start
<1>2. /\ ~up /\ up' /\ bootGap' = [NewBootGap EXCEPT !.active = SnapshotDir]
      /\ loop' = [NewLoop EXCEPT !.pc = "boot"]
      /\ UNCHANGED <<pgVars, file, stopping, viewVars, resolvedGen, countVars, applyMu, applyEpoch,
                     load, ws, building, save, query, acked>>
  BY DEF Start
<1>3. used' \in Counts
  BY <1>1, UsedType DEF EngineInv, TypeOK, StoreTypeOK
<1>4. dirtyGen' \in Nat /\ settledGen' = dirtyGen'
  BY <1>1
<1>5. atStart' \in [counter : Nat, seq : Nat] \cup {Null}
  BY <1>1, BackgroundFacts
<1>6. bootGap' \in BootGapType
  BY <1>2, EngineConstants DEF NewBootGap, BootGapType
<1>7. loop' \in LoopType /\ loop'.pc = "boot"
  BY <1>2 DEF NewLoop, LoopType, LoopPC
<1>8. TypeOK'
  BY <1>2, <1>3, <1>4, <1>5, <1>6, <1>7
  DEF EngineInv, TypeOK, StoreTypeOK, EngineTypeOK, LoaderTypeOK, WriteTypeOK, ReaderTypeOK
<1>9. /\ loop.pc = "none" /\ save.pc = "idle" /\ resolvedGen = 0 /\ load.gen = 0
      /\ \A w \in Write : ~ws[w].bumpFailed
  BY <1>2 DEF EngineInv, ControlInv, DownInv
<1>10. ControlInv'
  <2>1. LockInv'
    BY <1>2, <1>7, <1>9 DEF EngineInv, ControlInv, LockInv, InCritical, LoaderPC
  <2>2. HeldInv'
    BY <1>2, <1>7, <1>9 DEF EngineInv, ControlInv, HeldInv, HoldsRows, HoldsStamp
  <2>3. DownInv'
    BY <1>2, <1>9 DEF DownInv
  <2> QED BY <2>1, <2>2, <2>3 DEF ControlInv
<1>11. GenerationInv'
  <2>1. Unsettled' = {}
    BY <1>2, <1>9 DEF Unsettled
  <2>2. Cardinality(Unsettled') = 0
    BY <2>1, FS_EmptySet
  <2> QED BY <1>2, <1>4, <1>9, <2>2 DEF GenerationInv
<1>12. FallbackHasARebuild'
  BY <1>7 DEF FallbackHasARebuild
<1> QED BY <1>8, <1>10, <1>11, <1>12 DEF EngineInv

\* The process may end anywhere: what it leaves satisfies the invariant.
LEMMA ExitInv ==
    ASSUME EngineInv, Exit
    PROVE  EngineInv'
<1> USE DEF pgVars
<1>1. /\ ~up' /\ ~stopping' /\ up' \in BOOLEAN /\ stopping' \in BOOLEAN
      /\ state' = "serving" /\ snap' = Null /\ baseLineage' = 0 /\ delta' = FALSE
      /\ applyMu' = Null /\ applyEpoch' = 0
      /\ dirtyGen' = 0 /\ settledGen' = 0 /\ resolvedGen' = 0
      /\ inflight' = 0 /\ ledger' = NewLedger /\ bootGap' = NewBootGap /\ atStart' = Null
      /\ loop' = NewLoop /\ load' = NewLoad /\ building' = Null
      /\ save' = NewSave /\ query' = NewQuery
      /\ UNCHANGED <<pgVars, file, acked>>
      /\ ws' = [w \in Write |-> IF InFlight(w) THEN OverScope(ws[w], "dead") ELSE ws[w]]
      /\ used' = [used EXCEPT !.crashes = @ + 1]
  BY DEF Exit
<1>2. ASSUME NEW w \in Write
      PROVE  ws'[w] \in Scope /\ ws'[w].pc \in Finished /\ ~ws'[w].bumpFailed
  <2>1. CASE InFlight(w)
    BY <1>1, <2>1, ScopeFacts, OverScopeType DEF Finished
  <2>2. CASE ~InFlight(w)
    BY <1>1, <2>2, ScopeFacts DEF InFlight
  <2> QED BY <2>1, <2>2
<1>3. WriteTypeOK'
  BY <1>1, <1>2 DEF WriteTypeOK
<1>4. used' \in Counts
  BY <1>1 DEF EngineInv, TypeOK, StoreTypeOK, Counts
<1>5. StoreTypeOK'
  BY <1>1, <1>4 DEF EngineInv, TypeOK, StoreTypeOK
<1>6. EngineTypeOK'
  <2>1. ledger' \in Ledger /\ \A v \in ledger'.above : v <= ledger'.highest
    BY <1>1, NewLedgerBounded DEF BoundedLedger
  <2>2. 0 \in Nat /\ 0 \in Int /\ "serving" \in {"serving", "fallback"}
    OBVIOUS
  <2> QED BY <1>1, <2>1, <2>2 DEF EngineTypeOK
<1>7. LoaderTypeOK' /\ loop'.pc = "none" /\ loop'.finishing = 0 /\ loop'.launcher = "none" /\ ~loop'.fresh
  BY <1>1, NewLoadType DEF LoaderTypeOK, NewBootGap, BootGapType, NewLoop, LoopType, LoopPC
<1>8. ReaderTypeOK'
  BY <1>1, NewSaveType DEF ReaderTypeOK, NewQuery, NoRows, Rows
<1>9. ControlInv'
  <2>1. \A w \in Write : ~InCritical(w)'
    BY <1>2 DEF InCritical, CriticalPC, Finished
  <2>2. LockInv'
    BY <1>1, <1>7, <2>1, EngineConstants DEF LockInv, LoaderPC
  <2>3. HeldInv'
    BY <1>1, <1>2, <1>7, NewSaveType DEF HeldInv, HoldsRows, HoldsStamp, Finished
  <2>4. DownInv'
    BY <1>1, <1>2, <1>7, NewSaveType, NewLoadType DEF DownInv, InFlight
  <2> QED BY <2>2, <2>3, <2>4 DEF ControlInv
<1>10. GenerationInv'
  <2>1. Unsettled' = {}
    BY <1>2 DEF Unsettled
  <2>2. Cardinality(Unsettled') = 0
    BY <2>1, FS_EmptySet
  <2> QED BY <1>1, <2>2, NewLoadType DEF GenerationInv
<1>11. FallbackHasARebuild'
  BY <1>1 DEF FallbackHasARebuild
<1> QED BY <1>3, <1>5, <1>6, <1>7, <1>8, <1>9, <1>10, <1>11 DEF EngineInv, TypeOK

\* Steps that leave the control state of the engine alone.
LEMMA AsideInv ==
    ASSUME EngineInv, StoreTypeOK', ReaderTypeOK', stopping' \in BOOLEAN, stopping => stopping',
           UNCHANGED <<up, atStart, viewVars, genVars, countVars, applyMu, applyEpoch, bootGap, loop,
                       load, ws, building, save>>
    PROVE  EngineInv'
<1> USE DEF viewVars, genVars, countVars
<1>1. TypeOK'
  BY DEF EngineInv, TypeOK, EngineTypeOK, LoaderTypeOK, WriteTypeOK
<1>2. ControlInv'
  BY DEF EngineInv, ControlInv, LockInv, HeldInv, DownInv, InCritical, InFlight
<1>3. GenerationInv' /\ FallbackHasARebuild'
  BY DEF EngineInv, GenerationInv, Unsettled, FallbackHasARebuild
<1> QED BY <1>1, <1>2, <1>3 DEF EngineInv

\* Queries, Stop and a stock server's writes preserve the invariant.
LEMMA AroundInv ==
    ASSUME EngineInv,
           \/ QueryReadState \/ QueryReadView \/ Stop \/ Quiescent
           \/ \E r \in Row : ExternalWrite(r)
    PROVE  EngineInv'
<1> USE DEF pgVars, engineVars, lifeVars, viewVars, genVars, countVars
<1>1. CASE QueryReadState
  <2>1. StoreTypeOK' /\ ReaderTypeOK'
    BY <1>1 DEF QueryReadState, NewQuery, NoRows, Rows, EngineInv, TypeOK, StoreTypeOK, ReaderTypeOK
  <2> QED BY <1>1, <2>1, AsideInv DEF QueryReadState, EngineInv, TypeOK, EngineTypeOK
<1>2. CASE QueryReadView
  <2>1. StoreTypeOK' /\ ReaderTypeOK'
    <3>1. NewQuery \in [pc : {"idle", "view", "served"}, floor : Rows, rows : Rows \cup {Null}]
      BY DEF NewQuery, NoRows, Rows
    <3> QED BY <1>2, <3>1 DEF QueryReadView, EngineInv, TypeOK, StoreTypeOK, EngineTypeOK,
               ReaderTypeOK
  <2> QED BY <1>2, <2>1, AsideInv DEF QueryReadView, EngineInv, TypeOK, EngineTypeOK
<1>3. CASE Stop
  <2>1. StoreTypeOK' /\ ReaderTypeOK'
    BY <1>3 DEF Stop, EngineInv, TypeOK, StoreTypeOK, ReaderTypeOK
  <2> QED BY <1>3, <2>1, AsideInv DEF Stop
<1>4. CASE Quiescent
  <2>1. UNCHANGED vars
    BY <1>4 DEF Quiescent
  <2>2. StoreTypeOK' /\ ReaderTypeOK'
    BY <2>1 DEF vars, EngineInv, TypeOK, StoreTypeOK, ReaderTypeOK
  <2> QED BY <2>1, <2>2, AsideInv DEF vars, EngineInv, TypeOK, EngineTypeOK
<1>5. ASSUME NEW r \in Row, ExternalWrite(r) PROVE EngineInv'
  <2>1. used' \in Counts
    BY <1>5 DEF ExternalWrite, EngineInv, TypeOK, StoreTypeOK, Counts
  <2>2. pgRow' \in Rows /\ pgSeq' \in Nat /\ pgLineage' \in Nat
    BY <1>5, BackgroundFacts DEF ExternalWrite, Rows
  <2>3. StoreTypeOK' /\ ReaderTypeOK'
    BY <1>5, <2>1, <2>2 DEF ExternalWrite, EngineInv, TypeOK, StoreTypeOK, ReaderTypeOK
  <2> QED BY <1>5, <2>3, AsideInv DEF ExternalWrite, EngineInv, TypeOK, EngineTypeOK
<1> QED BY <1>1, <1>2, <1>3, <1>4, <1>5
-----------------------------------------------------------------------------
\* The invariant holds before the first start.
LEMMA EngineInitInv == Init => EngineInv
<1> SUFFICES ASSUME Init PROVE EngineInv
  OBVIOUS
<1>1. \A w \in Write : ws[w] \in Scope /\ ws[w].pc = "idle" /\ ~ws[w].bumpFailed
  BY NewScopeType DEF Init
<1>2. WriteTypeOK
  BY NewScopeType DEF Init, WriteTypeOK
<1>3. StoreTypeOK
  BY DEF Init, StoreTypeOK, Counts, NoRows, Rows
<1>4. EngineTypeOK
  <2>1. ledger \in Ledger /\ \A v \in ledger.above : v <= ledger.highest
    BY NewLedgerBounded DEF Init, BoundedLedger
  <2>2. /\ up \in BOOLEAN /\ stopping \in BOOLEAN /\ delta \in BOOLEAN
        /\ state \in {"serving", "fallback"} /\ snap = Null /\ applyMu = Null
    BY DEF Init
  <2>3. /\ baseLineage \in Nat /\ applyEpoch \in Nat /\ inflight \in Int
        /\ dirtyGen \in Nat /\ settledGen \in Nat /\ resolvedGen \in Nat
    BY DEF Init
  <2> QED BY <2>1, <2>2, <2>3 DEF EngineTypeOK
<1>5. LoaderTypeOK /\ loop.pc = "none" /\ loop.finishing = 0 /\ loop.launcher = "none" /\ ~loop.fresh
  BY NewLoadType DEF Init, LoaderTypeOK, NewBootGap, BootGapType, NewLoop, LoopType, LoopPC
<1>6. ReaderTypeOK
  BY NewSaveType DEF Init, ReaderTypeOK, NewQuery, NoRows, Rows
<1>7. ControlInv
  <2>1. LockInv
    BY <1>1, <1>5, EngineConstants DEF Init, LockInv, InCritical, CriticalPC, LoaderPC
  <2>2. HeldInv
    BY <1>1, <1>5, NewSaveType DEF Init, HeldInv, HoldsRows, HoldsStamp
  <2>3. DownInv
    BY <1>1, <1>5, NewSaveType, NewLoadType DEF Init, DownInv, InFlight, Finished
  <2> QED BY <2>1, <2>2, <2>3 DEF ControlInv
<1>8. GenerationInv
  <2>1. Unsettled = {}
    BY <1>1 DEF Unsettled
  <2>2. Cardinality(Unsettled) = 0
    BY <2>1, FS_EmptySet
  <2> QED BY <2>2, NewLoadType DEF Init, GenerationInv
<1>9. FallbackHasARebuild
  BY DEF Init, FallbackHasARebuild
<1> QED BY <1>2, <1>3, <1>4, <1>5, <1>6, <1>7, <1>8, <1>9 DEF EngineInv, TypeOK

\* The invariant is inductive.
LEMMA EngineNextInv == EngineInv /\ [Next]_vars => EngineInv'
<1> SUFFICES ASSUME EngineInv, [Next]_vars PROVE EngineInv'
  OBVIOUS
<1>1. CASE UNCHANGED vars
  <2>1. StoreTypeOK' /\ ReaderTypeOK'
    BY <1>1 DEF vars, pgVars, EngineInv, TypeOK, StoreTypeOK, ReaderTypeOK
  <2> QED BY <1>1, <2>1, AsideInv DEF vars, engineVars, lifeVars, EngineInv, TypeOK, EngineTypeOK
<1>2. CASE Next
  BY <1>2, WriteNextInv, RebuildNextInv, SaveNextInv, BootNextInv, StartInv, ExitInv, AroundInv DEF Next
<1> QED BY <1>1, <1>2

\* EngineInv, the strengthening the theorems below follow from, holds in every
\* reachable state of the engine.
THEOREM EngineInvariant == Spec => []EngineInv
BY EngineInitInv, EngineNextInv, PTL DEF Spec

\* Every variable of the engine keeps its type, whatever the writes, rows and
\* bounds.
THEOREM EngineTypeCorrect == Spec => []TypeOK
<1>1. EngineInv => TypeOK
  BY DEF EngineInv
<1> QED BY <1>1, EngineInvariant, PTL

\* engine.go's order of the three trust generations: nothing is resolved that
\* did not settle, nothing settles twice.
THEOREM GenerationsStayOrdered == Spec => []GenerationsOrdered
<1>1. EngineInv => GenerationsOrdered
  <2> SUFFICES ASSUME EngineInv PROVE GenerationsOrdered
    OBVIOUS
  <2>1. dirtyGen \in Nat /\ settledGen \in Nat
    BY DEF EngineInv, TypeOK, EngineTypeOK
  <2> QED BY <2>1, UnsettledFinite DEF EngineInv, GenerationInv, GenerationsOrdered
<1> QED BY <1>1, EngineInvariant, PTL

\* finishFallbackRebuild: fallback is never left without a rebuild under way or
\* a recheck that will launch one.
THEOREM FallbackNeverStranded == Spec => []FallbackHasARebuild
<1>1. EngineInv => FallbackHasARebuild
  BY DEF EngineInv
<1> QED BY <1>1, EngineInvariant, PTL
-----------------------------------------------------------------------------
(***************************************************************************)
(* The bookkeeping the replica's correctness rests on, for every set of    *)
(* rows and writes and every bound: what a write scope has recorded at     *)
(* each point of its call, that a bump in flight is counted, that no view, *)
(* save or boot attempt overlaps one it must not, and that nothing a stamp *)
(* counts is still to be committed.                                        *)
(***************************************************************************)

Begun     == {"call", "bumping", "replying", "invalidate", "mutate"}
Abandoned == {"abandon", "abandonRetire", "abandonObserve", "abandonSettle"}

\* What the scope of write w has recorded (write_observer.go): it touches no
\* row before it drew a counter or failed to, it commits only at its end unless
\* it is a batch, and it names every row it made durable or records a fallback.
ScopeSound(w, s) ==
    /\ s.reply > 0 <=> s.pc = "replying"
    /\ s.pc \in {"bumping", "replying", "invalidate"} => s.counter = 0
    /\ s.pc = "invalidate" => s.bumpFailed
    /\ s.pc = "mutate" => s.counter > 0 \/ s.bumpFailed
    /\ s.settled => s.pc \in {"decide", "readback"}
    /\ s.pc = "readback" => ~s.fallback
    /\ s.pc \in Abandoned \cup {"idle"} \/ (s.pc \in Begun /\ w \notin Batch) =>
          \A r \in Row : s.ver[r] = 0
    /\ s.pc \notin Finished =>
          /\ s.todo \subseteq Touches[w]
          /\ s.todo # Touches[w] \/ (\E r \in Row : s.ver[r] > 0) =>
                s.counter > 0 \/ s.bumpFailed \/ s.settled
          /\ ~s.fallback => /\ Touches[w] \ s.todo \subseteq s.keys
                            /\ \A r \in Row : s.ver[r] > 0 => r \in s.keys

ScopeInv == \A w \in Write : ScopeSound(w, ws[w])

\* A scope whose bump is sent and not yet retired, and the value it drew.
HoldsBump(s) ==
    \/ s.pc \in {"bumping", "replying"}
    \/ s.counter > 0 /\ s.pc \in {"call", "mutate", "apply", "resolve", "retire",
                                  "abandon", "abandonRetire"}
Drawn(s) == MaxOf(s.counter, s.reply)
Holding == {w \in Write : HoldsBump(ws[w])}
-----------------------------------------------------------------------------
\* Replacing a scope by a sound one.
LEMMA ScopeFrame ==
    ASSUME EngineInv, ScopeInv, NEW w \in Write, NEW s, Becomes(w, s), ScopeSound(w, s)
    PROVE  ScopeInv'
BY DEF EngineInv, TypeOK, WriteTypeOK, Becomes, ScopeInv

\* A call that is over owes nothing.
LEMMA OverSound ==
    ASSUME NEW w \in Write, NEW s \in Scope, NEW pc \in {"returned", "dead"}
    PROVE  ScopeSound(w, OverScope(s, pc))
BY DEF ScopeSound, OverScope, NewScope, Scope, Finished, Begun, Abandoned

\* What a scope keeps once its call is over: its versions and the value it drew.
LEMMA OverFields ==
    ASSUME NEW s \in Scope, NEW pc \in {"returned", "dead"}
    PROVE  /\ OverScope(s, pc).pc = pc /\ OverScope(s, pc).ver = s.ver
           /\ OverScope(s, pc).counter = Drawn(s) /\ OverScope(s, pc).reply = 0
           /\ ~OverScope(s, pc).bumpFailed
           /\ Drawn(s) \in Nat /\ Drawn(OverScope(s, pc)) = Drawn(s)
           /\ ~HoldsBump(OverScope(s, pc))
BY DEF OverScope, NewScope, Drawn, MaxOf, HoldsBump, Scope

\* The watermark bump of ensureBumped.
LEMMA ScopeBump ==
    ASSUME EngineInv, ScopeInv, NEW w \in Write,
           \/ BeginWrite(w) \/ BumpSend(w) \/ BumpLands(w) \/ BumpReturns(w) \/ BumpFails(w)
           \/ InvalidateFile(w)
    PROVE  ScopeInv'
<1> USE DEF Step, ScopeSound, Scope, Finished, Begun, Abandoned
<1>0. ws[w] \in Scope /\ ScopeSound(w, ws[w]) /\ Touches[w] \in SUBSET Row
  BY ScopeFacts DEF ScopeInv
<1>1. CASE BeginWrite(w)
  <2> DEFINE s == [NewScope EXCEPT !.pc = "call", !.todo = Touches[w]]
  <2>1. ScopeSound(w, s)
    BY DEF NewScope, NoRows
  <2> QED BY <1>1, <2>1, ScopeFrame DEF BeginWrite
<1>2. CASE BumpSend(w)
  <2> DEFINE s == [ws[w] EXCEPT !.pc = "bumping"]
  <2>1. ScopeSound(w, s)
    BY <1>0, <1>2 DEF BumpSend
  <2> QED BY <1>2, <2>1, ScopeFrame DEF BumpSend
<1>3. CASE BumpLands(w)
  <2> DEFINE s == [ws[w] EXCEPT !.pc = "replying", !.reply = pgCounter + 1]
  <2>1. ScopeSound(w, s)
    BY <1>0, <1>3, ScopeFacts DEF BumpLands
  <2> QED BY <1>3, <2>1, ScopeFrame DEF BumpLands
<1>4. CASE BumpReturns(w)
  <2> DEFINE s == [ws[w] EXCEPT !.pc = "mutate", !.counter = ws[w].reply, !.reply = 0]
  <2>1. ScopeSound(w, s)
    BY <1>0, <1>4, ScopeFacts DEF BumpReturns
  <2> QED BY <1>4, <2>1, ScopeFrame DEF BumpReturns
<1>5. CASE BumpFails(w)
  <2> DEFINE s == [ws[w] EXCEPT !.reply = 0, !.bumpFailed = TRUE,
                                !.pc = IF ws[w].bumpFailed THEN "mutate" ELSE "invalidate"]
  <2>1. ScopeSound(w, s)
    BY <1>0, <1>5, ScopeFacts DEF BumpFails
  <2> QED BY <1>5, <2>1, ScopeFrame DEF BumpFails
<1>6. CASE InvalidateFile(w)
  <2> DEFINE s == [ws[w] EXCEPT !.pc = "mutate", !.fallback = TRUE]
  <2>1. ScopeSound(w, s)
    BY <1>0, <1>6, ScopeFacts DEF InvalidateFile
  <2> QED BY <1>6, <2>1, ScopeFrame DEF InvalidateFile
<1> QED BY <1>1, <1>2, <1>3, <1>4, <1>5, <1>6

\* The mutating calls and the end of the driver call.
LEMMA ScopeCommit ==
    ASSUME EngineInv, ScopeInv, NEW w \in Write,
           \/ MutatingCall(w) \/ FlushChunk(w) \/ BatchReturns(w) \/ BatchPanics(w)
           \/ CommitTransaction(w) \/ CommitAmbiguous(w) \/ AbortTransaction(w)
    PROVE  ScopeInv'
<1> USE DEF Step, ScopeSound, Scope, Finished, Begun, Abandoned
<1>0. ws[w] \in Scope /\ ScopeSound(w, ws[w]) /\ Touches[w] \in SUBSET Row
  BY ScopeFacts DEF ScopeInv
<1>1. CASE MutatingCall(w)
  <2>1. PICK r \in ws[w].todo :
            Becomes(w, [ws[w] EXCEPT !.pc = "call", !.todo = @ \ {r},
                                     !.keys = IF w \in Opaque THEN @ ELSE @ \cup {r},
                                     !.fallback = @ \/ w \in Opaque])
    BY <1>1 DEF MutatingCall
  <2> DEFINE s == [ws[w] EXCEPT !.pc = "call", !.todo = ws[w].todo \ {r},
                                !.keys = IF w \in Opaque THEN ws[w].keys ELSE ws[w].keys \cup {r},
                                !.fallback = ws[w].fallback \/ w \in Opaque]
  <2>2. ScopeSound(w, s)
    BY <1>0, <1>1, ScopeFacts DEF MutatingCall, MayMutate
  <2>3. Becomes(w, s)
    BY <2>1
  <2> HIDE DEF s
  <2> QED BY <2>2, <2>3, ScopeFrame
<1>2. CASE FlushChunk(w)
  <2>1. PICK r \in Touches[w] \ (ws[w].todo \cup DurableRows(w)) :
            Becomes(w, [ws[w] EXCEPT !.ver = VersionsOf(w, {r})])
    BY <1>2 DEF FlushChunk
  <2> DEFINE s == [ws[w] EXCEPT !.ver = VersionsOf(w, {r})]
  <2>2. ScopeSound(w, s)
    BY <1>0, <1>2, ScopeFacts DEF FlushChunk, VersionsOf
  <2> QED BY <2>1, <2>2, ScopeFrame
<1>3. CASE BatchReturns(w)
  <2> DEFINE s == [ws[w] EXCEPT !.pc = "apply"]
  <2>1. ScopeSound(w, s)
    BY <1>0, <1>3, ScopeFacts DEF BatchReturns
  <2> QED BY <1>3, <2>1, ScopeFrame DEF BatchReturns
<1>4. CASE BatchPanics(w)
  <2>1. PICK rows \in {{}} \cup {{r} : r \in ws[w].todo} :
            /\ rows # {} => MayMutate(w)
            /\ Becomes(w, [ws[w] EXCEPT !.pc = "apply", !.fallback = TRUE,
                                        !.ver = VersionsOf(w, rows)])
    BY <1>4 DEF BatchPanics
  <2> DEFINE s == [ws[w] EXCEPT !.pc = "apply", !.fallback = TRUE, !.ver = VersionsOf(w, rows)]
  <2>2. ScopeSound(w, s)
    BY <1>0, <1>4, <2>1, ScopeFacts DEF BatchPanics, MayMutate, VersionsOf
  <2> QED BY <2>1, <2>2, ScopeFrame
<1>5. CASE CommitTransaction(w)
  <2> DEFINE s == [ws[w] EXCEPT !.pc = "apply", !.ver = VersionsOf(w, Touches[w])]
  <2>1. ScopeSound(w, s)
    BY <1>0, <1>5, ScopeFacts DEF CommitTransaction, VersionsOf
  <2> QED BY <1>5, <2>1, ScopeFrame DEF CommitTransaction
<1>6. CASE CommitAmbiguous(w)
  <2>1. PICK rows \in {{}, Touches[w]} :
            Becomes(w, [ws[w] EXCEPT !.pc = "apply", !.fallback = TRUE,
                                     !.ver = VersionsOf(w, rows)])
    BY <1>6 DEF CommitAmbiguous
  <2> DEFINE s == [ws[w] EXCEPT !.pc = "apply", !.fallback = TRUE, !.ver = VersionsOf(w, rows)]
  <2>2. ScopeSound(w, s)
    BY <1>0, <1>6, <2>1, ScopeFacts DEF CommitAmbiguous, VersionsOf
  <2> QED BY <2>1, <2>2, ScopeFrame
<1>7. CASE AbortTransaction(w)
  <2> DEFINE s == [ws[w] EXCEPT !.pc = "abandon"]
  <2>1. ScopeSound(w, s)
    BY <1>0, <1>7, ScopeFacts DEF AbortTransaction
  <2> QED BY <1>7, <2>1, ScopeFrame DEF AbortTransaction
<1> QED BY <1>1, <1>2, <1>3, <1>4, <1>5, <1>6, <1>7

\* Apply and ResolveAbandonedWrite.
LEMMA ScopeApply ==
    ASSUME EngineInv, ScopeInv, NEW w \in Write,
           \/ ApplyStep(w) \/ AbandonStep(w) \/ ApplyFails(w) \/ ApplyPanics(w)
    PROVE  ScopeInv'
<1> USE DEF ApplyStep, AbandonStep, Step, ScopeSound, Scope, Finished, Begun, Abandoned
<1>0. ws[w] \in Scope /\ ScopeSound(w, ws[w])
  BY ScopeFacts DEF ScopeInv
<1>1. CASE ReturnFrom(w) \/ AbandonSettle(w)
  BY <1>0, <1>1, OverSound, ScopeFrame DEF ReturnFrom, AbandonSettle
<1>2. CASE ApplySettle(w)
  <2> DEFINE s == [ws[w] EXCEPT !.pc = "decide", !.bumpFailed = FALSE,
                                !.settled = ws[w].bumpFailed]
  <2>1. ScopeSound(w, s)
    BY <1>0, <1>2 DEF ApplySettle
  <2> QED BY <1>2, <2>1, ScopeFrame DEF ApplySettle
<1>3. ASSUME NEW to \in {"resolve", "retire", "readback"}, Becomes(w, [ws[w] EXCEPT !.pc = to]),
             ws[w].pc \in {"apply", "resolve", "decide"},
             to = "readback" => ws[w].pc = "decide" /\ ~ws[w].fallback,
            to # "readback" => ~ws[w].settled
      PROVE  ScopeInv'
  BY <1>0, <1>3, ScopeFrame
<1>4. ASSUME NEW to \in {"abandonRetire", "abandonObserve", "abandonSettle"},
             Becomes(w, [ws[w] EXCEPT !.pc = to]), ws[w].pc \in Abandoned
      PROVE  ScopeInv'
  BY <1>0, <1>4, ScopeFrame
<1>5. CASE ApplyLock(w) \/ ApplyResolve(w)
  BY <1>0, <1>3, <1>5 DEF ApplyLock, ApplyResolve
<1>6. CASE ApplyDecide(w)
  BY <1>0, <1>1, <1>3, <1>6 DEF ApplyDecide
<1>7. CASE AbandonResolve(w) \/ AbandonRetire(w) \/ AbandonObserve(w)
  BY <1>4, <1>7 DEF AbandonResolve, AbandonRetire, AbandonObserve
<1>8. CASE ReadBackRow(w)
  BY <1>8 DEF ReadBackRow, ScopeInv
<1>9. CASE ApplyPublish(w) \/ ApplyFails(w) \/ ApplyPanics(w)
  BY <1>1, <1>9 DEF ApplyPublish, ApplyFails, ApplyPanics
<1> QED BY <1>1, <1>2, <1>5, <1>6, <1>7, <1>8, <1>9

\* Only a write's own steps and the end of the process touch a scope, what
\* callers were told, the counter or the bumps in flight; only a stock server
\* writes to PostgreSQL besides, while this one is down.
LEMMA AsideSteps ==
    ASSUME [Next]_vars
    PROVE  \/ \E w \in Write : WriteNext(w)
           \/ Exit
           \/ /\ UNCHANGED <<ws, acked, pgCounter, inflight>>
              /\ \/ UNCHANGED <<pgRow, pgSeq, pgLineage>>
                 \/ \E r \in Row : ExternalWrite(r)
<1> USE DEF pgVars, engineVars, lifeVars, viewVars, genVars, countVars
<1>1. CASE RebuildNext
  BY <1>1 DEF RebuildNext, RebuildStep, LauncherStep, RebuildFault, RebuildReadEpoch,
     RebuildReadGen, RebuildLoad, RebuildLoadUncounted, RebuildFails, RebuildPanics,
     RebuildRefused, RebuildAdopt, RebuildFlip, RebuildRebase, LoopBackoff, LoopStops, LoopFinish,
     RelaunchAfterAdoption, IntervalElapses, LauncherFires, LauncherLeaves
<1>2. CASE SaveNext
  BY <1>2 DEF SaveNext, SaveBegin, SaveReadCounter, SaveReadInflight, SaveReadLedger,
     SaveReadSequence, SaveFails, SavePrepare, SaveWrite, SaveWriteFails, SaveRecheck,
     CompactionAdopted
<1>3. CASE BootNext
  BY <1>3 DEF BootNext, BootStep, BootFault, BootReadGen, BootReadFile, BootReadFileUnchecked,
     BootFreeze, BootFileFails, BootAttemptRejected, BootSettleTimeout, BootTake, BootReplayRow,
     BootPublish, BootReplayFails, BootPanics
<1>4. CASE Start \/ QueryReadState \/ QueryReadView \/ Stop \/ Quiescent \/ UNCHANGED vars
  BY <1>4 DEF Start, QueryReadState, QueryReadView, Stop, Quiescent, vars
<1>5. ASSUME NEW r \in Row, ExternalWrite(r)
      PROVE  UNCHANGED <<ws, acked, pgCounter, inflight>>
  BY <1>5 DEF ExternalWrite
<1> QED BY <1>1, <1>2, <1>3, <1>4, <1>5 DEF Next

\* The end of the process ends every call it carries.
LEMMA ExitScopes ==
    ASSUME EngineInv, Exit, NEW w \in Write
    PROVE  /\ ws'[w] = IF InFlight(w) THEN OverScope(ws[w], "dead") ELSE ws[w]
           /\ ws'[w].pc \in Finished /\ ws'[w].ver = ws[w].ver
<1>1. ws'[w] = IF InFlight(w) THEN OverScope(ws[w], "dead") ELSE ws[w]
  BY DEF Exit
<1>2. OverScope(ws[w], "dead").pc = "dead" /\ OverScope(ws[w], "dead").ver = ws[w].ver
  BY DEF OverScope, NewScope
<1> QED BY <1>1, <1>2 DEF InFlight, Finished

\* Every step keeps every scope sound.
LEMMA ScopeNext == EngineInv /\ ScopeInv /\ [Next]_vars => ScopeInv'
<1> SUFFICES ASSUME EngineInv, ScopeInv, [Next]_vars  PROVE ScopeInv'
  OBVIOUS
<1>1. CASE UNCHANGED ws
  BY <1>1 DEF ScopeInv
<1>2. ASSUME NEW w \in Write, WriteNext(w)  PROVE ScopeInv'
  BY <1>2, ScopeBump, ScopeCommit, ScopeApply DEF WriteNext, DriverStep, WriteFault
<1>3. CASE Exit
  <2>1. ASSUME NEW w \in Write  PROVE ScopeSound(w, ws'[w])
    BY <1>3, ExitScopes, ScopeFacts, OverSound DEF ScopeInv
  <2> QED BY <2>1 DEF ScopeInv
<1> QED BY <1>1, <1>2, <1>3, AsideSteps
-----------------------------------------------------------------------------
\* What a step of write w does to the value it drew and to the bumps in
\* flight: a new value is the next of PostgreSQL's counter, and a bump is let go
\* of at most once.
BumpMoves(w) ==
    /\ \A x \in Write \ {w} : ws'[x] = ws[x]
    /\ pgCounter' \in {pgCounter, pgCounter + 1}
    /\ dirtyGen' \in {dirtyGen, dirtyGen + 1}
    /\ \/ Drawn(ws'[w]) = 0
       \/ /\ Drawn(ws'[w]) = Drawn(ws[w]) /\ (HoldsBump(ws'[w]) => HoldsBump(ws[w]))
          /\ ws[w].pc \in Finished => ws'[w].pc \in Finished
       \/ Drawn(ws'[w]) = pgCounter + 1 /\ pgCounter' = pgCounter + 1
    /\ \/ inflight' = inflight /\ (HoldsBump(ws'[w]) => HoldsBump(ws[w]))
       \/ inflight' = inflight + 1
       \/ inflight' = inflight - 1 /\ HoldsBump(ws[w]) /\ ~HoldsBump(ws'[w])
    /\ ws'[w].bumpFailed =>
          \/ ws[w].bumpFailed /\ ws[w].pc # "invalidate" /\ dirtyGen' = dirtyGen
          \/ ws[w].pc = "invalidate" /\ file' = Null /\ dirtyGen' = dirtyGen
          \/ ws'[w].pc = "invalidate" /\ dirtyGen' = dirtyGen + 1

\* Every step of a write moves its bump in one of these ways.
LEMMA BumpSteps ==
    ASSUME EngineInv, ScopeInv, NEW w \in Write, WriteNext(w)
    PROVE  BumpMoves(w)
<1> USE DEF pgVars, engineVars, lifeVars, viewVars, genVars, countVars
<1> USE DEF Step, Becomes, BumpMoves, HoldsBump, Drawn, MaxOf, Finished
<1>0. /\ ws \in [Write -> Scope] /\ ws[w] \in Scope /\ ScopeSound(w, ws[w])
      /\ pgCounter \in Nat /\ inflight \in Int
  BY ScopeFacts DEF ScopeInv, EngineInv, TypeOK, WriteTypeOK, EngineTypeOK
<1>1. CASE BeginWrite(w)
  BY <1>0, <1>1 DEF BeginWrite, NewScope, Scope
<1>2. CASE BumpSend(w)
  BY <1>0, <1>2 DEF BumpSend, Scope, ScopeSound
<1>3. CASE BumpLands(w)
  BY <1>0, <1>3 DEF BumpLands, Scope, ScopeSound
<1>4. CASE BumpReturns(w)
  BY <1>0, <1>4 DEF BumpReturns, Scope, ScopeSound
<1>5. CASE BumpFails(w)
  BY <1>0, <1>5 DEF BumpFails, OpensGeneration, Scope, ScopeSound
<1>6. CASE InvalidateFile(w)
  BY <1>0, <1>6 DEF InvalidateFile, Scope, ScopeSound
<1>7. CASE MutatingCall(w)
  BY <1>0, <1>7 DEF MutatingCall, MayMutate, Scope, ScopeSound
<1>8. CASE FlushChunk(w)
  BY <1>0, <1>8 DEF FlushChunk, MakeDurable, Scope, ScopeSound
<1>9. CASE BatchReturns(w) \/ AbortTransaction(w)
  BY <1>0, <1>9 DEF BatchReturns, AbortTransaction, Scope, ScopeSound
<1>10. CASE BatchPanics(w)
  BY <1>0, <1>10 DEF BatchPanics, MakeDurable, Scope, ScopeSound
<1>11. CASE CommitTransaction(w)
  BY <1>0, <1>11 DEF MakeDurable, CommitTransaction, Scope, ScopeSound
<1>12. CASE CommitAmbiguous(w)
  BY <1>0, <1>12 DEF MakeDurable, CommitAmbiguous, Scope, ScopeSound
<1>13. CASE ApplyLock(w) \/ ApplyResolve(w)
  BY <1>0, <1>13 DEF ApplyLock, ApplyResolve, Scope, ScopeSound
<1>14. CASE ApplySettle(w)
  BY <1>0, <1>14 DEF ApplySettle, Scope, ScopeSound
<1>15. CASE ReadBackRow(w)
  BY <1>0, <1>15 DEF ReadBackRow, Scope, ScopeSound
<1>16. ASSUME ReturnFrom(w) \/ AbandonSettle(w), pgCounter' = pgCounter, inflight' = inflight,
              dirtyGen' = dirtyGen
       PROVE  BumpMoves(w)
  <2>1. ws'[w] = OverScope(ws[w], "returned") /\ \A x \in Write \ {w} : ws'[x] = ws[x]
    BY <1>0, <1>16 DEF ReturnFrom, AbandonSettle
  <2> QED BY <1>0, <1>16, <2>1, OverFields
<1>17. CASE ApplyDecide(w) \/ ApplyPublish(w) \/ ApplyFails(w) \/ ApplyPanics(w)
  BY <1>0, <1>16, <1>17 DEF ApplyDecide, ApplyPublish, ApplyFails, ApplyPanics, Scope, ScopeSound
<1>18. CASE AbandonResolve(w)
  BY <1>0, <1>18 DEF AbandonResolve, Scope, ScopeSound
<1>19. CASE AbandonRetire(w)
  BY <1>0, <1>19 DEF AbandonRetire, Scope, ScopeSound
<1>20. CASE AbandonObserve(w)
  BY <1>0, <1>20 DEF AbandonObserve, Scope, ScopeSound
<1> QED BY <1>1, <1>2, <1>3, <1>4, <1>5, <1>6, <1>7, <1>8, <1>9, <1>10, <1>11, <1>12, <1>13,
        <1>14, <1>15, <1>16, <1>17, <1>18, <1>19, <1>20
     DEF WriteNext, DriverStep, ApplyStep, WriteFault, AbandonStep, AbandonSettle
-----------------------------------------------------------------------------
\* A step of write w that makes nothing durable, publishes nothing and returns
\* no call that did.
QuietMove(w) ==
    /\ UNCHANGED <<pgRow, pgLineage, acked, up, state, snap, baseLineage, building, query, load, save,
                   applyEpoch, atStart, resolvedGen>>
    /\ pgSeq <= pgSeq'
    /\ file' \in {file, Null}
    /\ loop'.pc = loop.pc \/ (loop.pc = "none" /\ loop'.pc = "top")
    /\ \/ bootGap' = bootGap
       \/ bootGap' = ObserveAbandoned(bootGap, ws[w]) /\ ws[w].pc = "abandonObserve"
    /\ ws[w].pc # "readback" /\ ws'[w].pc # "readback"
    /\ \A r \in Row : ws'[w].ver[r] = ws[w].ver[r]
    /\ \/ ws[w].pc \in Finished <=> ws'[w].pc \in Finished
       \/ \A r \in Row : ws[w].ver[r] = 0

\* A step of write w that makes rows durable.
CommitMove(w, rows) ==
    /\ UNCHANGED <<pgCounter, pgSeq, pgLineage, file, engineVars, loop, load, building, save, query,
                   acked>>
    /\ ws[w].pc \in {"call", "mutate"} /\ ws'[w].pc \in {"call", "apply"}
    /\ rows # {} => ws[w].counter > 0 \/ ws[w].bumpFailed
    /\ ws'[w].counter = ws[w].counter /\ ws'[w].reply = ws[w].reply
    /\ pgRow' = [r \in Row |-> IF r \in rows THEN pgRow[r] + 1 ELSE pgRow[r]]
    /\ ws'[w].ver = [r \in Row |-> IF r \in rows THEN pgRow[r] + 1 ELSE ws[w].ver[r]]

\* Every step of a write is a quiet one, a commit, or the part of Apply that
\* reads back, publishes and returns.
LEMMA WriteSteps ==
    ASSUME EngineInv, ScopeInv, NEW w \in Write, WriteNext(w)
    PROVE  \/ QuietMove(w) \/ \E rows \in SUBSET Row : CommitMove(w, rows)
           \/ ReadBackRow(w) \/ ApplyDecide(w) \/ ApplyPublish(w) \/ ApplyFails(w) \/ ApplyPanics(w)
<1> USE DEF pgVars, engineVars, lifeVars, viewVars, genVars, countVars
<1> USE DEF Step, Becomes, QuietMove, CommitMove
<1>0. /\ ws \in [Write -> Scope] /\ ws[w] \in Scope /\ ScopeSound(w, ws[w]) /\ ws[w].ver \in Rows
      /\ pgSeq \in Nat /\ Touches[w] \in SUBSET Row
  BY ScopeFacts DEF ScopeInv, EngineInv, TypeOK, WriteTypeOK, EngineTypeOK
<1>1. CASE BeginWrite(w)
  BY <1>0, <1>1 DEF BeginWrite, NewScope, NoRows, ScopeSound, Abandoned
<1>2. CASE BumpSend(w)
  BY <1>0, <1>2 DEF BumpSend, Scope, Finished
<1>3. CASE BumpLands(w)
  BY <1>0, <1>3 DEF BumpLands, Scope, Finished
<1>4. CASE BumpReturns(w)
  BY <1>0, <1>4 DEF BumpReturns, Scope, Finished
<1>5. CASE BumpFails(w)
  BY <1>0, <1>5 DEF BumpFails, Scope, Finished
<1>6. CASE InvalidateFile(w)
  BY <1>0, <1>6 DEF InvalidateFile, Scope, Finished
<1>7. CASE BatchReturns(w)
  BY <1>0, <1>7 DEF BatchReturns, Scope, Finished
<1>8. CASE AbortTransaction(w)
  BY <1>0, <1>8 DEF AbortTransaction, Scope, Finished
<1>9. CASE MutatingCall(w)
  BY <1>0, <1>9 DEF MutatingCall, MayMutate, Scope, Finished
<1>10. CASE FlushChunk(w)
  <2>1. PICK r \in Touches[w] \ (ws[w].todo \cup DurableRows(w)) :
            /\ MakeDurable(w, {r})
            /\ ws' = [ws EXCEPT ![w] = [ws[w] EXCEPT !.ver = VersionsOf(w, {r})]]
    BY <1>10 DEF FlushChunk
  <2>2. CommitMove(w, {r}) /\ {r} \in SUBSET Row
    BY <1>0, <1>10, <2>1 DEF FlushChunk, MakeDurable, VersionsOf, Scope, ScopeSound, Finished
  <2> QED BY <2>2
<1>11. CASE BatchPanics(w)
  <2>1. PICK rows \in {{}} \cup {{r} : r \in ws[w].todo} :
            /\ rows # {} => MayMutate(w)
            /\ MakeDurable(w, rows)
            /\ ws' = [ws EXCEPT ![w] = [ws[w] EXCEPT !.pc = "apply", !.fallback = TRUE,
                                                     !.ver = VersionsOf(w, rows)]]
    BY <1>11 DEF BatchPanics
  <2>2. rows # {} => ws[w].counter > 0 \/ ws[w].bumpFailed
    BY <1>0, <2>1 DEF MayMutate, ScopeSound
  <2>3. rows \in SUBSET Row
    BY <1>0 DEF Scope
  <2>4. ws'[w] = [ws[w] EXCEPT !.pc = "apply", !.fallback = TRUE, !.ver = VersionsOf(w, rows)]
    BY <1>0, <2>1
  <2>5. CommitMove(w, rows)
    BY <1>0, <1>11, <2>1, <2>2, <2>4 DEF BatchPanics, MakeDurable, VersionsOf, Scope
  <2> QED BY <2>3, <2>5
<1>12. CASE CommitTransaction(w)
  <2>2. CommitMove(w, Touches[w])
    BY <1>0, <1>12 DEF CommitTransaction, MakeDurable, VersionsOf, Scope, ScopeSound, Finished
  <2> QED BY <1>0, <2>2
<1>13. CASE CommitAmbiguous(w)
  <2>1. PICK rows \in {{}, Touches[w]} :
            /\ MakeDurable(w, rows)
            /\ ws' = [ws EXCEPT ![w] = [ws[w] EXCEPT !.pc = "apply", !.fallback = TRUE,
                                                     !.ver = VersionsOf(w, rows)]]
    BY <1>13 DEF CommitAmbiguous
  <2>2. CommitMove(w, rows) /\ rows \in SUBSET Row
    BY <1>0, <1>13, <2>1 DEF CommitAmbiguous, MakeDurable, VersionsOf, Scope, ScopeSound, Finished
  <2> QED BY <2>2
<1>14. CASE ApplyLock(w)
  BY <1>0, <1>14 DEF ApplyLock, Scope, Finished
<1>15. CASE ApplyResolve(w)
  BY <1>0, <1>15 DEF ApplyResolve, Scope, Finished
<1>16. CASE ApplySettle(w)
  BY <1>0, <1>16 DEF ApplySettle, Scope, Finished
<1>17. CASE AbandonResolve(w)
  BY <1>0, <1>17 DEF AbandonResolve, Scope, Finished
<1>18. CASE AbandonRetire(w)
  BY <1>0, <1>18 DEF AbandonRetire, Scope, Finished
<1>19. CASE AbandonObserve(w)
  BY <1>0, <1>19 DEF AbandonObserve, Scope, Finished
<1>20. CASE AbandonSettle(w)
  <2>1. ws'[w] = OverScope(ws[w], "returned")
    BY <1>0, <1>20 DEF AbandonSettle
  <2>2. loop'.pc = loop.pc \/ (loop.pc = "none" /\ loop'.pc = "top")
    BY <1>20, RequestTrustRebuildType DEF AbandonSettle, EngineInv, TypeOK, LoaderTypeOK
  <2> QED BY <1>0, <1>20, <2>1, <2>2, OverFields DEF AbandonSettle, ScopeSound, Abandoned
<1> QED BY <1>1, <1>2, <1>3, <1>4, <1>5, <1>6, <1>7, <1>8, <1>9, <1>10, <1>11, <1>12, <1>13, <1>14,
        <1>15, <1>16, <1>17, <1>18, <1>19, <1>20
     DEF WriteNext, DriverStep, ApplyStep, WriteFault, AbandonStep
-----------------------------------------------------------------------------
\* The tail of Apply moves no PostgreSQL state, belongs to the holder of applyMu,
\* and ends the call or begins its read-back.
ApplyTail(w) ==
    /\ UNCHANGED <<pgVars, file, up, atStart, genVars, load, save, query>>
    /\ applyMu = w
    /\ loop'.pc = loop.pc \/ (loop.pc = "none" /\ loop'.pc = "top")
    /\ applyEpoch' \in {applyEpoch, applyEpoch + 1}
    /\ snap' = snap \/ (ws[w].pc = "readback" /\ snap' = building.rows)
    /\ \A x \in Write \ {w} : ws'[x] = ws[x]
    /\ \/ /\ applyMu' = Null /\ ws'[w] = OverScope(ws[w], "returned")
          /\ acked' = [r \in Row |-> MaxOf(acked[r], ws[w].ver[r])]
       \/ /\ ws[w].pc = "decide" /\ ws'[w] = [ws[w] EXCEPT !.pc = "readback"]
          /\ ~ws[w].fallback /\ ReadBackNeeded(w)
          /\ building' = [todo |-> ws[w].keys, rows |-> snap]
          /\ UNCHANGED <<acked, state, snap>>

\* Every step from the decision on is such a tail, failures and panics included.
LEMMA ApplyTails ==
    ASSUME EngineInv, NEW w \in Write,
           ApplyDecide(w) \/ ApplyPublish(w) \/ ApplyFails(w) \/ ApplyPanics(w)
    PROVE  ApplyTail(w)
<1> USE DEF pgVars, engineVars, lifeVars, viewVars, genVars, countVars
<1> USE DEF ApplyTail, Becomes, ReturnFrom
<1>0. ws \in [Write -> Scope] /\ loop \in LoopType /\ (InCritical(w) <=> applyMu = w)
  BY ScopeFacts, BackgroundFacts DEF EngineInv, TypeOK, WriteTypeOK
<1>1. CASE ApplyDecide(w)
  <2> DEFINE q == IF ws[w].settled THEN RequestTrustRebuild(loop) ELSE loop
  <2>1. q \in LoopType /\ (q.pc = loop.pc \/ (loop.pc = "none" /\ q.pc = "top"))
    BY <1>0, RequestTrustRebuildType
  <2>2. loop' \in {q, StartFallbackRebuild(q)}
    BY <1>1 DEF ApplyDecide, EnterFallback
  <2>3. loop'.pc = loop.pc \/ (loop.pc = "none" /\ loop'.pc = "top")
    BY <2>1, <2>2, StartFallbackRebuildType
  <2>4. applyMu = w
    BY <1>0, <1>1 DEF ApplyDecide, InCritical, CriticalPC
  <2> QED BY <1>0, <1>1, <2>3, <2>4 DEF ApplyDecide
<1>2. CASE ApplyPublish(w)
  BY <1>0, <1>2 DEF ApplyPublish, InCritical, CriticalPC
<1>3. CASE ApplyFails(w)
  BY <1>0, <1>3, StartFallbackRebuildType DEF ApplyFails, EnterFallback, InCritical, CriticalPC
<1>4. CASE ApplyPanics(w)
  BY <1>0, <1>4, StartFallbackRebuildType DEF ApplyPanics, EnterFallback
<1> QED BY <1>1, <1>2, <1>3, <1>4

\* Every step of a write, in short.
LEMMA WriteMoves ==
    ASSUME EngineInv, ScopeInv, NEW w \in Write, WriteNext(w)
    PROVE  \/ QuietMove(w) \/ \E rows \in SUBSET Row : CommitMove(w, rows)
           \/ ReadBackRow(w) \/ ApplyTail(w)
BY WriteSteps, ApplyTails
-----------------------------------------------------------------------------
\* Versions: PostgreSQL's only grow, and no one is told of one it does not hold.
VersionBounds ==
    \A r \in Row : acked[r] <= pgRow[r] /\ \A w \in Write : ws[w].ver[r] <= pgRow[r]

\* No step acknowledges or reads a version of a row that PostgreSQL does not hold.
LEMMA VersionBoundsNext ==
    ASSUME EngineInv, ScopeInv, VersionBounds, [Next]_vars
    PROVE  VersionBounds'
<1>0. /\ ws \in [Write -> Scope] /\ pgRow \in Rows /\ acked \in Rows
      /\ \A w \in Write : ws[w] \in Scope /\ ws[w].ver \in Rows
  BY DEF EngineInv, TypeOK, StoreTypeOK, WriteTypeOK, Scope
<1>1. ASSUME NEW w \in Write, WriteNext(w)  PROVE VersionBounds'
  <2>0. \A x \in Write \ {w} : ws'[x] = ws[x]
    BY <1>1, BumpSteps DEF BumpMoves
  <2>1. CASE QuietMove(w)
    BY <2>0, <2>1 DEF QuietMove, VersionBounds
  <2>2. ASSUME NEW rows \in SUBSET Row, CommitMove(w, rows)  PROVE VersionBounds'
    BY <1>0, <2>0, <2>2 DEF CommitMove, VersionBounds, Rows
  <2>3. CASE ReadBackRow(w)
    BY <2>3 DEF ReadBackRow, VersionBounds, pgVars
  <2>4. CASE ApplyTail(w)
    <3>1. ws'[w].ver = ws[w].ver
      BY <1>0, <2>4, OverFields DEF ApplyTail, Scope
    <3> QED BY <1>0, <2>4, <3>1 DEF ApplyTail, VersionBounds, pgVars, MaxOf, Rows
  <2> QED BY <1>1, <2>1, <2>2, <2>3, <2>4, WriteMoves
<1>2. CASE Exit
  BY <1>2, ExitScopes DEF Exit, VersionBounds, pgVars
<1>3. CASE UNCHANGED <<ws, acked, pgRow>>
  BY <1>3 DEF VersionBounds
<1>4. ASSUME UNCHANGED <<ws, acked>>, NEW r \in Row, ExternalWrite(r)  PROVE VersionBounds'
  BY <1>0, <1>4 DEF ExternalWrite, VersionBounds, Rows
<1> QED BY <1>1, <1>2, <1>3, <1>4, AsideSteps

\* Bumps: every value drawn is PostgreSQL's, and every bump held is counted.
BumpBounds ==
    /\ \A w \in Write : Drawn(ws[w]) <= pgCounter
    /\ Cardinality(Holding) <= inflight

\* Only finitely many writes hold a bump at any time.
LEMMA HoldingFinite == IsFiniteSet(Holding) /\ Cardinality(Holding) \in Nat
BY EngineConstants, FS_Subset, FS_CardinalityType DEF Holding

\* Every step keeps the bumps counted: one that takes or gives back a bump moves
\* the in-flight count with it.
LEMMA BumpBoundsNext ==
    ASSUME EngineInv, EngineInv', ScopeInv, BumpBounds, [Next]_vars
    PROVE  BumpBounds'
<1>0. /\ ws \in [Write -> Scope] /\ pgCounter \in Nat /\ inflight \in Int
      /\ \A w \in Write : ws[w] \in Scope /\ Drawn(ws[w]) \in Nat
  BY OverFields DEF EngineInv, TypeOK, StoreTypeOK, EngineTypeOK, WriteTypeOK
<1>1. ASSUME NEW w \in Write, WriteNext(w)  PROVE BumpBounds'
  <2>0. BumpMoves(w)
    BY <1>1, BumpSteps
  <2>1. \A x \in Write : Drawn(ws'[x]) <= pgCounter'
    BY <1>0, <2>0 DEF BumpMoves, BumpBounds
  <2>2. Holding' \subseteq Holding \cup {w} /\ Holding \ {w} \subseteq Holding'
    BY <2>0 DEF BumpMoves, Holding
  <2>3. /\ Cardinality(Holding') \in Nat
        /\ Cardinality(Holding') <= Cardinality(Holding) + 1
        /\ w \in Holding \/ w \notin Holding' => Cardinality(Holding') <= Cardinality(Holding)
        /\ w \in Holding /\ w \notin Holding' => Cardinality(Holding') + 1 <= Cardinality(Holding)
    <3>1. IsFiniteSet(Holding') /\ Cardinality(Holding') \in Nat
      BY EngineConstants, FS_Subset, FS_CardinalityType DEF Holding
    <3>2. IsFiniteSet(Holding \cup {w}) /\ Cardinality(Holding \cup {w}) <= Cardinality(Holding) + 1
      BY HoldingFinite, FS_AddElement
    <3>3. Cardinality(Holding') <= Cardinality(Holding \cup {w})
      BY <2>2, <3>2, FS_Subset
    <3>4. w \in Holding \/ w \notin Holding' => Cardinality(Holding') <= Cardinality(Holding)
      <4>1. w \in Holding \/ w \notin Holding' => Holding' \subseteq Holding
        BY <2>2
      <4> QED BY <4>1, HoldingFinite, FS_Subset
    <3>5. w \in Holding /\ w \notin Holding' => Cardinality(Holding') + 1 <= Cardinality(Holding)
      <4>1. w \in Holding => IsFiniteSet(Holding \ {w})
                             /\ Cardinality(Holding \ {w}) = Cardinality(Holding) - 1
        BY HoldingFinite, FS_RemoveElement
      <4>2. w \in Holding /\ w \notin Holding' => Cardinality(Holding') <= Cardinality(Holding \ {w})
        BY <2>2, <4>1, FS_Subset
      <4> QED BY <3>1, <4>1, <4>2, HoldingFinite
    <3>6. Cardinality(Holding \cup {w}) \in Nat
      BY <3>2, FS_CardinalityType
    <3> QED BY <3>1, <3>2, <3>3, <3>4, <3>5, <3>6, HoldingFinite
  <2>4. (w \in Holding <=> HoldsBump(ws[w])) /\ (w \in Holding' <=> HoldsBump(ws'[w]))
    BY DEF Holding
  <2>5. Cardinality(Holding') <= inflight'
    BY <1>0, <2>0, <2>3, <2>4, HoldingFinite DEF BumpMoves, BumpBounds
  <2> QED BY <2>1, <2>5 DEF BumpBounds
<1>2. CASE Exit
  <2>1. \A w \in Write : Drawn(ws'[w]) = Drawn(ws[w]) /\ ~HoldsBump(ws'[w])
    BY <1>0, <1>2, ExitScopes, OverFields DEF InFlight, Finished, HoldsBump
  <2>2. Holding' = {}
    BY <2>1 DEF Holding
  <2> QED BY <1>2, <2>1, <2>2, FS_EmptySet DEF Exit, BumpBounds, pgVars
<1>3. CASE UNCHANGED <<ws, pgCounter, inflight>>
  BY <1>3 DEF BumpBounds, Holding
<1> QED BY <1>1, <1>2, <1>3, AsideSteps
-----------------------------------------------------------------------------
(* The goroutines beside the writes.                                        *)

BootPhase == {"boot", "bootFile", "bootFreeze", "bootAttempt", "bootReplay"}

\* A turn of the loop that takes in no rows and publishes none.
LoopTurn ==
    /\ UNCHANGED <<pgVars, ws, acked, up, atStart, snap, baseLineage, genVars, applyEpoch, save,
                   query>>
    /\ file' \in {file, Null}
    /\ bootGap' \in {bootGap, Deactivate(bootGap)}
    /\ state' = state \/ (state' = "fallback" /\ applyMu \notin Write)
    /\ building' = building \/ applyMu \notin Write
    /\ \/ loop'.pc = loop.pc /\ UNCHANGED <<file, bootGap, state, building, load>>
       \/ /\ loop'.pc \notin BootPhase \cup {"adopt", "flip"}
          /\ load'.lineage \in {0, load.lineage} /\ load'.epoch \in {0, load.epoch, applyEpoch}
       \/ /\ loop.pc = "boot" /\ loop'.pc = "bootFile" /\ load'.lineage = 0 /\ load'.epoch = 0
          /\ UNCHANGED <<file, bootGap, state, building>>

\* The body of the file, and the stamp that passed fileRefusal a second time.
FileRead ==
    /\ UNCHANGED <<pgVars, ws, acked, file, up, atStart, viewVars, genVars, applyMu, applyEpoch,
                   bootGap, building, save, query>>
    /\ loop.pc = "bootFile" /\ loop'.pc = "bootFreeze" /\ file # Null
    /\ load' = [load EXCEPT !.rows = file.rows, !.counter = file.counter, !.seq = file.seq,
                            !.lineage = file.lineage]

StampPassed ==
    /\ UNCHANGED <<pgVars, ws, acked, file, up, atStart, viewVars, genVars, applyMu, applyEpoch,
                   bootGap, building, save, query>>
    /\ loop.pc = "bootFreeze" /\ loop'.pc = "bootAttempt"
    /\ ~FileRefused([counter |-> load.counter, seq |-> load.seq, lineage |-> load.lineage])
    /\ load' = [load EXCEPT !.target = pgCounter]

\* A step of the rebuild loop loads, adopts or flips, or it is one of the turns
\* that leave load, view and state alone.
LEMMA RebuildMoves ==
    ASSUME EngineInv, RebuildNext
    PROVE  LoopTurn \/ RebuildLoad \/ RebuildLoadUncounted \/ RebuildAdopt \/ RebuildFlip
<1> USE DEF pgVars, engineVars, lifeVars, viewVars, genVars, countVars
<1> USE DEF LoopTurn, LoopStep, BootPhase, LoopType
<1>0. /\ loop \in LoopType /\ load \in LoadType /\ Null \notin Write
      /\ NewLoad.lineage = 0 /\ NewLoad.epoch = 0
  BY BackgroundFacts, EngineConstants DEF NewLoad
<1>1. CASE RebuildReadEpoch
  BY <1>0, <1>1 DEF RebuildReadEpoch, NewLoad
<1>2. CASE RebuildReadGen
  BY <1>0, <1>2 DEF RebuildReadGen, LoadType
<1>3. CASE RebuildFails \/ RebuildRefused
  BY <1>0, <1>3 DEF RebuildFails, RebuildRefused
<1>4. CASE RebuildPanics
  <2>1. [loop EXCEPT !.pc = "backoff"] \in LoopType
    BY <1>0 DEF LoopPC
  <2>2. loop'.pc = "backoff"
    BY <1>4, <2>1, StartFallbackRebuildType DEF RebuildPanics, EnterFallback
  <2> QED BY <1>0, <1>4, <2>2 DEF RebuildPanics, EnterFallback
<1>5. CASE RebuildRebase
  BY <1>0, <1>5 DEF RebuildRebase
<1>6. CASE LoopBackoff \/ LoopStops
  BY <1>0, <1>6 DEF LoopBackoff, LoopStops
<1>7. CASE LoopFinish
  BY <1>0, <1>7 DEF LoopFinish
<1>8. ASSUME loop'.pc = loop.pc \/ (loop.pc = "none" /\ loop'.pc = "top"), UNCHANGED <<pgVars, file,
             engineVars, load, ws, building, save, query, acked>>
      PROVE  LoopTurn
  BY <1>8
<1>9. CASE RelaunchAfterAdoption
  <2> DEFINE done == [loop EXCEPT !.finishing = loop.finishing - 1]
  <2>1. done \in LoopType /\ done.pc = loop.pc
    BY <1>0, <1>9 DEF RelaunchAfterAdoption
  <2>2. loop' \in {StartFallbackRebuild(done), RequestTrustRebuild(done), done}
    BY <1>9 DEF RelaunchAfterAdoption
  <2> HIDE DEF done
  <2>3. loop'.pc = loop.pc \/ (loop.pc = "none" /\ loop'.pc = "top")
    BY <2>1, <2>2, StartFallbackRebuildType, RequestTrustRebuildType
  <2> QED BY <1>8, <1>9, <2>3 DEF RelaunchAfterAdoption
<1>10. CASE LauncherFires
  <2> DEFINE l == [loop EXCEPT !.launcher = "leaving", !.fresh = TRUE]
  <2>1. l \in LoopType /\ l.pc = loop.pc
    BY <1>0
  <2>2. loop' \in {StartFallbackRebuild(l), [loop EXCEPT !.launcher = "leaving"]}
    BY <1>10 DEF LauncherFires
  <2> HIDE DEF l
  <2>3. loop'.pc = loop.pc \/ (loop.pc = "none" /\ loop'.pc = "top")
    BY <1>0, <2>1, <2>2, StartFallbackRebuildType
  <2> QED BY <1>8, <1>10, <2>3 DEF LauncherFires
<1>11. CASE IntervalElapses \/ LauncherLeaves
  BY <1>0, <1>8, <1>11 DEF IntervalElapses, LauncherLeaves
<1> QED BY <1>1, <1>2, <1>3, <1>4, <1>5, <1>6, <1>7, <1>9, <1>10, <1>11
     DEF RebuildNext, RebuildStep, LauncherStep, RebuildFault

\* A step of the boot loop reads the file, checks its stamp, freezes the gap,
\* replays a row or publishes, or it is a turn that leaves all that alone.
LEMMA BootMoves ==
    ASSUME EngineInv, BootNext
    PROVE  LoopTurn \/ FileRead \/ StampPassed \/ BootTake \/ BootReplayRow \/ BootPublish
<1> USE DEF pgVars, engineVars, lifeVars, viewVars, genVars, countVars
<1> USE DEF LoopTurn, LoopStep, BootPhase, LoopType, GiveUpOnFile
<1>0. /\ loop \in LoopType /\ load \in LoadType /\ Null \notin Write /\ Loader \notin Write
      /\ NewLoad.lineage = 0 /\ NewLoad.epoch = 0
      /\ loop.pc \in LoaderPC <=> applyMu = Loader
  BY BackgroundFacts, EngineConstants DEF NewLoad
<1>1. CASE BootReadGen
  BY <1>0, <1>1 DEF BootReadGen, NewLoad
<1>2. CASE BootReadFile
  BY <1>0, <1>2 DEF BootReadFile, FileRead, ReadSnapshotFile, FileUsable
<1>3. CASE BootReadFileUnchecked
  BY <1>0, <1>3 DEF BootReadFileUnchecked, FileRead, ReadSnapshotFile
<1>4. CASE BootFreeze
  BY <1>0, <1>4 DEF BootFreeze, StampPassed
<1>5. CASE BootFileFails \/ BootAttemptRejected \/ BootSettleTimeout
  BY <1>0, <1>5 DEF BootFileFails, BootAttemptRejected, BootSettleTimeout
<1>6. CASE BootReplayFails
  BY <1>0, <1>6 DEF BootReplayFails, LoaderPC
<1>7. CASE BootPanics
  BY <1>0, <1>7 DEF BootPanics
<1> QED BY <1>1, <1>2, <1>3, <1>4, <1>5, <1>6, <1>7 DEF BootNext, BootStep, BootFault

\* A save moves the save, the file and the loop's request for a rebuild.
LEMMA SaveMoves ==
    ASSUME EngineInv, SaveNext
    PROVE  /\ UNCHANGED <<pgVars, ws, acked, up, atStart, state, snap, baseLineage, genVars, applyMu,
                          applyEpoch, bootGap, load, building, query>>
           /\ loop'.pc = loop.pc \/ (loop.pc = "none" /\ loop'.pc = "top")
<1> USE DEF pgVars, engineVars, lifeVars, viewVars, genVars, countVars
<1>0. loop \in LoopType
  BY BackgroundFacts
<1>1. loop' \in {loop, RequestTrustRebuild(loop)}
  BY DEF SaveNext, SaveBegin, SaveReadCounter, SaveReadInflight, SaveReadLedger,
     SaveReadSequence, SaveFails, SavePrepare, SaveWrite, SaveWriteFails, SaveRecheck,
     CompactionAdopted
<1>2. loop'.pc = loop.pc \/ (loop.pc = "none" /\ loop'.pc = "top")
  BY <1>0, <1>1, RequestTrustRebuildType
<1> QED BY <1>2 DEF SaveNext, SaveBegin, SaveReadCounter, SaveReadInflight, SaveReadLedger,
     SaveReadSequence, SaveFails, SavePrepare, SaveWrite, SaveWriteFails, SaveRecheck,
     CompactionAdopted

\* Every step of the specification, in short.
LEMMA NextMoves ==
    ASSUME EngineInv, ScopeInv, [Next]_vars
    PROVE  \/ \E w \in Write : \/ QuietMove(w) /\ BumpMoves(w)
                               \/ \E rows \in SUBSET Row : CommitMove(w, rows) /\ BumpMoves(w)
                               \/ ReadBackRow(w)
                               \/ /\ ApplyTail(w) /\ BumpMoves(w)
                                  /\ \/ ApplyDecide(w) \/ ApplyPublish(w)
                                     \/ ApplyFails(w) \/ ApplyPanics(w)
           \/ LoopTurn \/ RebuildLoad \/ RebuildLoadUncounted \/ RebuildAdopt \/ RebuildFlip
           \/ FileRead \/ StampPassed \/ BootTake \/ BootReplayRow \/ BootPublish
           \/ SaveNext \/ Start \/ QueryReadState \/ QueryReadView \/ Exit
           \/ \E r \in Row : ExternalWrite(r)
<1>1. CASE Stop \/ Quiescent \/ UNCHANGED vars
  BY <1>1 DEF Stop, Quiescent, vars, LoopTurn, engineVars, pgVars, lifeVars, viewVars, genVars
<1> QED BY <1>1, WriteSteps, ApplyTails, BumpSteps, RebuildMoves, BootMoves DEF Next
-----------------------------------------------------------------------------
\* Where the view, the state and the phases of the loop go together: a boot has
\* no view yet, nobody reads back or saves without one, a read-back and a replay
\* run while serving, and a load's epoch is not ahead.
PhaseInv ==
    /\ loop.pc \in BootPhase => snap = Null
    /\ snap = Null => save.pc = "idle" /\ \A w \in Write : ws[w].pc # "readback"
    /\ ~up => snap = Null
    /\ \A w \in Write : ws[w].pc = "readback" => Serving
    /\ loop.pc = "bootReplay" => Serving
    /\ loop.pc = "flip" => snap # Null
    /\ load.epoch <= applyEpoch

\* The holder of applyMu is alone.
LEMMA Alone ==
    ASSUME EngineInv
    PROVE  /\ \A w \in Write : applyMu # w => ws[w].pc \notin CriticalPC
           /\ applyMu # Loader => loop.pc \notin LoaderPC
           /\ \A w \in Write : applyMu = w => applyMu # Loader /\ ws[w].pc \in CriticalPC /\ up
           /\ applyMu = Null => applyMu \notin Write /\ applyMu # Loader
BY EngineConstants DEF EngineInv, ControlInv, LockInv, DownInv, InCritical, InFlight, Finished,
   CriticalPC

\* Every step keeps the phases apart.
LEMMA PhaseNext ==
    ASSUME EngineInv, EngineInv', ScopeInv, PhaseInv, [Next]_vars
    PROVE  PhaseInv'
<1> USE DEF pgVars, engineVars, lifeVars, viewVars, genVars, countVars
<1> USE DEF PhaseInv, BootPhase, Serving, CriticalPC, LoaderPC
<1>0. /\ load \in LoadType /\ load.epoch \in Nat /\ applyEpoch \in Nat /\ loop \in LoopType
      /\ building \in BuildingType \cup {Null} /\ Null \notin Rows
      /\ \A w \in Write : ws[w].pc = "readback" => building # Null
      /\ loop.pc = "bootReplay" => building # Null
  BY EngineConstants DEF EngineInv, TypeOK, LoaderTypeOK, EngineTypeOK, ControlInv, HeldInv,
     LoadType, Rows
<1>1. ASSUME NEW w \in Write, QuietMove(w), BumpMoves(w)  PROVE PhaseInv'
  BY <1>1 DEF QuietMove, BumpMoves
<1>2. ASSUME NEW w \in Write, NEW rows \in SUBSET Row, CommitMove(w, rows), BumpMoves(w)
      PROVE  PhaseInv'
  BY <1>2 DEF CommitMove, BumpMoves
<1>3. ASSUME NEW w \in Write, ReadBackRow(w)  PROVE PhaseInv'
  BY <1>3 DEF ReadBackRow
<1>4. ASSUME NEW w \in Write, ApplyTail(w)  PROVE PhaseInv'
  <2>1. /\ \A x \in Write \ {w} : ws'[x].pc # "readback" /\ up' /\ loop.pc \notin LoaderPC
        /\ loop'.pc \notin LoaderPC
    BY <1>4, Alone DEF ApplyTail
  <2>2. snap' = snap \/ (snap' # Null /\ snap # Null)
    BY <1>0, <1>4 DEF ApplyTail, BuildingType
  <2>3. ws'[w].pc = "readback" => Serving' /\ snap' # Null /\ snap # Null
    BY <1>4, ScopeFacts, OverFields DEF ApplyTail, ReadBackNeeded
  <2>4. load'.epoch <= applyEpoch'
    BY <1>0, <1>4 DEF ApplyTail
  <2> QED BY <1>4, <2>1, <2>2, <2>3, <2>4 DEF ApplyTail
<1>5. CASE LoopTurn
  BY <1>0, <1>5, Alone DEF LoopTurn
<1>6. CASE RebuildLoad \/ RebuildLoadUncounted
  BY <1>0, <1>6 DEF RebuildLoad, RebuildLoadUncounted, LoopStep, LoadType, LoopType
<1>7. CASE RebuildAdopt
  BY <1>0, <1>7, BackgroundFacts, Alone DEF RebuildAdopt, LoopStep, LoopType, HoldsRows
<1>8. CASE RebuildFlip
  BY <1>0, <1>8 DEF RebuildFlip, LoopStep, LoopType
<1>9. CASE FileRead \/ StampPassed
  BY <1>0, <1>9 DEF FileRead, StampPassed, LoadType
<1>10. CASE BootTake
  BY <1>0, <1>10 DEF BootTake, LoopStep, LoopType, AttemptRejected
<1>11. CASE BootReplayRow
  BY <1>0, <1>11 DEF BootReplayRow
<1>12. CASE BootPublish
  BY <1>0, <1>12, BackgroundFacts DEF BootPublish, LoopStep, LoopType, NewLoad, BuildingType
<1>13. CASE SaveNext
  <2>1. snap = Null => save' = save
    BY <1>13 DEF SaveNext, SaveBegin, SaveReadCounter, SaveReadInflight, SaveReadLedger, SaveStep,
       SaveReadSequence, SaveFails, SavePrepare, SaveWrite, SaveWriteFails, SaveRecheck,
       CompactionAdopted
  <2> QED BY <1>13, <2>1, SaveMoves
<1>14. CASE Start
  BY <1>0, <1>14 DEF Start, NewLoop, EngineInv, ControlInv, DownInv, InFlight, Finished
<1>15. CASE QueryReadState \/ QueryReadView
  BY <1>15 DEF QueryReadState, QueryReadView
<1>16. CASE Exit
  <2>1. \A w \in Write : ws'[w].pc # "readback"
    BY <1>16, ExitScopes DEF Finished
  <2>2. /\ snap' = Null /\ state' = "serving" /\ applyEpoch' = 0
        /\ loop'.pc = "none" /\ save'.pc = "idle" /\ load'.epoch = 0
    BY <1>16 DEF Exit, NewLoop, NewSave, NewLoad
  <2> QED BY <2>1, <2>2
<1>17. ASSUME NEW r \in Row, ExternalWrite(r)  PROVE PhaseInv'
  BY <1>17 DEF ExternalWrite
<1> QED BY <1>1, <1>2, <1>3, <1>4, <1>5, <1>6, <1>7, <1>8, <1>9, <1>10, <1>11, <1>12, <1>13, <1>14,
        <1>15, <1>16, <1>17, NextMoves
-----------------------------------------------------------------------------
\* No stamp is ahead of PostgreSQL: not the one a save is collecting, not the
\* file's, not the lineage of the view or of the load.
StampBounds ==
    /\ save.counter <= pgCounter /\ save.seq <= pgSeq /\ save.lineage <= pgLineage
    /\ baseLineage <= pgLineage /\ load.lineage <= pgLineage
    /\ file # Null => file.counter <= pgCounter /\ file.seq <= pgSeq /\ file.lineage <= pgLineage

\* No step takes, saves or loads a stamp ahead of PostgreSQL's counter, sequence
\* and lineage.
LEMMA StampBoundsNext ==
    ASSUME EngineInv, EngineInv', ScopeInv, StampBounds, [Next]_vars
    PROVE  StampBounds'
<1> USE DEF pgVars, engineVars, lifeVars, viewVars, genVars, countVars
<1>0. /\ pgCounter \in Nat /\ pgSeq \in Nat /\ pgLineage \in Nat /\ baseLineage \in Nat
      /\ save.counter \in Nat /\ save.seq \in Nat /\ save.lineage \in Nat /\ load.lineage \in Nat
      /\ file # Null => file.counter \in Nat /\ file.seq \in Nat /\ file.lineage \in Nat
      /\ save \in SaveType /\ load \in LoadType
  BY DEF EngineInv, TypeOK, StoreTypeOK, EngineTypeOK, LoaderTypeOK, ReaderTypeOK, LoadType,
     SaveType, FileType
<1>1. ASSUME UNCHANGED <<save, baseLineage>>, load'.lineage \in {0, load.lineage},
             file' \in {file, Null}, pgCounter' \in {pgCounter, pgCounter + 1}, pgSeq <= pgSeq',
             pgSeq' \in Nat, pgLineage' \in {pgLineage, pgLineage + 1}
      PROVE  StampBounds'
  BY <1>0, <1>1 DEF StampBounds
<1>2. pgSeq' \in Nat
  BY DEF EngineInv, TypeOK, StoreTypeOK
<1>3. ASSUME NEW w \in Write, QuietMove(w), BumpMoves(w)  PROVE StampBounds'
  BY <1>0, <1>1, <1>2, <1>3 DEF QuietMove, BumpMoves, StampBounds
<1>4. ASSUME NEW w \in Write, NEW rows \in SUBSET Row, CommitMove(w, rows)  PROVE StampBounds'
  BY <1>4 DEF CommitMove, StampBounds
<1>5. ASSUME NEW w \in Write, ReadBackRow(w)  PROVE StampBounds'
  BY <1>5 DEF ReadBackRow, StampBounds
<1>6. ASSUME NEW w \in Write, ApplyTail(w), ApplyDecide(w) \/ ApplyPublish(w) \/ ApplyFails(w)
             \/ ApplyPanics(w)
      PROVE  StampBounds'
  BY <1>6 DEF ApplyDecide, ApplyPublish, ApplyFails, ApplyPanics, StampBounds
<1>7. CASE LoopTurn
  BY <1>0, <1>7 DEF LoopTurn, StampBounds
<1>8. CASE RebuildLoad \/ RebuildLoadUncounted
  <2>1. load'.lineage \in {0, load.lineage, pgLineage}
    BY <1>0, <1>8 DEF RebuildLoad, RebuildLoadUncounted, LoadType
  <2> QED BY <1>0, <1>8, <2>1 DEF RebuildLoad, RebuildLoadUncounted, StampBounds
<1>9. CASE RebuildAdopt \/ RebuildFlip
  BY <1>9 DEF RebuildAdopt, RebuildFlip, StampBounds
<1>10. CASE FileRead
  BY <1>0, <1>10 DEF FileRead, LoadType, StampBounds
<1>11. CASE StampPassed
  BY <1>0, <1>11 DEF StampPassed, LoadType, StampBounds
<1>12. CASE BootTake \/ BootReplayRow
  BY <1>12 DEF BootTake, BootReplayRow, StampBounds
<1>13. CASE BootPublish
  BY <1>0, <1>13 DEF BootPublish, NewLoad, StampBounds
<1>14. CASE SaveNext
  <2> USE DEF SaveStep, SaveDone, SaveType, StampBounds
  <2>0. NewSave.counter = 0 /\ NewSave.seq = 0 /\ NewSave.lineage = 0
    BY DEF NewSave
  <2>1. ASSUME NEW b \in BOOLEAN, SaveBegin(b)  PROVE StampBounds'
    BY <1>0, <2>1 DEF SaveBegin, NewSave
  <2>2. CASE SaveReadCounter
    BY <1>0, <2>2 DEF SaveReadCounter
  <2>3. CASE SaveReadInflight
    BY <1>0, <2>3 DEF SaveReadInflight
  <2>10. CASE SaveReadSequence
    BY <1>0, <2>10 DEF SaveReadSequence
  <2>4. CASE SaveReadLedger
    BY <1>0, <2>0, <2>4 DEF SaveReadLedger
  <2>5. CASE SaveFails
    BY <1>0, <2>0, <2>5 DEF SaveFails
  <2>6. CASE SavePrepare
    <3>1. CASE save' = [save EXCEPT !.pc = "write", !.rows = snap, !.lineage = baseLineage,
                                    !.dirty = dirtyGen]
      BY <1>0, <2>6, <3>1 DEF SavePrepare
    <3>2. CASE save' = NewSave
      BY <1>0, <2>0, <2>6, <3>2 DEF SavePrepare
    <3> QED BY <2>6, <3>1, <3>2 DEF SavePrepare
  <2>7. CASE SaveWrite
    BY <1>0, <2>7 DEF SaveWrite
  <2>8. CASE SaveWriteFails
    BY <1>0, <2>8 DEF SaveWriteFails
  <2>9. CASE SaveRecheck \/ CompactionAdopted
    BY <1>0, <2>0, <2>9 DEF SaveRecheck, CompactionAdopted
  <2> QED BY <1>14, <2>1, <2>2, <2>3, <2>4, <2>5, <2>6, <2>7, <2>8, <2>9, <2>10 DEF SaveNext
<1>15. CASE Start \/ QueryReadState \/ QueryReadView
  BY <1>15 DEF Start, QueryReadState, QueryReadView, StampBounds
<1>16. CASE Exit
  BY <1>0, <1>16 DEF Exit, NewSave, NewLoad, StampBounds
<1>17. ASSUME NEW r \in Row, ExternalWrite(r)  PROVE StampBounds'
  BY <1>0, <1>17 DEF ExternalWrite, StampBounds
<1> QED BY <1>3, <1>4, <1>5, <1>6, <1>7, <1>8, <1>9, <1>10, <1>11, <1>12, <1>13, <1>14,
        <1>15, <1>16, <1>17, NextMoves
-----------------------------------------------------------------------------
\* No bump at or below the value is still held.
RetiredUpTo(c) == \A w \in Write : HoldsBump(ws[w]) => Drawn(ws[w]) = 0 \/ Drawn(ws[w]) > c

\* A save whose readings converged, and a file a failed bump made doubtful.
Probed == save.pc \in {"sequence", "prepare", "write"} \/ (save.pc = "ledger" /\ save.inflight = 0)
Torn == save.pc = "recheck" /\ dirtyGen # save.dirty

\* Behind a save's stamp and the file's no bump is held, a save that saw the
\* generations equal would see a new one, and while a file is in place no failed
\* bump can commit anything.
TrustInv ==
    /\ save.pc \in {"write", "recheck"} =>
          save.dirty <= dirtyGen /\ (save.dirty = dirtyGen => resolvedGen = dirtyGen)
    /\ Probed => RetiredUpTo(save.counter)
    /\ file # Null => /\ RetiredUpTo(file.counter)
                      /\ Torn \/ \A w \in Write : ws[w].bumpFailed => ws[w].pc = "invalidate"

\* A bump that lands after a stamp was read is above it.
LEMMA RetiredKept ==
    ASSUME EngineInv, NEW c \in Nat, c <= pgCounter, RetiredUpTo(c), NEW w \in Write, BumpMoves(w)
    PROVE  RetiredUpTo(c)'
<1>1. pgCounter \in Nat
  BY ScopeFacts
<1> QED BY <1>1 DEF RetiredUpTo, BumpMoves

\* With the generations equal no failure is unsettled.
LEMMA EqualGenerations ==
    ASSUME EngineInv, resolvedGen = dirtyGen
    PROVE  settledGen = dirtyGen /\ \A w \in Write : ~ws[w].bumpFailed
<1>1. /\ dirtyGen \in Nat /\ settledGen \in Nat /\ resolvedGen \in Nat
      /\ settledGen + Cardinality(Unsettled) <= dirtyGen /\ resolvedGen <= settledGen
  BY DEF EngineInv, TypeOK, EngineTypeOK, GenerationInv
<1>2. Cardinality(Unsettled) = 0 /\ settledGen = dirtyGen
  BY <1>1, UnsettledFinite
<1>3. Unsettled = {}
  BY <1>2, UnsettledFinite, FS_EmptySet
<1> QED BY <1>2, <1>3 DEF Unsettled

\* Nothing in flight: no bump is held.
LEMMA NothingHeld ==
    ASSUME BumpBounds, inflight = 0
    PROVE  \A w \in Write : ~HoldsBump(ws[w])
<1>1. Cardinality(Holding) = 0
  BY HoldingFinite DEF BumpBounds
<1>2. Holding = {}
  BY <1>1, HoldingFinite, FS_EmptySet
<1> QED BY <1>2 DEF Holding

\* Every step keeps the stamps vouched for: a bump that lands is above them, one
\* that fails is seen by the recheck or finds the file gone.
LEMMA TrustInvNext ==
    ASSUME EngineInv, EngineInv', ScopeInv, BumpBounds, StampBounds, TrustInv, [Next]_vars
    PROVE  TrustInv'
<1> USE DEF pgVars, engineVars, lifeVars, viewVars, genVars, countVars
<1>0. /\ pgCounter \in Nat /\ save.counter \in Nat /\ save \in SaveType /\ save.dirty \in Nat
      /\ dirtyGen \in Nat /\ resolvedGen \in Nat /\ settledGen \in Nat /\ load.gen \in Nat
      /\ resolvedGen <= settledGen /\ settledGen <= dirtyGen /\ load.gen <= settledGen
      /\ file # Null => file.counter \in Nat
      /\ resolvedGen' \in Nat
  <2>1. Cardinality(Unsettled) \in Nat
    BY UnsettledFinite
  <2> QED BY <2>1 DEF EngineInv, TypeOK, StoreTypeOK, EngineTypeOK, LoaderTypeOK, ReaderTypeOK,
          LoadType, SaveType, FileType, GenerationInv
<1>1. ASSUME NEW w \in Write, BumpMoves(w), file' \in {file, Null}, UNCHANGED <<save, resolvedGen>>
      PROVE  TrustInv'
  <2>1. Probed => RetiredUpTo(save.counter)'
    BY <1>0, <1>1, RetiredKept DEF TrustInv, StampBounds
  <2>2. file' # Null => RetiredUpTo(file.counter)'
    BY <1>0, <1>1, RetiredKept DEF TrustInv, StampBounds
  <2>3. Torn => Torn'
    BY <1>0, <1>1 DEF Torn, TrustInv, BumpMoves
  <2>4. file' # Null => Torn' \/ \A x \in Write : ws'[x].bumpFailed => ws'[x].pc = "invalidate"
    BY <1>1, <2>3 DEF TrustInv, BumpMoves
  <2>5. dirtyGen' \in {dirtyGen, dirtyGen + 1}
    BY <1>1 DEF BumpMoves
  <2> QED BY <1>0, <1>1, <2>1, <2>2, <2>4, <2>5 DEF TrustInv, Probed, RetiredUpTo
<1>2. ASSUME UNCHANGED <<ws, save, dirtyGen>>, file' \in {file, Null},
             resolvedGen' = resolvedGen \/ (resolvedGen <= resolvedGen' /\ resolvedGen' <= dirtyGen)
      PROVE  TrustInv'
  BY <1>0, <1>2 DEF TrustInv, Probed, Torn, RetiredUpTo
<1>3. ASSUME NEW w \in Write, QuietMove(w), BumpMoves(w)  PROVE TrustInv'
  BY <1>1, <1>3 DEF QuietMove
<1>4. ASSUME NEW w \in Write, NEW rows \in SUBSET Row, CommitMove(w, rows), BumpMoves(w)
      PROVE  TrustInv'
  BY <1>1, <1>4 DEF CommitMove
<1>5. ASSUME NEW w \in Write, ReadBackRow(w)  PROVE TrustInv'
  BY <1>2, <1>5 DEF ReadBackRow
<1>6. ASSUME NEW w \in Write, ApplyTail(w), BumpMoves(w)  PROVE TrustInv'
  BY <1>1, <1>6 DEF ApplyTail
<1>7. CASE LoopTurn
  BY <1>2, <1>7 DEF LoopTurn
<1>8. CASE RebuildLoad \/ RebuildLoadUncounted \/ RebuildFlip \/ FileRead \/ StampPassed
           \/ BootTake \/ BootReplayRow \/ QueryReadState \/ QueryReadView
  BY <1>2, <1>8 DEF RebuildLoad, RebuildLoadUncounted, RebuildFlip, FileRead, StampPassed, BootTake,
     BootReplayRow, QueryReadState, QueryReadView
<1>9. CASE RebuildAdopt \/ BootPublish
  <2>1. resolvedGen' = MaxOf(resolvedGen, load.gen)
    BY <1>9 DEF RebuildAdopt, BootPublish
  <2>2. resolvedGen <= resolvedGen' /\ resolvedGen' <= dirtyGen
    BY <1>0, <2>1 DEF MaxOf
  <2> QED BY <1>2, <1>9, <2>2 DEF RebuildAdopt, BootPublish
<1>10. CASE SaveNext
  <2> USE DEF SaveStep, SaveDone, SaveType, TrustInv, Probed, Torn, RetiredUpTo
  <2>0. NewSave.pc = "idle"
    BY DEF NewSave
  <2>1. ASSUME NEW b \in BOOLEAN, SaveBegin(b)  PROVE TrustInv'
    BY <1>0, <2>1 DEF SaveBegin, NewSave
  <2>2. CASE SaveReadCounter
    BY <1>0, <2>2 DEF SaveReadCounter
  <2>3. CASE SaveReadInflight
    BY <1>0, <2>3, NothingHeld DEF SaveReadInflight
  <2>4. CASE SaveReadLedger
    BY <1>0, <2>0, <2>4 DEF SaveReadLedger, Converged
  <2>5. CASE SaveReadSequence
    BY <1>0, <2>5 DEF SaveReadSequence
  <2>6. CASE SaveFails
    BY <1>0, <2>0, <2>6 DEF SaveFails
  <2>7. CASE SavePrepare
    <3>1. CASE save' = [save EXCEPT !.pc = "write", !.rows = snap, !.lineage = baseLineage,
                                    !.dirty = dirtyGen] /\ SavePreconditions
      BY <1>0, <2>7, <3>1 DEF SavePrepare, SavePreconditions
    <3>2. CASE save' = NewSave
      BY <1>0, <2>0, <2>7, <3>2 DEF SavePrepare
    <3> QED BY <2>7, <3>1, <3>2 DEF SavePrepare
  <2>8. CASE SaveWrite
    BY <1>0, <2>8, EqualGenerations DEF SaveWrite
  <2>9. CASE SaveWriteFails
    BY <1>0, <2>9 DEF SaveWriteFails
  <2>10. CASE SaveRecheck \/ CompactionAdopted
    BY <1>0, <2>0, <2>10 DEF SaveRecheck, CompactionAdopted
  <2> QED BY <1>10, <2>1, <2>2, <2>3, <2>4, <2>5, <2>6, <2>7, <2>8, <2>9, <2>10 DEF SaveNext
<1>11. CASE Start
  <2>1. save.pc = "idle"
    BY <1>11 DEF Start, EngineInv, ControlInv, DownInv
  <2> QED BY <1>11, <2>1 DEF Start, TrustInv, Probed, Torn, RetiredUpTo
<1>12. CASE Exit
  <2>1. \A w \in Write : ~ws'[w].bumpFailed /\ ~HoldsBump(ws'[w])
    BY <1>12, ExitScopes, ScopeFacts, OverFields DEF HoldsBump, Finished
  <2>2. save'.pc = "idle" /\ file' = file
    BY <1>12 DEF Exit, NewSave
  <2> QED BY <2>1, <2>2 DEF TrustInv, Probed, RetiredUpTo
<1>13. ASSUME NEW r \in Row, ExternalWrite(r)  PROVE TrustInv'
  BY <1>2, <1>13 DEF ExternalWrite
<1> QED BY <1>3, <1>4, <1>5, <1>6, <1>7, <1>8, <1>9, <1>10, <1>11, <1>12, <1>13, NextMoves
-----------------------------------------------------------------------------
\* The buffer forgets nothing while it is armed: a write is an entry with the
\* counter it drew, or the buffer is poisoned.
LEMMA GapGrows ==
    ASSUME NEW b \in BootGapType, NEW s \in Scope, NEW c \in {Observe(b, s), ObserveAbandoned(b, s)}
    PROVE  /\ c.active = b.active /\ (b.poisoned => c.poisoned) /\ b.entries \subseteq c.entries
           /\ \A e \in c.entries : e \in b.entries \/ (e.counter = s.counter /\ s.counter > 0)
           /\ c = Observe(b, s) /\ b.active =>
                 \/ c.poisoned \/ s.keys = {}
                 \/ ~s.fallback /\ \E e \in c.entries : e.keys = s.keys
           /\ c = Observe(b, s) /\ b.active /\ s.fallback => c.poisoned
<1>0. s.counter \in Nat /\ s.keys \in SUBSET Row
  BY DEF Scope
<1>1. /\ [b EXCEPT !.poisoned = TRUE].active = b.active
      /\ [b EXCEPT !.poisoned = TRUE].entries = b.entries
      /\ [b EXCEPT !.poisoned = TRUE].poisoned
  BY DEF BootGapType
<1>2. ASSUME NEW k \in SUBSET Row
      PROVE  LET a == AppendEntry(b, s.counter, k)
             IN  /\ a.active = b.active /\ (b.poisoned => a.poisoned) /\ b.entries \subseteq a.entries
                 /\ \A e \in a.entries : e \in b.entries \/ e.counter = s.counter
                 /\ a.poisoned \/ \E e \in a.entries : e.keys = k
  <2> DEFINE n == [counter |-> s.counter, keys |-> k]
             a == [b EXCEPT !.entries = b.entries \cup {n}]
  <2>1. /\ a.active = b.active /\ a.poisoned = b.poisoned /\ a.entries = b.entries \cup {n}
        /\ n.counter = s.counter /\ n.keys = k
    BY DEF BootGapType
  <2>2. AppendEntry(b, s.counter, k) \in {a, [b EXCEPT !.poisoned = TRUE]}
    BY DEF AppendEntry
  <2> HIDE DEF n, a
  <2> QED BY <1>1, <2>1, <2>2
<1>3. CASE c = ObserveAbandoned(b, s) /\ c # Observe(b, s)
  BY <1>0, <1>2, <1>3 DEF ObserveAbandoned
<1>4. CASE c = Observe(b, s)
  BY <1>0, <1>1, <1>2, <1>4 DEF Observe
<1> QED BY <1>3, <1>4

\* What this process captured at its start: every value drawn since is above
\* the counter it saw, in flight or buffered, and the armed buffer misses none.
Attempting == {"boot", "bootFile", "bootFreeze", "bootAttempt"}
CaptureInv ==
    /\ ~up => atStart = Null /\ bootGap.entries = {}
    /\ atStart # Null =>
          /\ atStart.counter <= pgCounter
          /\ \A w \in Write : InFlight(w) => Drawn(ws[w]) = 0 \/ Drawn(ws[w]) > atStart.counter
          /\ \A e \in bootGap.entries : e.counter > atStart.counter
          /\ loop.pc \in Attempting => bootGap.active
    /\ loop.pc = "bootAttempt" =>
          /\ atStart # Null /\ load.counter <= atStart.counter
          /\ atStart.counter = load.counter => load.seq = atStart.seq
          /\ load.lineage = pgLineage /\ load.target >= atStart.counter

\* Every step keeps what the process captured at its start.
LEMMA CaptureNext ==
    ASSUME EngineInv, EngineInv', ScopeInv, CaptureInv, [Next]_vars
    PROVE  CaptureInv'
<1> USE DEF pgVars, engineVars, lifeVars, viewVars, genVars, countVars
<1>0. /\ pgCounter \in Nat /\ bootGap \in BootGapType /\ load \in LoadType /\ loop \in LoopType
      /\ atStart # Null => atStart.counter \in Nat /\ atStart.seq \in Nat
      /\ loop.pc # "none" => up
      /\ loop.pc \in HoldsStamp => load.counter \in Nat
      /\ \A w \in Write : InFlight(w) => up
      /\ Deactivate(bootGap).entries = {}
  BY BackgroundFacts, ScopeFacts DEF EngineInv, TypeOK, LoaderTypeOK, Deactivate, BootGapType
<1>1. ASSUME NEW w \in Write, BumpMoves(w), UNCHANGED <<up, atStart, load, pgLineage>>,
             loop'.pc = loop.pc \/ (loop.pc = "none" /\ loop'.pc = "top"),
             \/ bootGap' = bootGap
             \/ /\ bootGap' \in {Observe(bootGap, ws[w]), ObserveAbandoned(bootGap, ws[w])}
                /\ ws[w].pc \notin Finished \cup {"replying"}
      PROVE  CaptureInv'
  <2>1. ws[w] \in Scope /\ ScopeSound(w, ws[w])
    BY ScopeFacts DEF ScopeInv
  <2>2. CASE bootGap' = bootGap
    BY <1>0, <1>1, <2>2 DEF CaptureInv, BumpMoves, InFlight, Attempting
  <2>3. CASE /\ bootGap' \in {Observe(bootGap, ws[w]), ObserveAbandoned(bootGap, ws[w])}
             /\ ws[w].pc \notin Finished \cup {"replying"}
    <3>1. up /\ InFlight(w) /\ Drawn(ws[w]) = ws[w].counter
      BY <1>0, <2>1, <2>3 DEF InFlight, ScopeSound, Drawn, MaxOf, Scope
    <3>2. /\ bootGap'.active = bootGap.active
          /\ \A e \in bootGap'.entries :
                e \in bootGap.entries \/ (e.counter = ws[w].counter /\ ws[w].counter > 0)
      BY <1>0, <2>1, <2>3, GapGrows
    <3>3. atStart # Null => \A e \in bootGap'.entries : e.counter > atStart.counter
      BY <3>1, <3>2 DEF CaptureInv
    <3> QED BY <1>0, <1>1, <3>1, <3>2, <3>3 DEF CaptureInv, BumpMoves, InFlight, Attempting
  <2> QED BY <1>1, <2>2, <2>3
<1>2. ASSUME UNCHANGED <<ws, atStart, pgCounter>>, up' = up,
             loop'.pc \in Attempting => bootGap' = bootGap /\ loop.pc \in Attempting,
             loop'.pc = "bootAttempt" => UNCHANGED <<load, pgLineage>> /\ loop.pc = "bootAttempt",
             bootGap' \in {bootGap, Deactivate(bootGap)}
      PROVE  CaptureInv'
  BY <1>0, <1>2 DEF CaptureInv, InFlight
<1>3. ASSUME NEW w \in Write, QuietMove(w), BumpMoves(w)  PROVE CaptureInv'
  BY <1>1, <1>3 DEF QuietMove, Finished
<1>4. ASSUME NEW w \in Write, NEW rows \in SUBSET Row, CommitMove(w, rows), BumpMoves(w)
      PROVE  CaptureInv'
  BY <1>1, <1>4 DEF CommitMove
<1>5. ASSUME NEW w \in Write, ReadBackRow(w)  PROVE CaptureInv'
  BY <1>2, <1>5 DEF ReadBackRow
<1>6. ASSUME NEW w \in Write, ApplyTail(w), BumpMoves(w),
             ApplyDecide(w) \/ ApplyPublish(w) \/ ApplyFails(w) \/ ApplyPanics(w)
      PROVE  CaptureInv'
  <2>1. \/ bootGap' = bootGap
        \/ bootGap' = Observe(bootGap, ws[w]) /\ ws[w].pc \notin Finished \cup {"replying"}
    BY <1>6 DEF ApplyDecide, ApplyPublish, ApplyFails, ApplyPanics, Finished
  <2> QED BY <1>1, <1>6, <2>1 DEF ApplyTail
<1>7. CASE LoopTurn
  BY <1>2, <1>7 DEF LoopTurn, BootPhase, Attempting
<1>8. CASE RebuildLoad \/ RebuildLoadUncounted \/ RebuildFlip \/ RebuildAdopt
           \/ BootTake \/ BootPublish
  <2>1. loop'.pc \notin Attempting
    BY <1>0, <1>8 DEF RebuildLoad, RebuildLoadUncounted, RebuildFlip, RebuildAdopt, BootTake,
       BootPublish, LoopStep, LoopType, Attempting
  <2>2. loop'.pc # "bootAttempt"
    BY <2>1 DEF Attempting
  <2> QED BY <1>2, <1>8, <2>1, <2>2 DEF RebuildLoad, RebuildLoadUncounted, RebuildFlip, RebuildAdopt,
          BootTake, BootPublish
<1>9. CASE FileRead
  BY <1>2, <1>9 DEF FileRead, Attempting
<1>10. CASE StampPassed
  <2>1. /\ atStart # Null /\ load.counter <= atStart.counter
        /\ atStart.counter = load.counter => load.seq = atStart.seq
        /\ load.lineage = pgLineage
    BY <1>0, <1>10 DEF StampPassed, FileRefused, HoldsStamp
  <2>2. /\ load'.counter = load.counter /\ load'.seq = load.seq /\ load'.lineage = load.lineage
        /\ load'.target = pgCounter
    BY <1>0, <1>10 DEF StampPassed, LoadType
  <2> QED BY <1>0, <1>10, <2>1, <2>2 DEF StampPassed, CaptureInv, Attempting, InFlight
<1>11. CASE BootReplayRow \/ QueryReadState \/ QueryReadView
  BY <1>2, <1>11 DEF BootReplayRow, QueryReadState, QueryReadView
<1>12. CASE SaveNext
  BY <1>2, <1>12, SaveMoves DEF Attempting
<1>13. CASE Start
  <2>1. \A w \in Write : ~InFlight(w)'
    BY <1>13 DEF Start, EngineInv, ControlInv, DownInv, InFlight
  <2>2. /\ up' /\ loop'.pc = "boot" /\ pgCounter' = pgCounter /\ bootGap'.entries = {}
        /\ atStart' # Null => bootGap'.active /\ atStart'.counter = pgCounter
    BY <1>13 DEF Start, NewLoop, NewBootGap
  <2> QED BY <1>0, <2>1, <2>2 DEF CaptureInv
<1>14. CASE Exit
  <2>1. ~up' /\ atStart' = Null /\ bootGap'.entries = {} /\ loop'.pc = "none"
    BY <1>14 DEF Exit, NewLoop, NewBootGap
  <2> QED BY <2>1 DEF CaptureInv
<1>15. ASSUME NEW r \in Row, ExternalWrite(r)  PROVE CaptureInv'
  <2>1. loop.pc = "none" /\ ~up /\ UNCHANGED <<up, atStart, bootGap, loop>>
    BY <1>0, <1>15 DEF ExternalWrite
  <2> QED BY <2>1 DEF CaptureInv
<1> QED BY <1>3, <1>4, <1>5, <1>6, <1>7, <1>8, <1>9, <1>10, <1>11, <1>12, <1>13, <1>14, <1>15,
        NextMoves
-----------------------------------------------------------------------------
\* The bookkeeping of the protocol, whole.
ProtocolInv ==
    /\ EngineInv /\ ScopeInv /\ VersionBounds /\ BumpBounds /\ PhaseInv /\ StampBounds /\ TrustInv
    /\ CaptureInv

\* The bookkeeping holds of a database nobody has written to and no engine up.
LEMMA ProtocolInit == Init => ProtocolInv
<1> SUFFICES ASSUME Init  PROVE ProtocolInv
  OBVIOUS
<1>1. \A w \in Write : /\ ws[w] = NewScope /\ ~HoldsBump(ws[w]) /\ Drawn(ws[w]) = 0
                       /\ ws[w].pc = "idle" /\ \A r \in Row : ws[w].ver[r] = 0
  BY DEF Init, NewScope, NoRows, HoldsBump, Drawn, MaxOf
<1>2. ScopeInv
  BY <1>1 DEF ScopeInv, ScopeSound, NewScope, Finished, Begun, Abandoned
<1>3. Holding = {}
  BY <1>1 DEF Holding
<1>4. VersionBounds /\ BumpBounds
  BY <1>1, <1>3, FS_EmptySet DEF Init, VersionBounds, BumpBounds, NoRows
<1>5. PhaseInv /\ StampBounds
  BY <1>1 DEF Init, PhaseInv, StampBounds, BootPhase, NewLoop, NewLoad, NewSave, Serving
<1>6. TrustInv /\ CaptureInv
  BY DEF Init, TrustInv, CaptureInv, Probed, NewSave, NewLoop, NewBootGap
<1> QED BY <1>2, <1>4, <1>5, <1>6, EngineInitInv DEF ProtocolInv

\* Every step keeps the bookkeeping: one lemma for each part.
LEMMA ProtocolNext == ProtocolInv /\ [Next]_vars => ProtocolInv'
BY EngineNextInv, ScopeNext, VersionBoundsNext, BumpBoundsNext, PhaseNext, StampBoundsNext,
   TrustInvNext, CaptureNext DEF ProtocolInv

\* The protocol's bookkeeping holds throughout every behaviour of the engine,
\* its crashes and restarts included.
THEOREM ProtocolInvariant == Spec => []ProtocolInv
BY ProtocolInit, ProtocolNext, PTL DEF Spec

-----------------------------------------------------------------------------
(***************************************************************************)
(* The replica is what PostgreSQL holds, for every set of rows and writes  *)
(* and every bound: what a view, a load, a read-back, a boot replay and    *)
(* the snapshot file may hold at each point, and why whatever is published *)
(* holds every write that has returned and misses only writes still in     *)
(* flight.  Then what the answers of WatermarkTrusted mean, read by read.  *)
(***************************************************************************)

\* A write in flight that has made row r durable: the excuse for a replica
\* that does not hold PostgreSQL's version of r.
Carries(s, r) == s.pc \notin Finished /\ s.ver[r] > 0

\* Version v of row r is PostgreSQL's, or one of the writes X is the excuse.
Fresh(v, r, X) == v = pgRow[r] \/ \E x \in X : Carries(ws[x], r)

\* Version v of row r is not behind a write whose call is over.
HoldsDone(v, r) ==
    v >= acked[r] /\ \A w \in Write : ws[w].pc \in Finished => v >= ws[w].ver[r]

RowSound(v, r) == Fresh(v, r, Write) /\ HoldsDone(v, r)

\* The published view, while it is served from or about to be.
ViewInv == snap # Null /\ (Serving \/ loop.pc = "flip") => \A r \in Row : RowSound(snap[r], r)

\* A load no Apply has superseded: it is not behind the write that is reading
\* back now, whose return it will outlive.
Settling == {w \in Write : ws[w].pc # "readback"}
LoadInv ==
    loop.pc = "adopt" /\ applyEpoch = load.epoch => \A r \in Row :
        /\ Fresh(load.rows[r], r, Settling) /\ HoldsDone(load.rows[r], r)
        /\ \A w \in Write : ws[w].pc = "readback" => load.rows[r] >= ws[w].ver[r]

\* A read-back: what it has read needs no excuse from the write it is for.
BuildInv ==
    \A w \in Write : ws[w].pc = "readback" => \A r \in Row :
        /\ HoldsDone(building.rows[r], r)
        /\ r \notin building.todo => /\ building.rows[r] >= ws[w].ver[r]
                                     /\ Fresh(building.rows[r], r, Write \ {w})

\* A boot replay: every row it does not replay is sound as the file held it.
ReplayInv == loop.pc = "bootReplay" => \A r \in Row \ building.todo : RowSound(building.rows[r], r)

\* A stamp that is the state captured at start, and the promise that goes with
\* it: every row is sound or named by a buffered write, unless the buffer is
\* poisoned or the engine fell back.
StampedAtStart(f) ==
    /\ atStart # Null /\ f.counter = atStart.counter /\ f.seq = atStart.seq
    /\ f.lineage = pgLineage
Covers(rows) ==
    \/ bootGap.poisoned \/ ~Serving
    \/ \A r \in Row : (\E e \in bootGap.entries : r \in e.keys) \/ RowSound(rows[r], r)
BootInv ==
    /\ loop.pc \in {"boot", "bootFile"} /\ file # Null /\ StampedAtStart(file) => Covers(file.rows)
    /\ loop.pc \in {"bootFreeze", "bootAttempt"} /\ StampedAtStart(load) => Covers(load.rows)

\* The file, and the rows a save is about to write: they hold every write their
\* stamp counts, and match PostgreSQL while the stamp is PostgreSQL's own.
Vouches(rows, c) == \A w \in Write, r \in Row : Drawn(ws[w]) \in 1 .. c => rows[r] >= ws[w].ver[r]
FileInv ==
    /\ file # Null => Vouches(file.rows, file.counter)
    /\ file # Null /\ LooksCurrent(file) /\ ~Torn => file.rows = pgRow
    /\ save.pc = "write" => Vouches(save.rows, save.counter)
    /\ save.pc = "write" /\ LooksCurrent(save) /\ save.dirty = dirtyGen => save.rows = pgRow

\* A query between its two reads: the view is not behind what it must show.
QueryInv ==
    /\ query.pc = "view" => \A r \in Row : /\ query.floor[r] <= acked[r]
                                           /\ snap # Null => snap[r] >= query.floor[r]
    /\ ReadsAcknowledgedWrites
-----------------------------------------------------------------------------
(* What a step does to a row's soundness.                                   *)

\* A driver call before it applies: it makes rows durable, or nothing happens.
DriverMove(w) == BumpMoves(w) /\ (QuietMove(w) \/ \E rows \in SUBSET Row : CommitMove(w, rows))

\* Types used throughout.
LEMMA RowFacts ==
    ASSUME ProtocolInv
    PROVE  /\ pgRow \in Rows /\ acked \in Rows /\ ws \in [Write -> Scope]
           /\ \A w \in Write : ws[w] \in Scope /\ ws[w].ver \in Rows
           /\ \A r \in Row : /\ pgRow[r] \in Nat /\ acked[r] \in Nat /\ acked[r] <= pgRow[r]
                             /\ \A w \in Write : ws[w].ver[r] \in Nat /\ ws[w].ver[r] <= pgRow[r]
           /\ snap # Null => snap \in Rows
           /\ file # Null => file \in FileType
           /\ building # Null => building.rows \in Rows /\ building.todo \in SUBSET Row
           /\ load.rows # Null => load.rows \in Rows
           /\ save.rows # Null => save.rows \in Rows
BY DEF ProtocolInv, VersionBounds, EngineInv, TypeOK, StoreTypeOK, EngineTypeOK, LoaderTypeOK,
   WriteTypeOK, ReaderTypeOK, Scope, Rows, BuildingType, LoadType, SaveType

\* PostgreSQL's own version is sound.
LEMMA CurrentIsSound ==
    ASSUME ProtocolInv, NEW r \in Row, NEW X
    PROVE  Fresh(pgRow[r], r, X) /\ HoldsDone(pgRow[r], r) /\ RowSound(pgRow[r], r)
BY RowFacts DEF Fresh, HoldsDone, RowSound

\* A version stays fresh across a driver's step whose write may be the excuse.
LEMMA FreshKept ==
    ASSUME ProtocolInv, NEW r \in Row, NEW v, NEW X \in SUBSET Write, Fresh(v, r, X),
           NEW w \in X, DriverMove(w)
    PROVE  Fresh(v, r, X)'
<1>0. ws[w].ver[r] \in Nat /\ pgRow[r] \in Nat
  BY RowFacts
<1>1. CASE QuietMove(w)
  BY <1>0, <1>1 DEF QuietMove, DriverMove, BumpMoves, Fresh, Carries
<1>2. ASSUME NEW rows \in SUBSET Row, CommitMove(w, rows)  PROVE Fresh(v, r, X)'
  BY <1>0, <1>2 DEF CommitMove, DriverMove, BumpMoves, Fresh, Carries, Finished
<1> QED BY <1>1, <1>2 DEF DriverMove

\* No call is over that was not, but for one that made nothing durable.
LEMMA DoneKept ==
    ASSUME ProtocolInv, NEW r \in Row, NEW v \in Nat, HoldsDone(v, r), NEW w \in Write, DriverMove(w)
    PROVE  HoldsDone(v, r)'
<1>0. ws[w].ver[r] \in Nat /\ pgRow[r] \in Nat
  BY RowFacts
<1>1. CASE QuietMove(w)
  BY <1>0, <1>1 DEF QuietMove, DriverMove, BumpMoves, HoldsDone
<1>2. ASSUME NEW rows \in SUBSET Row, CommitMove(w, rows)  PROVE HoldsDone(v, r)'
  BY <1>0, <1>2 DEF CommitMove, DriverMove, BumpMoves, HoldsDone, Finished
<1> QED BY <1>1, <1>2 DEF DriverMove

\* A call that returns, or begins to read back, asks only for its own rows.
LEMMA DoneReturns ==
    ASSUME ProtocolInv, NEW r \in Row, NEW v \in Nat, HoldsDone(v, r), NEW w \in Write, ApplyTail(w),
           v >= ws[w].ver[r]
    PROVE  HoldsDone(v, r)'
<1>0. ws[w] \in Scope /\ ws[w].ver[r] \in Nat /\ acked[r] \in Nat
  BY RowFacts
<1>1. ws'[w].ver = ws[w].ver
  BY <1>0, OverFields DEF ApplyTail, Scope
<1> QED BY <1>0, <1>1 DEF ApplyTail, HoldsDone, MaxOf

\* The return of a write that a row's excuse does not rest on takes no excuse away.
LEMMA FreshReturns ==
    ASSUME ProtocolInv, NEW r \in Row, NEW v, NEW w \in Write, NEW X \in SUBSET Write, Fresh(v, r, X),
           w \notin X \/ ws[w].ver[r] = 0, ApplyTail(w)
    PROVE  Fresh(v, r, X)'
BY DEF ApplyTail, Fresh, Carries, pgVars

\* A step that touches neither PostgreSQL's rows nor the writes nor what callers
\* were told.
LEMMA SoundStays ==
    ASSUME UNCHANGED <<pgRow, ws, acked>>, NEW r, NEW v, NEW X
    PROVE  /\ Fresh(v, r, X)' <=> Fresh(v, r, X)
           /\ HoldsDone(v, r)' <=> HoldsDone(v, r)
           /\ RowSound(v, r)' <=> RowSound(v, r)
BY DEF Fresh, HoldsDone, RowSound

\* A row that needs no excuse from the write that returns, and is not behind it.
LEMMA SoundReturns ==
    ASSUME ProtocolInv, NEW w \in Write, ApplyTail(w), NEW r \in Row, NEW v \in Nat,
           HoldsDone(v, r),
           \/ v >= ws[w].ver[r] /\ Fresh(v, r, Write \ {w})
           \/ ws[w].ver[r] = 0 /\ Fresh(v, r, Write)
           \/ ws'[w].pc = "readback" /\ Fresh(v, r, Write)
    PROVE  RowSound(v, r)'
<1>0. ws[w] \in Scope /\ ws[w].ver[r] \in Nat
  BY RowFacts
<1>1. CASE v >= ws[w].ver[r] /\ Fresh(v, r, Write \ {w})
  <2>1. Fresh(v, r, Write \ {w})' /\ HoldsDone(v, r)'
    BY <1>1, DoneReturns, FreshReturns
  <2> QED BY <2>1 DEF RowSound, Fresh
<1>2. CASE ws[w].ver[r] = 0 /\ Fresh(v, r, Write)
  BY <1>2, DoneReturns, FreshReturns DEF RowSound
<1>3. CASE ws'[w].pc = "readback" /\ Fresh(v, r, Write)
  <2>1. ws'[w] = [ws[w] EXCEPT !.pc = "readback"] /\ ws[w].pc = "decide" /\ acked' = acked
    BY <1>0, <1>3, OverFields DEF ApplyTail
  <2>2. ws'[w].ver = ws[w].ver
    BY <1>0, <2>1 DEF Scope
  <2> QED BY <1>3, <2>1, <2>2 DEF ApplyTail, RowSound, Fresh, HoldsDone, Carries, Finished, pgVars
<1> QED BY <1>1, <1>2, <1>3
-----------------------------------------------------------------------------
\* Nobody reads back but the holder of applyMu.
LEMMA OneReadsBack ==
    ASSUME ProtocolInv
    PROVE  /\ \A w \in Write : ws[w].pc = "readback" => applyMu = w /\ building # Null
           /\ applyMu \notin Write => \A w \in Write : ws[w].pc # "readback"
           /\ \A w \in Write : applyMu = w => \A x \in Write \ {w} : ws[x].pc # "readback"
           /\ loop.pc \in LoaderPC => applyMu = Loader /\ applyMu \notin Write
BY Alone, EngineConstants DEF ProtocolInv, EngineInv, ControlInv, HeldInv, LockInv, CriticalPC

\* A write that needs no rebuild made no row durable that it does not name.
LEMMA UnnamedRows ==
    ASSUME ProtocolInv, NEW w \in Write, ws[w].pc = "decide", ~ws[w].fallback, NEW r \in Row,
           r \notin ws[w].keys
    PROVE  ws[w].ver[r] = 0
<1>1. ws[w].ver[r] \in Nat
  BY RowFacts
<1> QED BY <1>1 DEF ProtocolInv, ScopeInv, ScopeSound, Finished

\* Apply publishes what it read back; a rebuild and a boot replay what they
\* loaded.
LEMMA ViewNext ==
    ASSUME ProtocolInv, ViewInv, LoadInv, BuildInv, ReplayInv, [Next]_vars
    PROVE  ViewInv'
<1> USE DEF pgVars, engineVars, lifeVars, viewVars, genVars, countVars
<1>0. loop \in LoopType /\ (snap # Null => \A r \in Row : snap[r] \in Nat)
  BY RowFacts, BackgroundFacts DEF ProtocolInv, Rows
<1>1. ASSUME NEW w \in Write, DriverMove(w)  PROVE ViewInv'
  <2>1. UNCHANGED <<state, snap>> /\ (loop'.pc = "flip" => loop.pc = "flip")
    BY <1>1 DEF DriverMove, QuietMove, CommitMove
  <2>2. \A r \in Row : RowSound(snap[r], r) /\ snap # Null => RowSound(snap[r], r)'
    BY <1>0, <1>1, <2>1, FreshKept, DoneKept DEF RowSound
  <2> QED BY <2>1, <2>2 DEF ViewInv, Serving
<1>2. ASSUME UNCHANGED <<pgRow, ws, acked, snap>>, Serving' => Serving \/ loop.pc = "flip",
             loop'.pc = "flip" => loop.pc = "flip"
      PROVE  ViewInv'
  BY <1>2, SoundStays DEF ViewInv
<1>3. ASSUME NEW w \in Write, ReadBackRow(w)  PROVE ViewInv'
  BY <1>2, <1>3 DEF ReadBackRow, Serving
<1>4. ASSUME NEW w \in Write, ApplyTail(w),
             ApplyDecide(w) \/ ApplyPublish(w) \/ ApplyFails(w) \/ ApplyPanics(w)
      PROVE  ViewInv'
  <2>1. loop'.pc # "flip"
    BY <1>4, OneReadsBack DEF ApplyTail, LoaderPC
  <2>2. CASE state' = "fallback"
    BY <2>1, <2>2 DEF ViewInv, Serving
  <2>3. CASE ApplyPublish(w)
    <3>1. snap' = building.rows /\ building.todo = {} /\ ws[w].pc = "readback"
      BY <2>3 DEF ApplyPublish
    <3>2. \A r \in Row : building.rows[r] \in Nat
      BY <3>1, OneReadsBack, RowFacts DEF Rows
    <3>3. \A r \in Row : /\ HoldsDone(building.rows[r], r) /\ building.rows[r] >= ws[w].ver[r]
                         /\ Fresh(building.rows[r], r, Write \ {w})
      BY <3>1 DEF BuildInv
    <3>4. \A r \in Row : RowSound(snap[r], r)'
      BY <1>4, <3>1, <3>2, <3>3, SoundReturns
    <3> QED BY <3>4 DEF ViewInv
  <2>4. CASE ApplyDecide(w) /\ ~ws[w].fallback
    <3>1. UNCHANGED <<state, snap>> /\ ws[w].pc = "decide"
      BY <2>4 DEF ApplyDecide
    <3>2. CASE Serving /\ snap # Null
      <4>1. ws[w].keys = {} \/ ws'[w].pc = "readback"
        BY <2>4, <3>2, RowFacts DEF ApplyDecide, ReadBackNeeded, Becomes, Scope
      <4>2. \A r \in Row : RowSound(snap[r], r)
        BY <3>2 DEF ViewInv
      <4>3. \A r \in Row : RowSound(snap[r], r)'
        BY <1>0, <1>4, <2>4, <3>1, <3>2, <4>1, <4>2, UnnamedRows, SoundReturns DEF RowSound
      <4> QED BY <4>3 DEF ViewInv
    <3> QED BY <2>1, <3>1, <3>2 DEF ViewInv, Serving
  <2> QED BY <1>4, <2>2, <2>3, <2>4 DEF ApplyDecide, ApplyFails, ApplyPanics, EnterFallback
<1>5. CASE LoopTurn
  BY <1>2, <1>5 DEF LoopTurn, Serving
<1>6. CASE RebuildLoad \/ RebuildLoadUncounted
  BY <1>0, <1>2, <1>6 DEF RebuildLoad, RebuildLoadUncounted, LoopStep, LoopType, Serving
<1>7. CASE RebuildAdopt
  <2>1. \A r \in Row : RowSound(load.rows[r], r)
    BY <1>7 DEF RebuildAdopt, Superseded, LoopStep, LoadInv, RowSound, Fresh, Settling
  <2>2. \A r \in Row : RowSound(snap[r], r)'
    BY <1>7, <2>1, SoundStays DEF RebuildAdopt
  <2> QED BY <2>2 DEF ViewInv
<1>8. CASE RebuildFlip
  BY <1>0, <1>2, <1>8 DEF RebuildFlip, LoopStep, LoopType
<1>9. CASE FileRead \/ StampPassed
  BY <1>2, <1>9 DEF FileRead, StampPassed, Serving
<1>10. CASE BootTake \/ BootReplayRow
  BY <1>0, <1>2, <1>10 DEF BootTake, BootReplayRow, LoopStep, LoopType, Serving
<1>11. CASE BootPublish
  <2>1. \A r \in Row : RowSound(building.rows[r], r)
    BY <1>11 DEF BootPublish, ReplayInv
  <2>2. \A r \in Row : RowSound(snap[r], r)'
    BY <1>11, <2>1, SoundStays DEF BootPublish
  <2> QED BY <2>2 DEF ViewInv
<1>12. CASE SaveNext
  BY <1>2, <1>12, SaveMoves DEF ProtocolInv, Serving
<1>13. CASE QueryReadState \/ QueryReadView
  BY <1>2, <1>13 DEF QueryReadState, QueryReadView, Serving
<1>14. CASE Start \/ \E r \in Row : ExternalWrite(r)
  <2>1. ~up /\ snap' = snap
    BY <1>14 DEF Start, ExternalWrite
  <2> QED BY <2>1 DEF ViewInv, ProtocolInv, PhaseInv
<1>15. CASE Exit
  BY <1>15 DEF Exit, ViewInv
<1> QED BY <1>1, <1>3, <1>4, <1>5, <1>6, <1>7, <1>8, <1>9, <1>10, <1>11, <1>12, <1>13, <1>14, <1>15,
        NextMoves DEF ProtocolInv, DriverMove
-----------------------------------------------------------------------------
\* A load is superseded by every Apply that begins after its epoch was read, and
\* is not behind one that had begun.
LEMMA LoadNext ==
    ASSUME ProtocolInv, LoadInv, [Next]_vars
    PROVE  LoadInv'
<1> USE DEF pgVars, engineVars, lifeVars, viewVars, genVars, countVars
<1>0. /\ loop \in LoopType /\ load \in LoadType /\ load.epoch \in Nat /\ applyEpoch \in Nat
      /\ load.epoch <= applyEpoch
      /\ loop.pc = "adopt" => \A r \in Row : load.rows[r] \in Nat
      /\ loop.pc # "none" => up
  BY RowFacts, BackgroundFacts DEF ProtocolInv, PhaseInv, Rows, HoldsRows
<1>1. ASSUME NEW w \in Write, DriverMove(w)  PROVE LoadInv'
  <2>1. UNCHANGED <<load, applyEpoch>> /\ (loop'.pc = "adopt" => loop.pc = "adopt")
    BY <1>1 DEF DriverMove, QuietMove, CommitMove
  <2>2. w \in Settling /\ Settling' = Settling /\ Settling \in SUBSET Write
    BY <1>1 DEF DriverMove, QuietMove, CommitMove, BumpMoves, Settling
  <2> SUFFICES ASSUME loop.pc = "adopt", applyEpoch = load.epoch, NEW r \in Row
               PROVE  /\ Fresh(load.rows[r], r, Settling)' /\ HoldsDone(load.rows[r], r)'
                      /\ \A x \in Write : ws'[x].pc = "readback" => load.rows[r] >= ws'[x].ver[r]
    BY <2>1 DEF LoadInv
  <2>3. Fresh(load.rows[r], r, Settling) /\ HoldsDone(load.rows[r], r)
    BY DEF LoadInv
  <2>4. Fresh(load.rows[r], r, Settling)' /\ HoldsDone(load.rows[r], r)'
    BY <1>0, <1>1, <2>1, <2>2, <2>3, FreshKept, DoneKept
  <2>5. \A x \in Write \ {w} : ws'[x] = ws[x]
    BY <1>1 DEF DriverMove, BumpMoves
  <2>6. ws'[w].pc # "readback"
    BY <1>1 DEF DriverMove, QuietMove, CommitMove
  <2> QED BY <2>4, <2>5, <2>6 DEF LoadInv
<1>2. ASSUME UNCHANGED <<pgRow, ws, acked, applyEpoch>>,
             loop'.pc = "adopt" => loop.pc = "adopt" /\ load' = load
      PROVE  LoadInv'
  BY <1>2, SoundStays DEF LoadInv, Settling, Fresh
<1>3. ASSUME NEW w \in Write, ReadBackRow(w)  PROVE LoadInv'
  BY <1>2, <1>3 DEF ReadBackRow
<1>4. ASSUME NEW w \in Write, ApplyTail(w),
             ApplyDecide(w) \/ ApplyPublish(w) \/ ApplyFails(w) \/ ApplyPanics(w)
      PROVE  LoadInv'
  <2>1. load' = load /\ (loop'.pc = "adopt" => loop.pc = "adopt")
    BY <1>4 DEF ApplyTail
  <2>2. CASE applyEpoch' = applyEpoch + 1
    BY <1>0, <2>1, <2>2 DEF LoadInv
  <2>3. CASE ApplyPublish(w) \/ ApplyFails(w)
    <3>1. ws[w].pc = "readback" /\ applyEpoch' = applyEpoch /\ ws'[w].pc = "returned"
      BY <1>4, <2>3, RowFacts, OverFields DEF ApplyPublish, ApplyFails, ApplyTail, ReturnFrom
    <3>2. Settling \subseteq Settling' /\ w \notin Settling /\ Settling \in SUBSET Write
      BY <1>4, <3>1 DEF ApplyTail, Settling
    <3>3. \A x \in Write : ws'[x].pc # "readback"
      BY <1>4, <3>1, OneReadsBack DEF ApplyTail
    <3> SUFFICES ASSUME loop.pc = "adopt", applyEpoch = load.epoch, NEW r \in Row
                 PROVE  Fresh(load.rows[r], r, Settling)' /\ HoldsDone(load.rows[r], r)'
      BY <2>1, <3>1, <3>3 DEF LoadInv
    <3>4. /\ Fresh(load.rows[r], r, Settling) /\ HoldsDone(load.rows[r], r)
          /\ load.rows[r] >= ws[w].ver[r] /\ load.rows[r] \in Nat
      BY <1>0, <3>1 DEF LoadInv
    <3>5. HoldsDone(load.rows[r], r)'
      BY <1>4, <2>1, <3>4, DoneReturns
    <3>6. \A v : Fresh(v, r, Settling) => \E X \in SUBSET Write : X = Settling /\ Fresh(v, r, X)'
      BY <1>4, <3>2, FreshReturns
    <3>7. \A v, X : Fresh(v, r, X)' <=> v = pgRow'[r] \/ \E x \in X : Carries(ws'[x], r)
      BY DEF Fresh
    <3> QED BY <2>1, <3>2, <3>4, <3>5, <3>6, <3>7
  <2> QED BY <1>4, <2>2, <2>3 DEF ApplyDecide, ApplyPanics
<1>5. CASE LoopTurn
  BY <1>2, <1>5 DEF LoopTurn
<1>6. CASE RebuildLoad \/ RebuildLoadUncounted
  <2>1. load'.rows = pgRow
    BY <1>0, <1>6 DEF RebuildLoad, RebuildLoadUncounted, LoadType
  <2>2. UNCHANGED <<pgRow, ws, acked>>
    BY <1>6 DEF RebuildLoad, RebuildLoadUncounted
  <2>3. ASSUME NEW r \in Row
        PROVE  /\ Fresh(load.rows[r], r, Settling)' /\ HoldsDone(load.rows[r], r)'
               /\ \A w \in Write : load'.rows[r] >= ws'[w].ver[r]
    BY <2>1, <2>2, CurrentIsSound, RowFacts DEF Fresh, HoldsDone
  <2> QED BY <2>3 DEF LoadInv
<1>7. CASE RebuildAdopt \/ RebuildFlip \/ BootTake \/ BootPublish
  BY <1>0, <1>7 DEF RebuildAdopt, RebuildFlip, BootTake, BootPublish, LoopStep, LoopType, LoadInv
<1>8. CASE FileRead \/ StampPassed
  BY <1>8 DEF FileRead, StampPassed, LoadInv
<1>9. CASE BootReplayRow \/ QueryReadState \/ QueryReadView
  BY <1>2, <1>9 DEF BootReplayRow, QueryReadState, QueryReadView
<1>10. CASE SaveNext
  BY <1>2, <1>10, SaveMoves DEF ProtocolInv
<1>11. CASE Start \/ Exit
  BY <1>11 DEF Start, Exit, NewLoop, LoadInv
<1>12. ASSUME NEW r \in Row, ExternalWrite(r)  PROVE LoadInv'
  BY <1>0, <1>12 DEF ExternalWrite, LoadInv
<1> QED BY <1>1, <1>3, <1>4, <1>5, <1>6, <1>7, <1>8, <1>9, <1>10, <1>11, <1>12, NextMoves
     DEF ProtocolInv, DriverMove

\* A read-back starts from a sound view and ends at one that holds its own write.
LEMMA BuildNext ==
    ASSUME ProtocolInv, ProtocolInv', ViewInv, BuildInv, [Next]_vars
    PROVE  BuildInv'
<1> USE DEF pgVars, engineVars, lifeVars, viewVars, genVars, countVars
<1>0. /\ \A w \in Write : ws[w].pc = "readback" => \A r \in Row : building.rows[r] \in Nat
      /\ applyMu' = Null \/ applyMu' = Loader => \A w \in Write : ws'[w].pc # "readback"
      /\ applyMu \notin Write => \A w \in Write : ws[w].pc # "readback"
      /\ applyMu = Null \/ applyMu = Loader => applyMu \notin Write
  <2>1. applyMu' = Null \/ applyMu' = Loader => \A w \in Write : ws'[w].pc # "readback"
    BY EngineConstants DEF ProtocolInv, EngineInv, ControlInv, LockInv, InCritical, CriticalPC
  <2> QED BY <2>1, OneReadsBack, RowFacts, EngineConstants DEF Rows
<1>1. ASSUME NEW w \in Write, DriverMove(w)  PROVE BuildInv'
  <2>1. building' = building /\ ws[w].pc # "readback" /\ ws'[w].pc # "readback"
        /\ \A x \in Write \ {w} : ws'[x] = ws[x]
    BY <1>1 DEF DriverMove, QuietMove, CommitMove, BumpMoves
  <2> SUFFICES ASSUME NEW x \in Write, ws[x].pc = "readback", x # w, NEW r \in Row
               PROVE  /\ HoldsDone(building.rows[r], r)'
                      /\ r \notin building.todo => /\ building.rows[r] >= ws[x].ver[r]
                                                   /\ Fresh(building.rows[r], r, Write \ {x})'
    BY <2>1 DEF BuildInv
  <2>2. /\ HoldsDone(building.rows[r], r) /\ building.rows[r] \in Nat
        /\ r \notin building.todo => /\ building.rows[r] >= ws[x].ver[r]
                                     /\ Fresh(building.rows[r], r, Write \ {x})
    BY <1>0 DEF BuildInv
  <2>3. w \in Write \ {x} /\ Write \ {x} \in SUBSET Write
    OBVIOUS
  <2> QED BY <1>1, <2>1, <2>2, <2>3, FreshKept, DoneKept
<1>2. ASSUME UNCHANGED <<pgRow, ws, acked>>, building' = building \/ applyMu \notin Write
      PROVE  BuildInv'
  BY <1>0, <1>2, SoundStays DEF BuildInv
<1>3. ASSUME NEW w \in Write, ReadBackRow(w)  PROVE BuildInv'
  <2>1. PICK k \in building.todo :
           building' = [todo |-> building.todo \ {k}, rows |-> [building.rows EXCEPT ![k] = pgRow[k]]]
    BY <1>3 DEF ReadBackRow
  <2>2. /\ UNCHANGED <<pgRow, ws, acked>> /\ ws[w].pc = "readback"
        /\ \A x \in Write \ {w} : ws[x].pc # "readback"
    BY <1>3, OneReadsBack DEF ReadBackRow
  <2>3. building.rows \in Rows /\ building.todo \in SUBSET Row
    BY <2>2, OneReadsBack, RowFacts
  <2>4. ASSUME NEW r \in Row
        PROVE  /\ HoldsDone(building.rows[r], r)'
               /\ r \notin building'.todo => /\ building'.rows[r] >= ws'[w].ver[r]
                                             /\ Fresh(building.rows[r], r, Write \ {w})'
    <3>1. CASE r = k
      <4>1. building'.rows[r] = pgRow[r]
        BY <2>1, <2>3, <3>1 DEF Rows
      <4> QED BY <2>2, <4>1, CurrentIsSound, SoundStays, RowFacts
    <3>2. CASE r # k
      <4>1. building'.rows[r] = building.rows[r] /\ (r \notin building'.todo => r \notin building.todo)
        BY <2>1, <2>3, <3>2 DEF Rows
      <4> QED BY <2>2, <4>1, SoundStays DEF BuildInv
    <3> QED BY <3>1, <3>2
  <2> QED BY <2>2, <2>4 DEF BuildInv
<1>4. ASSUME NEW w \in Write, ApplyTail(w)  PROVE BuildInv'
  <2>1. CASE applyMu' = Null
    BY <1>0, <2>1 DEF BuildInv
  <2>2. CASE applyMu' # Null
    <3>1. /\ ws[w].pc = "decide" /\ ws'[w] = [ws[w] EXCEPT !.pc = "readback"]
          /\ ~ws[w].fallback /\ snap # Null /\ Serving /\ acked' = acked /\ applyMu = w
          /\ building' = [todo |-> ws[w].keys, rows |-> snap]
          /\ \A x \in Write \ {w} : ws'[x] = ws[x]
      BY <1>4, <2>2 DEF ApplyTail, ReadBackNeeded
    <3>2. ws'[w].ver = ws[w].ver /\ \A x \in Write \ {w} : ws'[x].pc # "readback"
      BY <3>1, RowFacts, OneReadsBack DEF Scope
    <3>3. ASSUME NEW r \in Row
          PROVE  /\ HoldsDone(building.rows[r], r)'
                 /\ r \notin building'.todo => /\ building'.rows[r] >= ws'[w].ver[r]
                                               /\ Fresh(building.rows[r], r, Write \ {w})'
      <4>1. RowSound(snap[r], r) /\ snap[r] \in Nat /\ building'.rows[r] = snap[r]
        BY <3>1, RowFacts DEF ViewInv, Rows
      <4>2. RowSound(building.rows[r], r)'
        BY <1>4, <3>1, <4>1, RowFacts, SoundReturns DEF RowSound, Scope
      <4>3. r \notin building'.todo => ws'[w].ver[r] = 0
        BY <3>1, <3>2, UnnamedRows
      <4> QED BY <4>1, <4>2, <4>3 DEF RowSound, Fresh, Carries
    <3> QED BY <3>2, <3>3 DEF BuildInv
  <2> QED BY <2>1, <2>2
<1>5. CASE LoopTurn
  BY <1>2, <1>5 DEF LoopTurn
<1>6. CASE RebuildLoad \/ RebuildLoadUncounted \/ RebuildAdopt \/ RebuildFlip \/ FileRead
           \/ StampPassed \/ QueryReadState \/ QueryReadView \/ Start
  BY <1>2, <1>6 DEF RebuildLoad, RebuildLoadUncounted, RebuildAdopt, RebuildFlip, FileRead,
     StampPassed, QueryReadState, QueryReadView, Start
<1>7. CASE BootTake
  BY <1>0, <1>2, <1>7 DEF BootTake
<1>8. CASE BootReplayRow \/ BootPublish
  <2>1. applyMu \notin Write
    BY <1>8, OneReadsBack DEF BootReplayRow, BootPublish, LoaderPC
  <2> QED BY <1>2, <1>8, <2>1 DEF BootReplayRow, BootPublish
<1>9. CASE SaveNext
  BY <1>2, <1>9, SaveMoves DEF ProtocolInv
<1>10. CASE Exit
  BY <1>0, <1>10 DEF Exit, BuildInv
<1>11. ASSUME NEW r \in Row, ExternalWrite(r)  PROVE BuildInv'
  <2>1. ~up /\ UNCHANGED ws
    BY <1>11 DEF ExternalWrite
  <2> QED BY <2>1, ScopeFacts DEF BuildInv, ProtocolInv, InFlight, Finished
<1> QED BY <1>1, <1>3, <1>4, <1>5, <1>6, <1>7, <1>8, <1>9, <1>10, <1>11, NextMoves
     DEF ProtocolInv, DriverMove
-----------------------------------------------------------------------------
\* A gap the buffer covers starts at the state captured at start: the buffer
\* holds no value at or below it.
LEMMA CoveredFromStart ==
    ASSUME ProtocolInv, loop.pc = "bootAttempt", BootGapCovered(load.counter, load.target)
    PROVE  StampedAtStart(load)
<1>1. /\ atStart # Null /\ load.counter <= atStart.counter /\ atStart.counter <= load.target
      /\ atStart.counter = load.counter => load.seq = atStart.seq
      /\ load.lineage = pgLineage
      /\ \A e \in bootGap.entries : e.counter > atStart.counter
  BY DEF ProtocolInv, CaptureInv
<1>2. load.counter \in Nat /\ load.target \in Nat /\ atStart.counter \in Nat
  BY <1>1, BackgroundFacts DEF ProtocolInv, HoldsStamp, EngineInv, TypeOK, LoaderTypeOK
<1>3. load.counter = atStart.counter
  <2>1. SUFFICES ASSUME load.counter < atStart.counter  PROVE FALSE
    BY <1>1, <1>2
  <2>2. load.counter + 1 \in BufferedCounters
    BY <1>1, <1>2, <2>1 DEF BootGapCovered
  <2>3. load.counter + 1 > atStart.counter
    BY <1>1, <2>2 DEF BufferedCounters
  <2> QED BY <1>2, <2>1, <2>3
<1> QED BY <1>1, <1>3 DEF StampedAtStart

\* What the replay starts from, and what it reads.
LEMMA ReplayNext ==
    ASSUME ProtocolInv, ReplayInv, BootInv, [Next]_vars
    PROVE  ReplayInv'
<1> USE DEF pgVars, engineVars, lifeVars, viewVars, genVars, countVars
<1>0. /\ loop \in LoopType /\ load \in LoadType /\ (loop.pc # "none" => up)
      /\ loop.pc = "bootReplay" => /\ building.rows \in Rows /\ building.todo \in SUBSET Row
                                   /\ \A r \in Row : building.rows[r] \in Nat
                                   /\ applyMu = Loader /\ applyMu \notin Write
  BY BackgroundFacts, RowFacts, OneReadsBack DEF ProtocolInv, Rows, LoaderPC
<1>1. ASSUME NEW w \in Write, DriverMove(w)  PROVE ReplayInv'
  <2>1. building' = building /\ (loop'.pc = "bootReplay" => loop.pc = "bootReplay")
    BY <1>1 DEF DriverMove, QuietMove, CommitMove
  <2> SUFFICES ASSUME loop.pc = "bootReplay", NEW r \in Row \ building.todo
               PROVE  RowSound(building.rows[r], r)'
    BY <2>1 DEF ReplayInv
  <2>2. RowSound(building.rows[r], r)
    BY DEF ReplayInv
  <2> QED BY <1>0, <1>1, <2>1, <2>2, FreshKept, DoneKept DEF RowSound
<1>2. ASSUME UNCHANGED <<pgRow, ws, acked>>,
             loop'.pc = "bootReplay" => loop.pc = "bootReplay" /\ building' = building
      PROVE  ReplayInv'
  BY <1>2, SoundStays DEF ReplayInv
<1>3. ASSUME NEW w \in Write, ReadBackRow(w)  PROVE ReplayInv'
  <2>1. applyMu = w
    BY <1>3, OneReadsBack DEF ReadBackRow
  <2> QED BY <1>0, <1>3, <2>1 DEF ReadBackRow, ReplayInv
<1>4. ASSUME NEW w \in Write, ApplyTail(w)  PROVE ReplayInv'
  BY <1>0, <1>4 DEF ApplyTail, ReplayInv
<1>5. CASE LoopTurn
  BY <1>2, <1>5 DEF LoopTurn, BootPhase
<1>6. CASE RebuildLoad \/ RebuildLoadUncounted \/ RebuildAdopt \/ RebuildFlip \/ BootPublish
  BY <1>0, <1>6 DEF RebuildLoad, RebuildLoadUncounted, RebuildAdopt, RebuildFlip, BootPublish,
     LoopStep, LoopType, ReplayInv
<1>7. CASE FileRead \/ StampPassed
  BY <1>7 DEF FileRead, StampPassed, ReplayInv
<1>8. CASE BootTake
  <2>1. StampedAtStart(load)
    BY <1>8, CoveredFromStart DEF BootTake
  <2>2. \A r \in Row : (\E e \in bootGap.entries : r \in e.keys) \/ RowSound(load.rows[r], r)
    BY <1>8, <2>1 DEF BootTake, AttemptRejected, BootInv, Covers
  <2>3. /\ building' = [todo |-> UNION {e.keys : e \in bootGap.entries}, rows |-> load.rows]
        /\ UNCHANGED <<pgRow, ws, acked>>
    BY <1>8 DEF BootTake
  <2>4. \A r \in Row \ building'.todo : RowSound(building.rows[r], r)'
    BY <2>2, <2>3, SoundStays
  <2> QED BY <2>4 DEF ReplayInv
<1>9. CASE BootReplayRow
  <2>1. PICK k \in building.todo :
           building' = [todo |-> building.todo \ {k}, rows |-> [building.rows EXCEPT ![k] = pgRow[k]]]
    BY <1>9 DEF BootReplayRow
  <2>2. UNCHANGED <<pgRow, ws, acked>> /\ loop.pc = "bootReplay"
    BY <1>9 DEF BootReplayRow
  <2>3. ASSUME NEW r \in Row \ building'.todo  PROVE RowSound(building.rows[r], r)'
    <3>1. CASE r = k
      <4>1. building'.rows[r] = pgRow[r]
        BY <1>0, <2>1, <2>2, <3>1 DEF Rows
      <4> QED BY <2>2, <4>1, CurrentIsSound, SoundStays
    <3>2. CASE r # k
      <4>1. building'.rows[r] = building.rows[r] /\ r \notin building.todo
        BY <1>0, <2>1, <2>2, <3>2 DEF Rows
      <4> QED BY <2>2, <4>1, SoundStays DEF ReplayInv
    <3> QED BY <3>1, <3>2
  <2> QED BY <2>3 DEF ReplayInv
<1>10. CASE SaveNext
  BY <1>2, <1>10, SaveMoves DEF ProtocolInv
<1>11. CASE QueryReadState \/ QueryReadView
  BY <1>2, <1>11 DEF QueryReadState, QueryReadView
<1>12. CASE Start \/ Exit
  BY <1>12 DEF Start, Exit, NewLoop, ReplayInv
<1>13. ASSUME NEW r \in Row, ExternalWrite(r)  PROVE ReplayInv'
  BY <1>0, <1>13 DEF ExternalWrite, ReplayInv
<1> QED BY <1>1, <1>3, <1>4, <1>5, <1>6, <1>7, <1>8, <1>9, <1>10, <1>11, <1>12, <1>13, NextMoves
     DEF ProtocolInv, DriverMove
-----------------------------------------------------------------------------
\* A promise about the file's rows survives a write: it excuses its rows while
\* in flight, and is buffered with them before it returns.
LEMMA CoversDriver ==
    ASSUME ProtocolInv, NEW rows \in Rows, Covers(rows), NEW w \in Write, DriverMove(w)
    PROVE  Covers(rows)'
<1>1. /\ state' = state /\ (bootGap.poisoned => bootGap'.poisoned)
      /\ bootGap.entries \subseteq bootGap'.entries
  BY RowFacts, BackgroundFacts, GapGrows DEF ProtocolInv, DriverMove, QuietMove, CommitMove, engineVars,
     viewVars
<1>2. ASSUME NEW r \in Row, RowSound(rows[r], r)  PROVE RowSound(rows[r], r)'
  BY <1>2, FreshKept, DoneKept DEF RowSound, Rows
<1> QED BY <1>1, <1>2 DEF Covers, Serving

\* An Apply that returns while a boot attempt is under way leaves what the
\* attempt holds, with the gap, covering the writes it must.
LEMMA CoversReturn ==
    ASSUME ProtocolInv, NEW rows \in Rows, Covers(rows), NEW w \in Write, ApplyTail(w),
           ApplyDecide(w) \/ ApplyPublish(w) \/ ApplyFails(w) \/ ApplyPanics(w),
           atStart # Null, loop.pc \in Attempting
    PROVE  Covers(rows)'
<1>1. bootGap.active /\ snap = Null /\ ws[w].pc # "readback"
  BY DEF ProtocolInv, CaptureInv, PhaseInv, BootPhase, Attempting
<1>2. CASE state' = "fallback"
  BY <1>2 DEF Covers, Serving
<1>3. CASE ApplyDecide(w) /\ ~ws[w].fallback
  <2>1. state' = state /\ bootGap' = Observe(bootGap, ws[w]) /\ ws[w].pc = "decide"
    BY <1>3 DEF ApplyDecide
  <2>2. /\ bootGap.poisoned => bootGap'.poisoned
        /\ bootGap.entries \subseteq bootGap'.entries
        /\ bootGap'.poisoned \/ ws[w].keys = {} \/ \E e \in bootGap'.entries : e.keys = ws[w].keys
    BY <1>1, <2>1, RowFacts, BackgroundFacts, GapGrows DEF ProtocolInv
  <2>3. ASSUME NEW r \in Row, RowSound(rows[r], r), ~bootGap'.poisoned
        PROVE  (\E e \in bootGap'.entries : r \in e.keys) \/ RowSound(rows[r], r)'
    BY <1>3, <2>1, <2>2, <2>3, UnnamedRows, SoundReturns DEF RowSound, Rows
  <2> QED BY <2>1, <2>2, <2>3 DEF Covers, Serving
<1> QED BY <1>1, <1>2, <1>3 DEF ApplyDecide, ApplyPublish, ApplyFails, ApplyPanics, EnterFallback

\* Every step keeps what a boot attempt may publish covering PostgreSQL's rows.
LEMMA BootPromiseNext ==
    ASSUME ProtocolInv, BootInv, FileInv, [Next]_vars
    PROVE  BootInv'
<1> USE DEF pgVars, engineVars, lifeVars, viewVars, genVars, countVars
<1>0. /\ loop \in LoopType /\ load \in LoadType /\ (loop.pc # "none" => up)
      /\ file # Null => file.rows \in Rows
      /\ loop.pc \in {"bootFreeze", "bootAttempt"} => load.rows \in Rows
  BY BackgroundFacts, RowFacts DEF ProtocolInv, HoldsRows, HoldsStamp, FileType
<1>1. ASSUME \A rows \in Rows :
                Covers(rows) /\ atStart # Null /\ loop.pc \in Attempting => Covers(rows)',
             UNCHANGED <<atStart, pgLineage>>, file' \in {file, Null},
             loop'.pc \in Attempting =>
                loop'.pc = loop.pc \/ (loop.pc = "boot" /\ loop'.pc = "bootFile"),
             loop'.pc \in {"bootFreeze", "bootAttempt"} => load' = load
      PROVE  BootInv'
  <2>1. loop'.pc \in {"boot", "bootFile"} => loop.pc \in {"boot", "bootFile"}
    BY <1>1 DEF Attempting
  <2>2. loop'.pc \in {"bootFreeze", "bootAttempt"} => loop'.pc = loop.pc /\ load' = load
    BY <1>1 DEF Attempting
  <2>3. loop'.pc \in {"boot", "bootFile"} /\ file' # Null /\ StampedAtStart(file)' => Covers(file.rows)'
    BY <1>0, <1>1, <2>1 DEF BootInv, StampedAtStart, Attempting
  <2>4. loop'.pc \in {"bootFreeze", "bootAttempt"} /\ StampedAtStart(load)' => Covers(load.rows)'
    BY <1>0, <1>1, <2>2 DEF BootInv, StampedAtStart, Attempting
  <2> QED BY <2>3, <2>4 DEF BootInv
<1>2. ASSUME UNCHANGED <<pgRow, ws, acked, bootGap, state>>
      PROVE  \A rows \in Rows : Covers(rows) => Covers(rows)'
  BY <1>2, SoundStays DEF Covers, Serving
<1>3. ASSUME NEW w \in Write, DriverMove(w)  PROVE BootInv'
  <2>1. /\ UNCHANGED <<atStart, pgLineage, load>> /\ file' \in {file, Null}
        /\ loop'.pc = loop.pc \/ (loop.pc = "none" /\ loop'.pc = "top")
    BY <1>3 DEF DriverMove, QuietMove, CommitMove
  <2>2. \A rows \in Rows : Covers(rows) => Covers(rows)'
    BY <1>3, CoversDriver
  <2> QED BY <1>1, <2>1, <2>2 DEF Attempting
<1>4. ASSUME NEW w \in Write, ReadBackRow(w)  PROVE BootInv'
  BY <1>1, <1>2, <1>4 DEF ReadBackRow
<1>5. ASSUME NEW w \in Write, ApplyTail(w),
             ApplyDecide(w) \/ ApplyPublish(w) \/ ApplyFails(w) \/ ApplyPanics(w)
      PROVE  BootInv'
  <2>1. /\ UNCHANGED <<atStart, pgLineage, load>> /\ file' \in {file, Null}
        /\ loop'.pc = loop.pc \/ (loop.pc = "none" /\ loop'.pc = "top")
    BY <1>5 DEF ApplyTail
  <2>2. \A rows \in Rows : Covers(rows) /\ atStart # Null /\ loop.pc \in Attempting => Covers(rows)'
    BY <1>5, CoversReturn
  <2> QED BY <1>1, <2>1, <2>2 DEF Attempting
<1>6. CASE LoopTurn
  <2>1. CASE loop'.pc \notin Attempting
    BY <2>1 DEF BootInv, Attempting
  <2>2. CASE loop'.pc \in Attempting
    <3>1. /\ UNCHANGED <<pgRow, ws, acked, bootGap, state, file, atStart, pgLineage>>
          /\ \/ loop'.pc = loop.pc /\ load' = load
             \/ loop.pc = "boot" /\ loop'.pc = "bootFile"
      BY <1>6, <2>2 DEF LoopTurn, Attempting, BootPhase
    <3> QED BY <1>1, <1>2, <3>1
  <2> QED BY <2>1, <2>2
<1>7. CASE RebuildLoad \/ RebuildLoadUncounted \/ RebuildAdopt \/ RebuildFlip \/ BootTake \/ BootPublish
  BY <1>0, <1>7 DEF RebuildLoad, RebuildLoadUncounted, RebuildAdopt, RebuildFlip, BootTake,
     BootPublish, LoopStep, LoopType, BootInv
<1>8. CASE FileRead
  <2>1. /\ load'.rows = file.rows /\ load'.counter = file.counter /\ load'.seq = file.seq
        /\ load'.lineage = file.lineage
    BY <1>0, <1>8 DEF FileRead, LoadType
  <2>2. StampedAtStart(load)' => Covers(file.rows)
    BY <1>8, <2>1 DEF FileRead, BootInv, StampedAtStart
  <2>3. Covers(file.rows) => Covers(load.rows)'
    BY <1>0, <1>2, <1>8, <2>1 DEF FileRead
  <2> QED BY <1>8, <2>2, <2>3 DEF FileRead, BootInv
<1>9. CASE StampPassed
  <2>1. /\ load'.rows = load.rows /\ load'.counter = load.counter /\ load'.seq = load.seq
        /\ load'.lineage = load.lineage
    BY <1>0, <1>9 DEF StampPassed, LoadType
  <2>2. StampedAtStart(load)' => Covers(load.rows)
    BY <1>9, <2>1 DEF StampPassed, BootInv, StampedAtStart
  <2>3. Covers(load.rows) => Covers(load.rows)'
    BY <1>0, <1>2, <1>9, <2>1 DEF StampPassed
  <2> QED BY <1>9, <2>2, <2>3 DEF StampPassed, BootInv
<1>10. CASE BootReplayRow \/ QueryReadState \/ QueryReadView
  BY <1>1, <1>2, <1>10 DEF BootReplayRow, QueryReadState, QueryReadView
<1>11. CASE SaveNext
  <2>1. CASE loop.pc \in Attempting
    <3>1. save.pc = "idle" /\ snap = Null
      BY <2>1 DEF ProtocolInv, PhaseInv, Attempting, BootPhase
    <3>2. file' = file
      BY <1>11, <3>1 DEF SaveNext, SaveBegin, SaveReadCounter, SaveReadInflight, SaveReadLedger,
         SaveReadSequence, SaveFails, SavePrepare, SaveWrite, SaveWriteFails, SaveRecheck, SaveStep,
         CompactionAdopted
    <3> QED BY <1>1, <1>2, <1>11, <3>2, SaveMoves DEF ProtocolInv, Attempting
  <2>2. CASE loop.pc \notin Attempting
    BY <1>11, <2>2, SaveMoves DEF ProtocolInv, Attempting, BootInv
  <2> QED BY <2>1, <2>2
<1>12. CASE Start
  <2>1. /\ loop'.pc = "boot" /\ UNCHANGED <<file, pgRow, pgLineage, ws, acked>>
        /\ atStart' # Null => atStart'.counter = pgCounter /\ atStart'.seq = pgSeq
    BY <1>12 DEF Start, NewLoop
  <2>2. save.pc = "idle"
    BY <1>12 DEF Start, ProtocolInv, EngineInv, ControlInv, DownInv
  <2>3. file' # Null /\ StampedAtStart(file)' => file.rows = pgRow
    BY <2>1, <2>2 DEF StampedAtStart, FileInv, LooksCurrent, Torn
  <2>4. file' # Null /\ StampedAtStart(file)' => Covers(file.rows)'
    BY <2>1, <2>3, CurrentIsSound, SoundStays DEF Covers
  <2> QED BY <2>1, <2>4 DEF BootInv
<1>13. CASE Exit
  BY <1>13 DEF Exit, NewLoop, BootInv
<1>14. ASSUME NEW r \in Row, ExternalWrite(r)  PROVE BootInv'
  BY <1>0, <1>14 DEF ExternalWrite, BootInv
<1> QED BY <1>3, <1>4, <1>5, <1>6, <1>7, <1>8, <1>9, <1>10, <1>11, <1>12, <1>13, <1>14, NextMoves
     DEF ProtocolInv, DriverMove
-----------------------------------------------------------------------------
(* The file.                                                                *)

\* A commit behind a stamp is impossible: its bump would still be held.
LEMMA CommitIsAbove ==
    ASSUME ProtocolInv, NEW w \in Write, NEW rows \in SUBSET Row, CommitMove(w, rows), rows # {},
           NEW c \in Nat, RetiredUpTo(c)
    PROVE  ws[w].bumpFailed \/ (Drawn(ws[w]) > c /\ c < pgCounter)
<1>1. ws[w] \in Scope /\ ScopeSound(w, ws[w]) /\ Drawn(ws[w]) <= pgCounter /\ pgCounter \in Nat
  BY ScopeFacts DEF ProtocolInv, ScopeInv, BumpBounds
<1>2. ws[w].counter \in Nat /\ ws[w].reply \in Nat /\ ws[w].reply = 0 /\ ws[w].pc \in {"call", "mutate"}
  BY <1>1 DEF CommitMove, ScopeSound, Scope
<1>3. ws[w].counter > 0 => HoldsBump(ws[w]) /\ Drawn(ws[w]) = ws[w].counter
  BY <1>2 DEF HoldsBump, Drawn, MaxOf
<1> QED BY <1>1, <1>2, <1>3 DEF CommitMove, RetiredUpTo

\* What a stamp vouches for, a driver's step does not change.
LEMMA VouchesDriver ==
    ASSUME ProtocolInv, NEW rows, NEW c \in Nat, c <= pgCounter, Vouches(rows, c), RetiredUpTo(c),
           NEW w \in Write, DriverMove(w)
    PROVE  Vouches(rows, c)'
<1>0. pgCounter \in Nat /\ ws[w] \in Scope /\ Drawn(ws[w]) \in Nat
  BY ScopeFacts, OverFields DEF ProtocolInv
<1>1. CASE QuietMove(w)
  BY <1>0, <1>1 DEF DriverMove, QuietMove, BumpMoves, Vouches
<1>2. ASSUME NEW k \in SUBSET Row, CommitMove(w, k)  PROVE Vouches(rows, c)'
  <2>1. /\ Drawn(ws'[w]) = Drawn(ws[w]) /\ \A x \in Write \ {w} : ws'[x] = ws[x]
        /\ ws'[w].ver = [r \in Row |-> IF r \in k THEN pgRow[r] + 1 ELSE ws[w].ver[r]]
    BY <1>2 DEF CommitMove, Drawn, DriverMove, BumpMoves
  <2>2. CASE k = {}
    BY <2>1, <2>2 DEF Vouches
  <2>3. CASE k # {}
    <3>1. Drawn(ws[w]) \notin 1 .. c
      <4>1. ws[w].reply = 0 /\ ws[w].pc \in {"call", "mutate"} /\ ws[w].counter \in Nat
        BY <1>0, <1>2 DEF CommitMove, ProtocolInv, ScopeInv, ScopeSound, Scope
      <4>2. ws[w].counter > 0 => HoldsBump(ws[w])
        BY <4>1 DEF HoldsBump
      <4>3. Drawn(ws[w]) = ws[w].counter
        BY <4>1 DEF Drawn, MaxOf
      <4> QED BY <4>1, <4>2, <4>3 DEF RetiredUpTo
    <3> QED BY <2>1, <3>1 DEF Vouches
  <2> QED BY <2>2, <2>3
<1> QED BY <1>1, <1>2 DEF DriverMove

\* A write in flight whose bump is retired and did not fail, and which made rows
\* durable, is inside Apply.
LEMMA UnheldCarrier ==
    ASSUME ProtocolInv, NEW w \in Write, NEW r \in Row, Carries(ws[w], r), ~HoldsBump(ws[w]),
           ~ws[w].bumpFailed
    PROVE  ws[w].pc \in {"decide", "readback"}
<1>1. ws[w] \in Scope /\ ScopeSound(w, ws[w]) /\ ws[w].pc \in WritePC /\ ws[w].counter \in Nat
  BY ScopeFacts DEF ProtocolInv, ScopeInv, Scope
<1>2. ws[w].pc \notin Abandoned \cup {"bumping", "replying", "invalidate"}
  BY <1>1 DEF ScopeSound, Carries, HoldsBump
<1>3. ws[w].counter > 0 \/ ws[w].settled
  BY <1>1 DEF ScopeSound, Carries
<1> QED BY <1>1, <1>2, <1>3 DEF HoldsBump, ScopeSound, Carries, Finished, Abandoned, WritePC

\* The rows saveSnapshotPrepare takes, under applyMu and with the generations
\* equal: they hold what the stamp counts, and are PostgreSQL's own if no bump
\* landed since the stamp was read.
LEMMA PreparedRows ==
    ASSUME ProtocolInv, ViewInv, save.pc = "prepare", applyMu = Null, SavePreconditions
    PROVE  /\ Vouches(snap, save.counter)
           /\ save.counter = pgCounter => snap = pgRow
<1>0. /\ snap \in Rows /\ pgRow \in Rows /\ \A r \in Row : RowSound(snap[r], r) /\ snap[r] \in Nat
      /\ save.counter \in Nat /\ pgCounter \in Nat
  BY RowFacts, BackgroundFacts DEF SavePreconditions, ViewInv, Rows, ProtocolInv, SaveType
<1>1. RetiredUpTo(save.counter) /\ \A w \in Write : ~ws[w].bumpFailed
  BY EqualGenerations DEF ProtocolInv, TrustInv, Probed, SavePreconditions
<1>2. ASSUME NEW w \in Write, NEW r \in Row, Carries(ws[w], r)
      PROVE  HoldsBump(ws[w])
  <2>1. ws[w].pc \notin {"decide", "readback"}
    BY Alone DEF ProtocolInv, CriticalPC
  <2> QED BY <1>1, <1>2, <2>1, UnheldCarrier
<1>3. ASSUME NEW w \in Write, NEW r \in Row, Carries(ws[w], r)
      PROVE  Drawn(ws[w]) \in Nat /\ Drawn(ws[w]) \notin 1 .. save.counter
  BY <1>0, <1>1, <1>2, <1>3, ScopeFacts, OverFields DEF ProtocolInv, RetiredUpTo
<1>4. ASSUME NEW w \in Write, NEW r \in Row, Drawn(ws[w]) \in 1 .. save.counter
      PROVE  snap[r] >= ws[w].ver[r]
  <2>1. ws[w].pc \in Finished \/ ws[w].ver[r] = 0
    BY <1>3, <1>4, RowFacts DEF Carries
  <2> QED BY <1>0, <2>1 DEF RowSound, HoldsDone
<1>5. ASSUME save.counter = pgCounter, NEW r \in Row  PROVE snap[r] = pgRow[r]
  <2> SUFFICES ASSUME NEW w \in Write, Carries(ws[w], r)  PROVE FALSE
    BY <1>0 DEF RowSound, Fresh
  <2>1. ws[w] \in Scope /\ ScopeSound(w, ws[w]) /\ Drawn(ws[w]) <= pgCounter /\ Drawn(ws[w]) \in Nat
    BY ScopeFacts, OverFields DEF ProtocolInv, ScopeInv, BumpBounds
  <2>2. ws[w].counter > 0 \/ ws[w].settled
    BY <1>1, <2>1 DEF ScopeSound, Carries
  <2>3. ws[w].pc \notin {"decide", "readback"}
    BY Alone DEF ProtocolInv, CriticalPC
  <2>4. ws[w].counter > 0 /\ Drawn(ws[w]) > 0
    BY <2>1, <2>2, <2>3 DEF ScopeSound, Drawn, MaxOf, Scope
  <2> QED BY <1>0, <1>3, <1>5, <2>1, <2>4
<1>6. save.counter = pgCounter => snap = pgRow
  BY <1>0, <1>5 DEF Rows
<1> QED BY <1>4, <1>6 DEF Vouches

\* A write in flight moves PostgreSQL past the stamp before it commits, or its
\* failed bump has removed the file: so a file that looks current is.
LEMMA FileNext ==
    ASSUME ~TornSave, ProtocolInv, ProtocolInv', ViewInv, FileInv, [Next]_vars
    PROVE  FileInv'
<1> USE DEF pgVars, engineVars, lifeVars, viewVars, genVars, countVars
<1>0. /\ save \in SaveType /\ save.counter \in Nat /\ save.dirty \in Nat /\ dirtyGen \in Nat
      /\ pgCounter \in Nat /\ pgSeq \in Nat /\ pgLineage \in Nat
      /\ save.seq \in Nat /\ save.lineage \in Nat
      /\ file # Null => file.counter \in Nat /\ file.seq \in Nat /\ file.lineage \in Nat
  BY BackgroundFacts DEF ProtocolInv, EngineInv, TypeOK, StoreTypeOK, EngineTypeOK, SaveType, FileType
<1>1. ASSUME NEW w \in Write, DriverMove(w)  PROVE FileInv'
  <2>0. /\ save' = save /\ file' \in {file, Null} /\ pgLineage' = pgLineage /\ pgSeq <= pgSeq'
        /\ pgCounter' \in {pgCounter, pgCounter + 1} /\ dirtyGen' \in {dirtyGen, dirtyGen + 1}
        /\ pgSeq' \in Nat
    <3>1. pgSeq' \in Nat
      BY DEF ProtocolInv, EngineInv, TypeOK, StoreTypeOK
    <3>2. /\ save' = save /\ file' \in {file, Null} /\ pgLineage' = pgLineage /\ pgSeq <= pgSeq'
      <4>1. CASE QuietMove(w)
        BY <4>1 DEF QuietMove
      <4>2. ASSUME NEW k \in SUBSET Row, CommitMove(w, k)
           PROVE  UNCHANGED <<save, file, pgLineage, pgSeq>>
        BY <4>2 DEF CommitMove
      <4> QED BY <1>0, <1>1, <4>1, <4>2 DEF DriverMove
    <3> QED BY <1>1, <3>1, <3>2 DEF DriverMove, BumpMoves
  <2>1. file' # Null => Vouches(file.rows, file.counter)'
    BY <1>0, <1>1, <2>0, VouchesDriver DEF FileInv, ProtocolInv, TrustInv, StampBounds
  <2>2. save'.pc = "write" => Vouches(save.rows, save.counter)'
    BY <1>0, <1>1, <2>0, VouchesDriver DEF FileInv, ProtocolInv, TrustInv, StampBounds, Probed
  <2>3. ASSUME NEW k \in SUBSET Row, CommitMove(w, k), NEW c \in Nat, RetiredUpTo(c), c = pgCounter,
               ~ws[w].bumpFailed
        PROVE  pgRow' = pgRow
    <3>1. k = {}
      BY <2>3, CommitIsAbove
    <3> QED BY <2>3, <3>1, RowFacts DEF CommitMove, Rows
  <2>4. ASSUME file' # Null, LooksCurrent(file)', ~Torn'  PROVE file'.rows = pgRow'
    <3>1. /\ file' = file /\ file # Null /\ file.counter = pgCounter /\ LooksCurrent(file) /\ ~Torn
      BY <1>0, <2>0, <2>4 DEF LooksCurrent, Torn, ProtocolInv, StampBounds, TrustInv
    <3>2. file.rows = pgRow
      BY <3>1 DEF FileInv
    <3>3. pgRow' = pgRow
      BY <1>0, <1>1, <2>3, <3>1 DEF DriverMove, QuietMove, CommitMove, ProtocolInv, TrustInv
    <3> QED BY <3>1, <3>2, <3>3
  <2>5. ASSUME save'.pc = "write", LooksCurrent(save)', save'.dirty = dirtyGen'
        PROVE  save'.rows = pgRow'
    <3>1. /\ save.counter = pgCounter /\ LooksCurrent(save) /\ save.dirty = dirtyGen
          /\ save.pc = "write" /\ resolvedGen = dirtyGen
      BY <1>0, <2>0, <2>5 DEF LooksCurrent, ProtocolInv, StampBounds, TrustInv
    <3>2. save.rows = pgRow
      BY <3>1 DEF FileInv
    <3>3. pgRow' = pgRow
      BY <1>0, <1>1, <2>3, <3>1, EqualGenerations DEF DriverMove, QuietMove, ProtocolInv, TrustInv,
         Probed
    <3> QED BY <2>0, <3>2, <3>3
  <2> QED BY <2>1, <2>2, <2>4, <2>5 DEF FileInv
<1>2. ASSUME UNCHANGED <<pgVars, dirtyGen, save>>, file' \in {file, Null},
             \A x \in Write : Drawn(ws'[x]) = Drawn(ws[x]) /\ ws'[x].ver = ws[x].ver
      PROVE  FileInv'
  BY <1>2 DEF FileInv, Vouches, LooksCurrent, Torn
<1>3. ASSUME NEW w \in Write, ApplyTail(w)  PROVE FileInv'
  <2>1. \A x \in Write : Drawn(ws'[x]) = Drawn(ws[x]) /\ ws'[x].ver = ws[x].ver
    BY <1>3, RowFacts, OverFields DEF ApplyTail, Drawn, Scope
  <2> QED BY <1>2, <1>3, <2>1 DEF ApplyTail
<1>4. ASSUME NEW w \in Write, ReadBackRow(w)  PROVE FileInv'
  BY <1>2, <1>4 DEF ReadBackRow
<1>5. CASE LoopTurn \/ FileRead \/ StampPassed \/ QueryReadState \/ QueryReadView
  BY <1>2, <1>5 DEF LoopTurn, FileRead, StampPassed, QueryReadState, QueryReadView
<1>6. CASE RebuildLoad \/ RebuildLoadUncounted \/ RebuildAdopt \/ RebuildFlip
  BY <1>2, <1>6 DEF RebuildLoad, RebuildLoadUncounted, RebuildAdopt, RebuildFlip
<1>7. CASE BootTake \/ BootReplayRow \/ BootPublish
  BY <1>2, <1>7 DEF BootTake, BootReplayRow, BootPublish
<1>8. CASE SaveNext
  <2>0. UNCHANGED <<pgVars, ws, genVars>>
    BY <1>8, SaveMoves DEF ProtocolInv
  <2>1. ASSUME file' = file, save.pc # "recheck", save'.pc # "recheck", save'.pc # "write"
        PROVE  FileInv'
    BY <2>0, <2>1 DEF FileInv, Vouches, LooksCurrent, Torn
  <2>2. CASE \/ \E shutdown \in BOOLEAN : SaveBegin(shutdown)
             \/ SaveReadCounter \/ SaveReadInflight \/ SaveReadLedger \/ SaveReadSequence \/ SaveFails
    <3>1. CASE \E shutdown \in BOOLEAN : SaveBegin(shutdown)
      BY <2>1, <3>1 DEF SaveBegin, NewSave
    <3>2. CASE SaveReadCounter \/ SaveReadInflight \/ SaveReadSequence
      BY <1>0, <2>1, <3>2 DEF SaveReadCounter, SaveReadInflight, SaveReadSequence, SaveType
    <3>3. CASE SaveReadLedger
      BY <1>0, <2>1, <3>3 DEF SaveReadLedger, SaveStep, SaveDone, NewSave, SaveType
    <3>4. CASE SaveFails
      BY <2>1, <3>4 DEF SaveFails, SaveDone, NewSave
    <3> QED BY <2>2, <3>1, <3>2, <3>3, <3>4
  <2>3. CASE CompactionAdopted
    BY <1>2, <2>3 DEF CompactionAdopted
  <2>4. CASE SavePrepare
    <3>1. CASE SaveDone
      BY <2>1, <2>4, <3>1 DEF SavePrepare, SaveDone, NewSave
    <3>2. CASE /\ SavePreconditions
               /\ save' = [save EXCEPT !.pc = "write", !.rows = snap, !.lineage = baseLineage,
                                       !.dirty = dirtyGen]
      <4>1. /\ save'.rows = snap /\ save'.counter = save.counter /\ save'.pc = "write"
            /\ file' = file /\ save.pc = "prepare" /\ applyMu = Null
        BY <1>0, <2>4, <3>2 DEF SavePrepare, SaveType
      <4>2. Vouches(snap, save.counter) /\ (save.counter = pgCounter => snap = pgRow)
        BY <3>2, <4>1, PreparedRows
      <4>3. Vouches(save.rows, save.counter)'
        BY <2>0, <4>1, <4>2 DEF Vouches
      <4> QED BY <2>0, <4>1, <4>2, <4>3 DEF FileInv, Vouches, LooksCurrent, Torn
    <3> QED BY <2>4, <3>1, <3>2 DEF SavePrepare
  <2>5. CASE SaveWrite
    <3>1. /\ save'.pc = "recheck" /\ save.pc = "write" /\ save'.dirty = save.dirty
          /\ file' = [rows |-> save.rows, counter |-> save.counter, seq |-> save.seq,
                      lineage |-> save.lineage]
      BY <1>0, <2>5 DEF SaveWrite, SaveStep, SaveType
    <3>2. file'.rows = save.rows /\ file'.counter = save.counter /\ file'.seq = save.seq
          /\ file'.lineage = save.lineage
      BY <3>1
    <3>3. Vouches(save.rows, save.counter)
      BY <3>1 DEF FileInv
    <3>4. Vouches(file.rows, file.counter)'
      BY <2>0, <3>2, <3>3 DEF Vouches
    <3>5. LooksCurrent(file)' /\ ~Torn' => file'.rows = pgRow'
      BY <2>0, <3>1, <3>2 DEF LooksCurrent, Torn, FileInv
    <3> QED BY <3>1, <3>4, <3>5 DEF FileInv
  <2>6. CASE SaveWriteFails
    <3>1. save'.pc = "recheck" /\ save.pc = "write" /\ file' = file
      BY <1>0, <2>6 DEF SaveWriteFails, SaveStep, SaveType
    <3> QED BY <2>0, <3>1 DEF FileInv, Vouches, LooksCurrent, Torn
  <2>7. CASE SaveRecheck
    <3>1. save'.pc = "idle" /\ (file' = Null \/ (file' = file /\ ~Torn))
      BY <2>7 DEF SaveRecheck, SaveDone, NewSave, Torn
    <3> QED BY <2>0, <3>1 DEF FileInv, Vouches, LooksCurrent, Torn
  <2> QED BY <1>8, <2>2, <2>3, <2>4, <2>5, <2>6, <2>7 DEF SaveNext
<1>9. CASE Start
  <2>1. UNCHANGED <<pgVars, file, save, ws>> /\ save.pc = "idle"
    BY <1>9 DEF Start, ProtocolInv, EngineInv, ControlInv, DownInv
  <2> QED BY <2>1 DEF FileInv, Vouches, LooksCurrent, Torn
<1>10. CASE Exit
  <2>1. \A x \in Write : Drawn(ws'[x]) = Drawn(ws[x]) /\ ws'[x].ver = ws[x].ver
    BY <1>10, ExitScopes, ScopeFacts, OverFields DEF ProtocolInv
  <2>2. ~Torn /\ file' = file /\ UNCHANGED pgVars /\ save'.pc = "idle"
    BY <1>10 DEF Exit, Torn, NewSave
  <2> QED BY <2>1, <2>2 DEF FileInv, Vouches, LooksCurrent
<1>11. ASSUME NEW r \in Row, ExternalWrite(r)  PROVE FileInv'
  <2>1. /\ UNCHANGED <<file, ws, save, pgCounter>> /\ ~up
        /\ \/ pgSeq' = pgSeq + 1 /\ pgLineage' = pgLineage
           \/ pgLineage' = pgLineage + 1 /\ pgSeq' = pgSeq
    BY <1>11 DEF ExternalWrite
  <2>2. save.pc = "idle"
    BY <2>1 DEF ProtocolInv, EngineInv, ControlInv, DownInv
  <2>3. file # Null => ~LooksCurrent(file)'
    BY <1>0, <2>1 DEF LooksCurrent, ProtocolInv, StampBounds
  <2> QED BY <2>1, <2>2, <2>3 DEF FileInv, Vouches
<1> QED BY <1>1, <1>3, <1>4, <1>5, <1>6, <1>7, <1>8, <1>9, <1>10, <1>11, NextMoves
     DEF ProtocolInv, DriverMove
-----------------------------------------------------------------------------
\* Every view published after the query read the state holds what was
\* acknowledged by then, and no view is ever taken back for an older one.
LEMMA QueryNext ==
    ASSUME ProtocolInv, ViewInv, LoadInv, BuildInv, ReplayInv, QueryInv, [Next]_vars
    PROVE  QueryInv'
<1> USE DEF pgVars, engineVars, lifeVars, viewVars, genVars, countVars
<1> DEFINE QueryType == [pc : {"idle", "view", "served"}, floor : Rows, rows : Rows \cup {Null}]
<1>0. /\ query \in QueryType /\ query.floor \in Rows /\ \A r \in Row : query.floor[r] \in Nat
      /\ \A r \in Row : acked[r] \in Nat /\ \A w \in Write : ws[w].ver[r] \in Nat
      /\ acked \in Rows /\ NoRows \in Rows
      /\ snap # Null => \A r \in Row : snap[r] \in Nat
      /\ building # Null => \A r \in Row : building.rows[r] \in Nat
      /\ load.rows # Null => \A r \in Row : load.rows[r] \in Nat
  BY RowFacts DEF ProtocolInv, EngineInv, TypeOK, ReaderTypeOK, Rows, NoRows
<1>1. ASSUME UNCHANGED query,
             \A r \in Row : acked'[r] \in Nat /\ acked[r] <= acked'[r],
             snap' = snap \/ \A r \in Row : snap'[r] \in Nat /\ snap'[r] >= acked[r]
      PROVE  QueryInv'
  BY <1>0, <1>1 DEF QueryInv, ReadsAcknowledgedWrites
<1>2. ASSUME UNCHANGED <<query, acked, snap>>  PROVE QueryInv'
  BY <1>0, <1>1, <1>2
<1>3. ASSUME NEW w \in Write, DriverMove(w)  PROVE QueryInv'
  BY <1>2, <1>3 DEF DriverMove, QuietMove, CommitMove
<1>4. ASSUME NEW w \in Write, ReadBackRow(w)  PROVE QueryInv'
  BY <1>2, <1>4 DEF ReadBackRow
<1>5. ASSUME NEW w \in Write, ApplyTail(w),
             ApplyDecide(w) \/ ApplyPublish(w) \/ ApplyFails(w) \/ ApplyPanics(w)
      PROVE  QueryInv'
  <2>1. query' = query /\ \A r \in Row : acked'[r] \in Nat /\ acked[r] <= acked'[r]
    BY <1>0, <1>5 DEF ApplyTail, MaxOf
  <2>2. snap' = snap \/ \A r \in Row : snap'[r] \in Nat /\ snap'[r] >= acked[r]
    <3>1. CASE ApplyPublish(w)
      <4>1. snap' = building.rows /\ ws[w].pc = "readback" /\ building # Null
        BY <3>1, OneReadsBack DEF ApplyPublish
      <4> QED BY <1>0, <4>1 DEF BuildInv, HoldsDone
    <3>2. CASE ApplyDecide(w) \/ ApplyFails(w) \/ ApplyPanics(w)
      BY <3>2 DEF ApplyDecide, ApplyFails, ApplyPanics
    <3> QED BY <1>5, <3>1, <3>2
  <2> QED BY <1>1, <2>1, <2>2
<1>6. CASE LoopTurn \/ FileRead \/ StampPassed
  BY <1>2, <1>6 DEF LoopTurn, FileRead, StampPassed
<1>7. CASE RebuildLoad \/ RebuildLoadUncounted \/ RebuildFlip \/ BootTake \/ BootReplayRow
  BY <1>2, <1>7 DEF RebuildLoad, RebuildLoadUncounted, RebuildFlip, BootTake, BootReplayRow
<1>8. CASE RebuildAdopt
  <2>1. UNCHANGED <<query, acked>> /\ snap' = load.rows /\ loop.pc = "adopt" /\ applyEpoch = load.epoch
    BY <1>8 DEF RebuildAdopt, Superseded, LoopStep
  <2>2. load.rows # Null
    BY <2>1, BackgroundFacts DEF ProtocolInv, HoldsRows
  <2>3. \A r \in Row : snap'[r] \in Nat /\ snap'[r] >= acked[r]
    BY <1>0, <2>1, <2>2 DEF LoadInv, HoldsDone
  <2> QED BY <1>0, <1>1, <2>1, <2>3
<1>9. CASE BootPublish
  <2>1. /\ UNCHANGED <<query, acked>> /\ snap' = building.rows
        /\ loop.pc = "bootReplay" /\ building.todo = {}
    BY <1>9 DEF BootPublish, LoopStep
  <2>2. building # Null
    BY <2>1, BackgroundFacts DEF ProtocolInv
  <2>3. \A r \in Row : snap'[r] \in Nat /\ snap'[r] >= acked[r]
    BY <1>0, <2>1, <2>2 DEF ReplayInv, RowSound, HoldsDone
  <2> QED BY <1>0, <1>1, <2>1, <2>3
<1>10. CASE SaveNext
  BY <1>2, <1>10, SaveMoves DEF ProtocolInv
<1>11. CASE QueryReadState
  <2>1. /\ query'.pc = "view" /\ query'.floor = acked /\ UNCHANGED <<snap, acked>> /\ Serving
    BY <1>11 DEF QueryReadState, NewQuery
  <2>2. snap # Null => \A r \in Row : snap[r] >= acked[r]
    BY <2>1 DEF ViewInv, RowSound, HoldsDone
  <2> QED BY <1>0, <2>1, <2>2 DEF QueryInv, ReadsAcknowledgedWrites
<1>12. CASE QueryReadView
  <2>1. CASE snap = Null
    BY <1>12, <2>1 DEF QueryReadView, NewQuery, QueryInv, ReadsAcknowledgedWrites
  <2>2. CASE snap # Null
    <3>1. query.pc = "view" /\ query'.pc = "served" /\ query'.rows = snap /\ query'.floor = query.floor
      BY <1>0, <1>12, <2>2 DEF QueryReadView
    <3> QED BY <2>2, <3>1 DEF QueryInv, ReadsAcknowledgedWrites
  <2> QED BY <2>1, <2>2
<1>13. CASE Exit
  BY <1>13 DEF Exit, NewQuery, QueryInv, ReadsAcknowledgedWrites
<1>14. CASE Start \/ \E r \in Row : ExternalWrite(r)
  BY <1>2, <1>14 DEF Start, ExternalWrite
<1> QED BY <1>3, <1>4, <1>5, <1>6, <1>7, <1>8, <1>9, <1>10, <1>11, <1>12, <1>13, <1>14, NextMoves
     DEF ProtocolInv, DriverMove
-----------------------------------------------------------------------------
\* The inductive invariant, whole.
ReplicaInv ==
    /\ ProtocolInv /\ ViewInv /\ LoadInv /\ BuildInv /\ ReplayInv /\ BootInv /\ FileInv /\ QueryInv

\* A first process finds no file, no view and no query.
LEMMA ReplicaInit == Init => ReplicaInv
<1> SUFFICES ASSUME Init  PROVE ReplicaInv
  OBVIOUS
<1>1. ProtocolInv
  BY ProtocolInit
<1>2. /\ snap = Null /\ loop.pc = "none" /\ file = Null /\ save.pc = "idle" /\ query.pc = "idle"
      /\ \A w \in Write : ws[w].pc = "idle"
  BY DEF Init, NewLoop, NewSave, NewQuery, NewScope
<1> QED BY <1>1, <1>2 DEF ReplicaInv, ViewInv, LoadInv, BuildInv, ReplayInv, BootInv, FileInv, QueryInv,
     ReadsAcknowledgedWrites

\* Every step keeps it, where no process ends between a save's rename and the
\* recheck that takes the file back.
LEMMA ReplicaNext == ~TornSave /\ ReplicaInv /\ [Next]_vars => ReplicaInv'
<1> SUFFICES ASSUME ~TornSave, ReplicaInv, [Next]_vars  PROVE ReplicaInv'
  OBVIOUS
<1>1. ProtocolInv'
  BY ProtocolNext DEF ReplicaInv
<1> QED BY <1>1, ViewNext, LoadNext, BuildNext, ReplayNext, BootPromiseNext, FileNext, QueryNext
     DEF ReplicaInv

\* The replica's invariant holds throughout every behaviour of the engine, its
\* crashes and restarts included.
THEOREM ReplicaInvariant ==
    ASSUME ~TornSave
    PROVE  Spec => []ReplicaInv
<1>1. ReplicaInv /\ [Next]_vars => ReplicaInv'
  BY ReplicaNext
<1> QED BY <1>1, ReplicaInit, PTL DEF Spec

\* While it serves, the replica matches PostgreSQL row by row but for the writes
\* this process is still carrying: Apply reads back under applyMu before it
\* returns, a load an Apply overtook is refused, and a file taken at boot is
\* completed from the gap buffer.
THEOREM ReplicaStaysCurrent ==
    ASSUME ~TornSave
    PROVE  Spec => []ReplicaCurrent
<1>1. ReplicaInv => ReplicaCurrent
  <2> SUFFICES ASSUME ReplicaInv, up, Serving, snap # Null, NEW r \in Row
               PROVE  snap[r] = pgRow[r] \/ \E w \in Write : InFlight(w) /\ r \in DurableRows(w)
    BY DEF ReplicaCurrent
  <2>1. RowSound(snap[r], r)
    BY DEF ReplicaInv, ViewInv
  <2> QED BY <2>1 DEF RowSound, Fresh, Carries, InFlight, DurableRows
<1> QED BY <1>1, ReplicaInvariant, PTL

\* A served query reads every write acknowledged before it began.
THEOREM QueriesReadAcknowledged ==
    ASSUME ~TornSave
    PROVE  Spec => []ReadsAcknowledgedWrites
<1>1. ReplicaInv => ReadsAcknowledgedWrites
  BY DEF ReplicaInv, QueryInv
<1> QED BY <1>1, ReplicaInvariant, PTL

\* What WatermarkTrusted answers for is true: with the generations equal, no
\* bump in flight and every counter resolved, the view misses at most what
\* Apply is publishing at that moment.
THEOREM TrustIsJustified ==
    ASSUME ~TornSave
    PROVE  Spec => []TrustedMeansComplete
<1>1. ReplicaInv => TrustedMeansComplete
  <2> SUFFICES ASSUME ReplicaInv, Serving, snap # Null, dirtyGen = resolvedGen,
                      Converged(pgCounter, inflight), NEW r \in Row
               PROVE  snap[r] = pgRow[r] \/ \E w \in Write : Applying(w) /\ r \in DurableRows(w)
    BY DEF TrustedMeansComplete
  <2>1. RowSound(snap[r], r) /\ ProtocolInv
    BY DEF ReplicaInv, ViewInv
  <2>2. \A w \in Write : ~HoldsBump(ws[w]) /\ ~ws[w].bumpFailed
    BY <2>1, NothingHeld, EqualGenerations DEF Converged, ProtocolInv
  <2>3. ASSUME NEW w \in Write, Carries(ws[w], r)  PROVE Applying(w) /\ r \in DurableRows(w)
    BY <2>1, <2>2, <2>3, UnheldCarrier DEF Applying, DurableRows, Carries
  <2> QED BY <2>1, <2>3 DEF RowSound, Fresh
<1> QED BY <1>1, ReplicaInvariant, PTL

\* The snapshot file holds every write its stamp counts, whatever crashed and
\* restarted since it was written.
THEOREM StampIsJustified ==
    ASSUME ~TornSave
    PROVE  Spec => []StampVouches
<1>1. ReplicaInv => StampVouches
  <2> SUFFICES ASSUME ReplicaInv, file # Null, NEW w \in Write, NEW r \in Row,
                      ws[w].counter \in 1 .. file.counter
               PROVE  file.rows[r] >= ws[w].ver[r]
    BY DEF StampVouches
  <2>1. /\ Vouches(file.rows, file.counter) /\ ScopeSound(w, ws[w]) /\ ws[w].counter \in Nat
        /\ ws[w].reply \in Nat /\ file.counter \in Nat
    BY ScopeFacts, RowFacts DEF ReplicaInv, ProtocolInv, FileInv, ScopeInv, FileType
  <2>2. ws[w].reply = 0
    BY <2>1 DEF ScopeSound
  <2>3. Drawn(ws[w]) = ws[w].counter
    BY <2>1, <2>2 DEF Drawn, MaxOf
  <2> QED BY <2>1, <2>3 DEF Vouches
<1> QED BY <1>1, ReplicaInvariant, PTL

\* A file that would pass for current at the next start is current, unless the
\* recheck that is to remove it is still to come.
THEOREM CurrentFileIsCurrent ==
    ASSUME ~TornSave
    PROVE  Spec => []CurrentStampMeansCurrentFile
<1>1. ReplicaInv => CurrentStampMeansCurrentFile
  BY DEF ReplicaInv, FileInv, CurrentStampMeansCurrentFile, Torn
<1> QED BY <1>1, ReplicaInvariant, PTL

\* So the window of TornSave is the only one: where no process ends in it, a
\* stop leaves no file that looks current and misses a write, as
\* saveSnapshotCommit's comment says.
THEOREM OnlyTheTornWindow ==
    ASSUME ~TornSave
    PROVE  Spec => []StopLeavesNoStaleFile
<1>1. ReplicaInv => StopLeavesNoStaleFile
  BY DEF ReplicaInv, FileInv, StopLeavesNoStaleFile, Torn, ProtocolInv, EngineInv, ControlInv, DownInv
<1> QED BY <1>1, ReplicaInvariant, PTL
-----------------------------------------------------------------------------
(* WatermarkTrusted, with the engine moving between its reads.              *)

\* A fault met by the call itself is nothing to the engine.
LEMMA FaultIsOutside ==
    ASSUME ReplicaInv, Fault,
           UNCHANGED <<pgVars, file, engineVars, loop, load, ws, building, save, query, acked>>
    PROVE  ReplicaInv'
<1> USE DEF pgVars, engineVars, lifeVars, viewVars, genVars, countVars
<1>1. used' \in Counts
  BY DEF Fault, Counts, ReplicaInv, ProtocolInv, EngineInv, TypeOK, StoreTypeOK
<1>2. TypeOK'
  BY <1>1 DEF ReplicaInv, ProtocolInv, EngineInv, TypeOK, StoreTypeOK, EngineTypeOK, LoaderTypeOK,
     WriteTypeOK, ReaderTypeOK
<1>3. EngineInv'
  BY <1>2 DEF ReplicaInv, ProtocolInv, EngineInv, ControlInv, LockInv, HeldInv, DownInv, InCritical,
     GenerationInv, Unsettled, FallbackHasARebuild, InFlight
<1>4. /\ ScopeInv' /\ VersionBounds' /\ BumpBounds' /\ PhaseInv' /\ StampBounds'
      /\ TrustInv' /\ CaptureInv'
  BY DEF ReplicaInv, ProtocolInv, ScopeInv, VersionBounds, BumpBounds, Holding, PhaseInv, Serving,
     StampBounds, TrustInv, Probed, RetiredUpTo, Torn, CaptureInv, InFlight
<1>5. ViewInv' /\ LoadInv' /\ BuildInv' /\ ReplayInv'
  BY SoundStays DEF ReplicaInv, ViewInv, LoadInv, BuildInv, ReplayInv, Serving, Settling
<1>6. BootInv' /\ FileInv' /\ QueryInv'
  BY SoundStays DEF ReplicaInv, BootInv, StampedAtStart, Covers, Serving, FileInv, Vouches,
     LooksCurrent, Torn, QueryInv, ReadsAcknowledgedWrites
<1> QED BY <1>3, <1>4, <1>5, <1>6 DEF ReplicaInv, ProtocolInv

\* A view once published stays until the process ends.
LEMMA ViewStays ==
    ASSUME ProtocolInv, [Next]_vars, up', up, snap # Null
    PROVE  snap' # Null
<1> USE DEF pgVars, engineVars, lifeVars, viewVars, genVars, countVars
<1>0. Null \notin Rows
  BY EngineConstants DEF Rows
<1>1. ASSUME NEW w \in Write, ApplyTail(w)  PROVE snap' # Null
  BY <1>0, <1>1, RowFacts, OneReadsBack DEF ApplyTail
<1>2. CASE RebuildAdopt \/ BootPublish
  BY <1>0, <1>2, RowFacts, BackgroundFacts DEF RebuildAdopt, BootPublish, LoopStep, ProtocolInv,
     HoldsRows
<1>3. ASSUME NEW w \in Write, DriverMove(w) \/ ReadBackRow(w)  PROVE snap' # Null
  BY <1>3 DEF DriverMove, QuietMove, CommitMove, ReadBackRow
<1>4. CASE LoopTurn \/ RebuildLoad \/ RebuildLoadUncounted \/ RebuildFlip \/ FileRead \/ StampPassed
           \/ BootTake \/ BootReplayRow \/ QueryReadState \/ QueryReadView
  BY <1>4 DEF LoopTurn, RebuildLoad, RebuildLoadUncounted, RebuildFlip, FileRead, StampPassed, BootTake,
     BootReplayRow, QueryReadState, QueryReadView
<1>5. CASE SaveNext
  BY <1>5, SaveMoves DEF ProtocolInv
<1>6. CASE Start \/ Exit \/ \E r \in Row : ExternalWrite(r)
  BY <1>6 DEF Start, Exit, ExternalWrite
<1> QED BY <1>1, <1>2, <1>3, <1>4, <1>5, <1>6, NextMoves DEF ProtocolInv, DriverMove

\* What the engine does between two reads: the counter and the noted generation
\* only grow, and no bump behind a counter read comes back.
LEMMA SamplesAge ==
    ASSUME ProtocolInv, [Next]_vars, up, up'
    PROVE  /\ pgCounter <= pgCounter' /\ dirtyGen <= dirtyGen' /\ resolvedGen <= resolvedGen'
           /\ \A c \in Nat : c <= pgCounter /\ RetiredUpTo(c) => RetiredUpTo(c)'
<1> USE DEF pgVars, engineVars, lifeVars, viewVars, genVars, countVars
<1>0. pgCounter \in Nat /\ dirtyGen \in Nat /\ resolvedGen \in Nat /\ load.gen \in Nat
  BY BackgroundFacts DEF ProtocolInv
<1> DEFINE Aged == /\ pgCounter <= pgCounter' /\ dirtyGen <= dirtyGen' /\ resolvedGen <= resolvedGen'
                   /\ \A c \in Nat : c <= pgCounter /\ RetiredUpTo(c) => RetiredUpTo(c)'
<1>1. ASSUME NEW w \in Write, BumpMoves(w), resolvedGen' = resolvedGen  PROVE Aged
  <2>1. \A c \in Nat : c <= pgCounter /\ RetiredUpTo(c) => RetiredUpTo(c)'
    BY <1>1, RetiredKept DEF ProtocolInv
  <2> QED BY <1>0, <1>1, <2>1 DEF BumpMoves
<1>2. ASSUME UNCHANGED <<pgCounter, dirtyGen, ws>>,
             resolvedGen' = resolvedGen \/ resolvedGen' = MaxOf(resolvedGen, load.gen)
      PROVE  Aged
  BY <1>0, <1>2 DEF RetiredUpTo, MaxOf
<1>3. ASSUME NEW w \in Write, DriverMove(w)  PROVE Aged
  BY <1>1, <1>3 DEF DriverMove, QuietMove, CommitMove
<1>4. ASSUME NEW w \in Write, ApplyTail(w), BumpMoves(w)  PROVE Aged
  BY <1>1, <1>4 DEF ApplyTail
<1>5. ASSUME NEW w \in Write, ReadBackRow(w)  PROVE Aged
  BY <1>2, <1>5 DEF ReadBackRow
<1>6. CASE LoopTurn \/ FileRead \/ StampPassed \/ QueryReadState \/ QueryReadView
  BY <1>2, <1>6 DEF LoopTurn, FileRead, StampPassed, QueryReadState, QueryReadView
<1>7. CASE RebuildLoad \/ RebuildLoadUncounted \/ RebuildAdopt \/ RebuildFlip
  BY <1>2, <1>7 DEF RebuildLoad, RebuildLoadUncounted, RebuildAdopt, RebuildFlip
<1>8. CASE BootTake \/ BootReplayRow \/ BootPublish
  BY <1>2, <1>8 DEF BootTake, BootReplayRow, BootPublish
<1>9. CASE SaveNext
  BY <1>2, <1>9, SaveMoves DEF ProtocolInv
<1>10. CASE Start \/ Exit
  BY <1>10 DEF Start, Exit
<1>11. CASE \E r \in Row : ExternalWrite(r)
  BY <1>2, <1>11 DEF ExternalWrite
<1> QED BY <1>3, <1>4, <1>5, <1>6, <1>7, <1>8, <1>9, <1>10, <1>11, NextMoves DEF ProtocolInv, DriverMove

\* A call of WatermarkTrusted: its samples are the engine's, or older; nothing
\* the counter it read counts is still held once no bump was seen in flight;
\* and an answer its last sample has yet to confirm is true.
Asking == {"dirty", "counter", "inflight", "ledger", "state", "resolvedAgain", "dirtyAgain"}
Sampled == Asking \ {"dirty"}
Counted == Sampled \ {"counter"}
NoneHeld == (trust.pc = "ledger" /\ trust.inflight = 0) \/ (trust.pc = "state" /\ trust.converged)
Unconfirmed == trust.pc \in {"resolvedAgain", "dirtyAgain"} /\ trust.converged /\ trust.serving
TrustCallInv ==
    /\ trust \in [pc : Asking \cup {"idle", "trusted", "distrusted"}, resolved : Nat, dirty : Nat,
                  counter : Nat, inflight : Int, converged : BOOLEAN, serving : BOOLEAN, again : Nat,
                  complete : BOOLEAN]
    /\ trust.pc \in Asking => up /\ snap # Null /\ trust.resolved <= resolvedGen
    /\ trust.pc \in Sampled => trust.dirty = trust.resolved /\ trust.dirty <= dirtyGen
    /\ trust.pc \in Counted => trust.counter <= pgCounter
    /\ NoneHeld => RetiredUpTo(trust.counter)
    /\ Unconfirmed /\ trust.dirty = dirtyGen => trust.complete
    /\ TrustedAnswerComplete

\* What the state read of a call that is to answer true finds.
LEMMA VouchedIsHeld ==
    ASSUME ReplicaInv, Serving, snap # Null, resolvedGen = dirtyGen, trust.counter \in Nat,
           RetiredUpTo(trust.counter)
    PROVE  HoldsVouched
<1> SUFFICES ASSUME NEW w \in Write, Vouched(w), ~Applying(w), NEW r \in DurableRows(w)
             PROVE  snap[r] >= ws[w].ver[r]
  BY DEF HoldsVouched
<1>1. RowSound(snap[r], r) /\ ProtocolInv /\ ~ws[w].bumpFailed /\ r \in Row /\ ws[w].ver[r] > 0
  BY EqualGenerations DEF ReplicaInv, ProtocolInv, ViewInv, DurableRows
<1>2. CASE ws[w].pc \in Finished
  BY <1>1, <1>2 DEF RowSound, HoldsDone
<1>3. CASE ws[w].pc \notin Finished
  <2>1. HoldsBump(ws[w])
    BY <1>1, <1>3, UnheldCarrier DEF Carries, Applying
  <2>2. ScopeSound(w, ws[w]) /\ ws[w].counter \in Nat /\ ws[w].reply \in Nat
    BY <1>1, ScopeFacts DEF ProtocolInv, ScopeInv
  <2>3. ws[w].counter > 0
    BY <1>1, <1>3, <2>2 DEF ScopeSound, Applying
  <2>4. Drawn(ws[w]) <= trust.counter /\ Drawn(ws[w]) \in Nat /\ Drawn(ws[w]) > 0
    BY <2>2, <2>3 DEF Drawn, Vouched, MaxOf
  <2> QED BY <2>1, <2>4 DEF RetiredUpTo
<1> QED BY <1>2, <1>3

\* The engine's steps age the samples, and no more.
LEMMA TrustCallAges ==
    ASSUME ReplicaInv, ReplicaInv', TrustCallInv, [Next]_vars,
           trust' = IF up' THEN trust ELSE NewTrust
    PROVE  TrustCallInv'
<1>0. /\ \A g \in {dirtyGen, dirtyGen', resolvedGen, resolvedGen', pgCounter, pgCounter'} : g \in Nat
      /\ trust.dirty \in Nat /\ trust.resolved \in Nat /\ trust.counter \in Nat
  BY DEF ReplicaInv, ProtocolInv, EngineInv, TypeOK, StoreTypeOK, EngineTypeOK, TrustCallInv
<1>1. CASE ~up'
  BY <1>1 DEF NewTrust, TrustCallInv, TrustedAnswerComplete, Asking, Sampled, Counted, NoneHeld,
     Unconfirmed
<1>2. CASE up' /\ trust.pc \notin Asking
  BY <1>2 DEF TrustCallInv, TrustedAnswerComplete, Asking, Sampled, Counted, NoneHeld,
     Unconfirmed
<1>3. CASE up' /\ trust.pc \in Asking
  <2>1. trust' = trust /\ up /\ snap # Null /\ snap' # Null
    BY <1>3, ViewStays DEF TrustCallInv, ReplicaInv
  <2>2. /\ pgCounter <= pgCounter' /\ dirtyGen <= dirtyGen' /\ resolvedGen <= resolvedGen'
        /\ trust.counter <= pgCounter /\ RetiredUpTo(trust.counter) => RetiredUpTo(trust.counter)'
    BY <1>0, <1>3, <2>1, SamplesAge DEF ReplicaInv
  <2>3. /\ trust.resolved <= resolvedGen'
        /\ trust.pc \in Sampled => trust.dirty = trust.resolved /\ trust.dirty <= dirtyGen'
        /\ trust.pc \in Counted => trust.counter <= pgCounter'
    BY <1>0, <1>3, <2>2 DEF TrustCallInv
  <2>4. NoneHeld => RetiredUpTo(trust.counter)'
    BY <2>1, <2>2 DEF TrustCallInv, NoneHeld, Counted, Sampled, Asking
  <2>5. Unconfirmed /\ trust.dirty = dirtyGen' => trust.complete
    BY <1>0, <2>2 DEF TrustCallInv, Unconfirmed, Sampled, Asking
  <2> QED BY <1>3, <2>1, <2>3, <2>4, <2>5 DEF TrustCallInv, NoneHeld, Unconfirmed, TrustedAnswerComplete
<1> QED BY <1>1, <1>2, <1>3

\* The call's own steps.
LEMMA TrustCallSteps ==
    ASSUME ReplicaInv, TrustCallInv, TrustNext
    PROVE  TrustCallInv'
<1> USE DEF Asking, Sampled, Counted, NoneHeld, Unconfirmed, pgVars, engineVars, lifeVars, viewVars,
        genVars, countVars, vars
<1> DEFINE Call == [pc : Asking \cup {"idle", "trusted", "distrusted"}, resolved : Nat, dirty : Nat,
                    counter : Nat, inflight : Int, converged : BOOLEAN, serving : BOOLEAN, again : Nat,
                    complete : BOOLEAN]
<1>0. /\ dirtyGen \in Nat /\ resolvedGen \in Nat /\ pgCounter \in Nat /\ inflight \in Int
      /\ resolvedGen <= dirtyGen /\ ProtocolInv /\ trust \in Call
  <2>1. resolvedGen <= settledGen /\ settledGen <= dirtyGen
    BY UnsettledFinite DEF ReplicaInv, ProtocolInv, EngineInv, GenerationInv, TypeOK, EngineTypeOK
  <2> QED BY <2>1 DEF ReplicaInv, ProtocolInv, EngineInv, TypeOK, StoreTypeOK, EngineTypeOK,
            TrustCallInv
<1>1. UNCHANGED <<up, snap, dirtyGen, resolvedGen, pgCounter, ws>>
  BY DEF TrustNext, ReadResolved, ReadDirty, ReadPgCounter, ReadPgCounterFails, ReadInflightBumps,
     ReadLedger, ReadState, ReadResolvedAgain, ReadDirtyAgain
<1>2. \A c \in Nat : RetiredUpTo(c)' <=> RetiredUpTo(c)
  BY <1>1 DEF RetiredUpTo
<1>3. ASSUME NEW trusted \in BOOLEAN, trust' = Answer(trusted), trusted => trust.complete
      PROVE  TrustCallInv'
  <2>0. NewTrust \in Call
    BY DEF NewTrust
  <2>1. CASE trusted
    <3>1. trust' = [NewTrust EXCEPT !.pc = "trusted", !.complete = TRUE]
      BY <1>3, <2>1, Zenon DEF Answer
    <3>2. trust' \in Call /\ trust'.pc = "trusted" /\ trust'.complete
      BY <2>0, <3>1
    <3> QED BY <3>2 DEF TrustCallInv, TrustedAnswerComplete
  <2>2. CASE ~trusted
    <3>1. trust' = [NewTrust EXCEPT !.pc = "distrusted", !.complete = FALSE]
      BY <1>3, <2>2, Zenon DEF Answer
    <3>2. trust' \in Call /\ trust'.pc = "distrusted"
      BY <2>0, <3>1
    <3> QED BY <3>2 DEF TrustCallInv, TrustedAnswerComplete
  <2> QED BY <2>1, <2>2
<1>4. CASE ReadResolved
  <2>1. trust' = [trust EXCEPT !.resolved = resolvedGen, !.pc = "dirty"] /\ up /\ snap # Null
    BY <1>0, <1>4 DEF ReadResolved, TrustStep
  <2>2. trust' \in Call /\ trust'.pc = "dirty" /\ trust'.resolved = resolvedGen
    BY <1>0, <2>1
  <2> QED BY <1>0, <1>1, <2>1, <2>2 DEF TrustCallInv, TrustedAnswerComplete
<1>5. CASE ReadDirty
  <2>1. CASE dirtyGen = trust.resolved
    <3>1. /\ trust' = [trust EXCEPT !.dirty = dirtyGen, !.pc = "counter"] /\ trust.pc = "dirty"
      BY <1>0, <1>5, <2>1 DEF ReadDirty, TrustStep
    <3>2. /\ trust' \in Call /\ trust'.pc = "counter" /\ trust'.dirty = dirtyGen
          /\ trust'.resolved = trust.resolved
      BY <1>0, <3>1
    <3> QED BY <1>0, <1>1, <2>1, <3>1, <3>2 DEF TrustCallInv, TrustedAnswerComplete
  <2>2. CASE dirtyGen # trust.resolved
    BY <1>3, <1>5, <2>2 DEF ReadDirty
  <2> QED BY <2>1, <2>2
<1>6. CASE ReadPgCounter
  <2>1. trust' = [trust EXCEPT !.counter = pgCounter, !.pc = "inflight"] /\ trust.pc = "counter"
    BY <1>0, <1>6 DEF ReadPgCounter, TrustStep
  <2>2. /\ trust' \in Call /\ trust'.pc = "inflight" /\ trust'.counter = pgCounter
        /\ trust'.dirty = trust.dirty /\ trust'.resolved = trust.resolved
    BY <1>0, <2>1
  <2> QED BY <1>0, <1>1, <2>1, <2>2 DEF TrustCallInv, TrustedAnswerComplete
<1>7. CASE ReadPgCounterFails
  BY <1>3, <1>7 DEF ReadPgCounterFails
<1>8. CASE ReadInflightBumps
  <2>1. trust' = [trust EXCEPT !.inflight = inflight, !.pc = "ledger"] /\ trust.pc = "inflight"
    BY <1>0, <1>8 DEF ReadInflightBumps, TrustStep
  <2>2. trust'.inflight = 0 => RetiredUpTo(trust.counter)
    BY <1>0, <2>1, NothingHeld DEF ProtocolInv, RetiredUpTo
  <2> QED BY <1>0, <1>1, <1>2, <2>1, <2>2 DEF TrustCallInv, TrustedAnswerComplete
<1>9. CASE ReadLedger
  <2>1. /\ trust' = [trust EXCEPT !.converged = Converged(trust.counter, trust.inflight),
                                !.pc = "state"]
        /\ trust.pc = "ledger" /\ Converged(trust.counter, trust.inflight) \in BOOLEAN
        /\ Converged(trust.counter, trust.inflight) => trust.inflight = 0
    BY <1>0, <1>9 DEF ReadLedger, TrustStep, Converged
  <2> QED BY <1>0, <1>1, <1>2, <2>1 DEF TrustCallInv, TrustedAnswerComplete
<1>10. CASE ReadState
  <2>1. /\ trust' = [trust EXCEPT !.serving = Serving, !.complete = HoldsVouched,
                                  !.pc = "resolvedAgain"]
        /\ trust.pc = "state" /\ Serving \in BOOLEAN /\ HoldsVouched \in BOOLEAN
    BY <1>0, <1>10 DEF ReadState, TrustStep, Serving, HoldsVouched
  <2>2. trust.converged /\ Serving /\ trust.dirty = dirtyGen => HoldsVouched
    BY <1>0, <2>1, VouchedIsHeld DEF TrustCallInv
  <2> QED BY <1>0, <1>1, <2>1, <2>2 DEF TrustCallInv, TrustedAnswerComplete
<1>11. CASE ReadResolvedAgain
  <2>1. trust' = [trust EXCEPT !.again = resolvedGen, !.pc = "dirtyAgain"] /\ trust.pc = "resolvedAgain"
    BY <1>0, <1>11 DEF ReadResolvedAgain, TrustStep
  <2> QED BY <1>0, <1>1, <2>1 DEF TrustCallInv, TrustedAnswerComplete
<1>12. CASE ReadDirtyAgain
  <2>1. TrustedFor(dirtyGen) \in BOOLEAN /\ (TrustedFor(dirtyGen) => trust.complete)
    BY <1>12 DEF ReadDirtyAgain, TrustedFor, TrustCallInv
  <2> QED BY <1>3, <1>12, <2>1 DEF ReadDirtyAgain
<1> QED BY <1>4, <1>5, <1>6, <1>7, <1>8, <1>9, <1>10, <1>11, <1>12 DEF TrustNext

\* A call of WatermarkTrusted that answers true is right, whatever moved between
\* its reads: at the moment it read the state the replica held every write its
\* counter counts and every write whose bump failed.
THEOREM TrustedAnswersHold ==
    ASSUME ~TornSave
    PROVE  TrustSpec => []TrustedAnswerComplete
<1>1. TrustInit => ReplicaInv /\ TrustCallInv
  BY ReplicaInit DEF TrustInit, TrustCallInv, NewTrust, TrustedAnswerComplete, Asking, Sampled, Counted,
     NoneHeld, Unconfirmed
<1>2. ReplicaInv /\ TrustCallInv /\ [TrustNext \/ EngineNext]_trustVars => (ReplicaInv /\ TrustCallInv)'
  <2> SUFFICES ASSUME ReplicaInv, TrustCallInv, [TrustNext \/ EngineNext]_trustVars
               PROVE  ReplicaInv' /\ TrustCallInv'
    OBVIOUS
  <2>1. CASE TrustNext
    <3>1. ReplicaInv'
      <4>1. CASE UNCHANGED vars
        BY <4>1, ReplicaNext
      <4>2. CASE ReadPgCounterFails
        BY <4>2, FaultIsOutside DEF ReadPgCounterFails
      <4> QED BY <2>1, <4>1, <4>2 DEF TrustNext, ReadResolved, ReadDirty, ReadPgCounter,
           ReadInflightBumps, ReadLedger, ReadState, ReadResolvedAgain, ReadDirtyAgain
    <3> QED BY <2>1, <3>1, TrustCallSteps
  <2>2. CASE EngineNext
    <3>1. ReplicaInv'
      BY <2>2, ReplicaNext DEF EngineNext
    <3> QED BY <2>2, <3>1, TrustCallAges DEF EngineNext
  <2>3. CASE UNCHANGED trustVars
    <3>1. UNCHANGED vars /\ trust' = trust
      BY <2>3 DEF trustVars
    <3>2. ReplicaInv'
      BY <3>1, ReplicaNext
    <3>3. TrustCallInv'
      BY <3>1 DEF vars, pgVars, engineVars, lifeVars, viewVars, genVars, countVars, TrustCallInv,
         TrustedAnswerComplete, NoneHeld, Unconfirmed, RetiredUpTo
    <3> QED BY <3>2, <3>3
  <2> QED BY <2>1, <2>2, <2>3
<1>3. ReplicaInv /\ TrustCallInv => TrustedAnswerComplete
  BY DEF TrustCallInv
<1> QED BY <1>1, <1>2, <1>3, PTL DEF TrustSpec
============================================================================
