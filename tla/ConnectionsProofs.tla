---- MODULE ConnectionsProofs ----
(* Proofs about Connections, for any writers, readers and pool sizes: waiting  *)
(* runs one way and closing the pool costs no file. ConnInv is inductive: it   *)
(* adds the types, ties every connection and applyMu to the step its holder is *)
(* at, and ties the closed pool to the end of the shutdown.                    *)
EXTENDS Connections, TLAPS

PCs == {"start", "bump", "bumpWait", "bumpRun", "write", "lock", "rbWait", "rbRun", "done", "hydrate", "hydrating"}

ConnType ==
    /\ pc \in [Writers \cup Readers -> PCs]
    /\ pool \in [Writers -> {"main", "write"}]
    /\ left \in [Writers -> Int]
    /\ onMain \subseteq Writers \cup Readers
    /\ onWrite \subseteq Writers
    /\ applyMu \subseteq Writers
    /\ closed \in BOOLEAN /\ lost \in BOOLEAN

\* What is held while the pool is open, by the step of its holder.
HeldInv ==
    /\ \A w \in onWrite : pc[w] \in {"bumpRun", "rbRun"}
    /\ \A w \in applyMu : pc[w] \in {"rbWait", "rbRun"}
    /\ ~closed => /\ \A w \in Writers : pc[w] \in {"bumpWait", "rbWait", "rbRun"} => pool[w] = "write"
                  /\ onMain \subseteq Readers

\* The pool closes at the end of the shutdown, and is missed only after that.
ClosedInv ==
    /\ closed => sd = "closed"
    /\ lost => closed

ConnInv == ConnType /\ HeldInv /\ ClosedInv

\* Nothing is held and nothing is closed at first.
LEMMA InitConnInv == Init => ConnInv
<1> SUFFICES ASSUME Init PROVE ConnInv
  OBVIOUS
<1>1. ConnType
  <2>1. closed \in BOOLEAN /\ lost \in BOOLEAN
    BY Zenon DEF Init
  <2>2. pc \in [Writers \cup Readers -> PCs]
    BY DEF Init, PCs
  <2>3. pool \in [Writers -> {"main", "write"}] /\ left \in [Writers -> Int]
    BY DEF Init
  <2>4. onMain \subseteq Writers \cup Readers /\ onWrite \subseteq Writers /\ applyMu \subseteq Writers
    BY Zenon DEF Init
  <2>. QED
    BY <2>1, <2>2, <2>3, <2>4 DEF ConnType
<1>2. HeldInv
  <2>1. \A w \in Writers : pc[w] = "start"
    BY DEF Init
  <2>. QED
    BY <2>1 DEF Init, HeldInv
<1>3. ClosedInv
  BY DEF Init, ClosedInv
<1>. QED
  BY <1>1, <1>2, <1>3 DEF ConnInv

\* The steps of a write keep the invariant: bumps and read-backs get the write
\* path's pool while it is open (writePathPool.get).
LEMMA WriteConnInv ==
    ASSUME ConnInv, NEW w \in Writers, Write(w)
    PROVE  ConnInv'
<1> USE DEF ConnInv, ConnType, HeldInv, ClosedInv, PCs, Goes
<1>1. CASE BumpWatermark(w)
  BY <1>1 DEF BumpWatermark, Get
<1>2. CASE BumpAcquires(w)
  BY <1>2 DEF BumpAcquires, Acquire
<1>3. CASE BumpReturns(w)
  BY <1>3 DEF BumpReturns, Release
<1>4. CASE BumpFails(w)
  <2>1. ConnType'
    BY <1>4 DEF BumpFails
  <2>2. HeldInv'
    BY <1>4 DEF BumpFails
  <2>3. ClosedInv'
    BY <1>4 DEF BumpFails
  <2>. QED
    BY <2>1, <2>2, <2>3
<1>5. CASE Commit(w)
  BY <1>5 DEF Commit
<1>6. CASE Apply(w)
  <2>1. ConnType'
    <3>1. Get \in {"main", "write"}
      BY DEF Get
    <3>2. left' \in [Writers -> Int]
      BY <1>6, ConnectionsAssumption DEF Apply
    <3>. QED
      BY <1>6, <3>1, <3>2 DEF Apply
  <2>2. HeldInv'
    <3>1. ~closed => pool'[w] = "write"
      BY <1>6 DEF Apply, Get
    <3>2. pc'[w] = "rbWait" /\ w \notin onWrite /\ applyMu' = {w}
      BY <1>6 DEF Apply
    <3>. QED
      BY <1>6, <3>1, <3>2 DEF Apply
  <2>3. ClosedInv'
    BY <1>6 DEF Apply
  <2>. QED
    BY <2>1, <2>2, <2>3
<1>7. CASE ReadBackAcquires(w)
  BY <1>7 DEF ReadBackAcquires, Acquire
<1>8. CASE ReadBackReturns(w)
  BY <1>8 DEF ReadBackReturns, Release, Applied
<1>9. CASE ReadBackFails(w)
  BY <1>9 DEF ReadBackFails, Applied
<1>. QED
  BY <1>1, <1>2, <1>3, <1>4, <1>5, <1>6, <1>7, <1>8, <1>9 DEF Write

\* Served reads only use BloodHound's pool (hydrate.go).
LEMMA ReadConnInv ==
    ASSUME ConnInv, NEW r \in Readers, Read(r)
    PROVE  ConnInv'
<1> USE DEF ConnInv, ConnType, HeldInv, ClosedInv, PCs, Goes
<1>1. CASE Hydrate(r)
  BY <1>1 DEF Hydrate
<1>2. CASE Hydrated(r)
  BY <1>2 DEF Hydrated
<1>. QED
  BY <1>1, <1>2 DEF Read

\* Driver.Close closes the pool last (boot.go CloseWritePool).
LEMMA CloseConnInv ==
    ASSUME ConnInv, Stop \/ Close
    PROVE  ConnInv'
<1> USE DEF ConnInv, ConnType, HeldInv, ClosedInv
<1>1. CASE Stop
  BY <1>1 DEF Stop
<1>2. CASE SaveProbe
  BY <1>2 DEF SaveProbe
<1>3. CASE SaveCommit
  BY <1>3 DEF SaveCommit
<1>4. CASE CloseWritePool
  BY <1>4 DEF CloseWritePool
<1>. QED
  BY <1>1, <1>2, <1>3, <1>4 DEF Close

\* Every step of the system keeps the invariant (writepool.go).
LEMMA NextConnInv ==
    ASSUME ConnInv, [Next]_vars
    PROVE  ConnInv'
<1>1. ASSUME NEW p \in Writers \cup Readers, Begin(p)
      PROVE  ConnInv'
  BY <1>1 DEF Begin, Goes, ConnInv, ConnType, HeldInv, ClosedInv, PCs
<1>2. ASSUME NEW r \in Readers, RequestCancelled(r)
      PROVE  ConnInv'
  BY <1>2 DEF RequestCancelled, Goes, ConnInv, ConnType, HeldInv, ClosedInv, PCs
<1>3. CASE UNCHANGED vars
  BY <1>3 DEF vars, ConnInv, ConnType, HeldInv, ClosedInv
<1>. QED
  BY <1>1, <1>2, <1>3, WriteConnInv, ReadConnInv, CloseConnInv DEF Due, Next

\* The inductive invariant holds in every state (writepool.go).
LEMMA AlwaysConnInv == Spec => []ConnInv
  BY InitConnInv, NextConnInv, PTL DEF Spec

\* Until the write path's pool closes, no writer that holds a connection or
\* applyMu waits for BloodHound's pool (writepool.go).
THEOREM WaitsRunOneWayHolds == Spec => []WaitsRunOneWay
<1>1. ConnInv => WaitsRunOneWay
  BY DEF ConnInv, HeldInv, WaitsRunOneWay
<1>. QED
  BY <1>1, AlwaysConnInv, PTL

\* A bump or read-back that found its pool closed did so after the shutdown's
\* save (driver.go Close).
THEOREM ClosingCostsNoFileHolds == Spec => []ClosingCostsNoFile
<1>1. ConnInv => ClosingCostsNoFile
  BY DEF ConnInv, ClosedInv, ClosingCostsNoFile
<1>. QED
  BY <1>1, AlwaysConnInv, PTL
====
