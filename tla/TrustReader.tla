----------------------------- MODULE TrustReader -----------------------------
(***************************************************************************)
(* WatermarkTrusted (watermark.go) against a live engine: the generations, *)
(* PostgreSQL's counter, the bumps in flight, the ledger, the state, and   *)
(* the generations again, each read at its own moment while writes,        *)
(* rebuilds and adoptions go on around the call.                           *)
(***************************************************************************)
EXTENDS Engine

\* The call's own samples; complete is history: whether, when the state was
\* read, the replica held everything the answer vouches for.
VARIABLE trust
trustVars == <<vars, trust>>

NewTrust == [pc |-> "idle", resolved |-> 0, dirty |-> 0, counter |-> 0, inflight |-> 0,
             converged |-> FALSE, serving |-> FALSE, again |-> 0, complete |-> FALSE]

TrustStep(from, to, samples) == trust.pc = from /\ trust' = [samples EXCEPT !.pc = to]
Answer(trusted) == [NewTrust EXCEPT !.pc = IF trusted THEN "trusted" ELSE "distrusted",
                                    !.complete = trusted /\ trust.complete]

\* watermarkGens reads the resolved generation first, the noted one after it.
\* The call is made by one that would stamp the view it finds.
ReadResolved ==
    /\ up /\ snap # Null
    /\ TrustStep("idle", "dirty", [trust EXCEPT !.resolved = resolvedGen])
    /\ UNCHANGED vars

\* Generations that differ answer at once, without the round trip.
ReadDirty ==
    /\ \/ /\ dirtyGen = trust.resolved
          /\ TrustStep("dirty", "counter", [trust EXCEPT !.dirty = dirtyGen])
       \/ /\ dirtyGen # trust.resolved
          /\ trust.pc = "dirty" /\ trust' = Answer(FALSE)
    /\ UNCHANGED vars

ReadPgCounter ==
    /\ TrustStep("counter", "inflight", [trust EXCEPT !.counter = pgCounter])
    /\ UNCHANGED vars

\* A counter that cannot be read proves no convergence, whatever is read next.
ReadPgCounterFails ==
    /\ trust.pc = "counter" /\ trust' = Answer(FALSE)
    /\ Fault
    /\ UNCHANGED <<pgVars, file, engineVars, loop, load, ws, building, save, query, acked>>

ReadInflightBumps ==
    /\ ~RebaseMuWriteHeld
    /\ TrustStep("inflight", "ledger", [trust EXCEPT !.inflight = inflight])
    /\ UNCHANGED vars

ReadLedger ==
    /\ TrustStep("ledger", "state",
                 [trust EXCEPT !.converged = Converged(trust.counter, trust.inflight)])
    /\ UNCHANGED vars

\* What a true answer vouches for, at the moment the state is read: the writes
\* counted at or below the counter, and every durable write that has no
\* counter.  Apply resolves a counter before it publishes, and a write in
\* between is its own business.
Vouched(w) == MaxOf(ws[w].counter, ws[w].reply) <= trust.counter
HoldsVouched ==
    \A w \in Write : Vouched(w) /\ ~Applying(w) =>
        \A r \in DurableRows(w) : snap[r] >= ws[w].ver[r]

ReadState ==
    /\ TrustStep("state", "resolvedAgain",
                 [trust EXCEPT !.serving = Serving, !.complete = HoldsVouched])
    /\ UNCHANGED vars

ReadResolvedAgain ==
    /\ TrustStep("resolvedAgain", "dirtyAgain", [trust EXCEPT !.again = resolvedGen])
    /\ UNCHANGED vars

\* Broken on purpose: one sample of the generations, taken before the reads.
SampledOnce(dirty) == trust.converged /\ trust.serving

\* watermarkTrustedFor, over samples that must not have moved.
TrustedFor(dirty) ==
    /\ dirty = trust.dirty /\ trust.again = trust.resolved
    /\ trust.dirty = trust.resolved /\ trust.converged /\ trust.serving

ReadDirtyAgain ==
    /\ trust.pc = "dirtyAgain" /\ trust' = Answer(TrustedFor(dirtyGen))
    /\ UNCHANGED vars

TrustNext ==
    \/ ReadResolved \/ ReadDirty \/ ReadPgCounter \/ ReadPgCounterFails \/ ReadInflightBumps
    \/ ReadLedger \/ ReadState \/ ReadResolvedAgain \/ ReadDirtyAgain

\* A read lock on watermarkRebaseMu spans the two loads, so no adoption begins
\* between them.  A process that ends takes the call with it.
TrustInit == Init /\ trust = NewTrust
EngineNext ==
    /\ Next
    /\ trust.pc = "ledger" => ~RebaseMuWriteHeld'
    /\ trust' = IF up' THEN trust ELSE NewTrust

TrustSpec == TrustInit /\ [][TrustNext \/ EngineNext]_trustVars
-----------------------------------------------------------------------------
\* WatermarkTrusted: a true answer means the replica held, at the moment the
\* state was read, every write the counter counts and every write whose bump
\* failed before the call read its last sample.
TrustedAnswerComplete == trust.pc = "trusted" => trust.complete
==============================================================================
