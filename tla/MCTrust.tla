------------------------------- MODULE MCTrust -------------------------------
(* A small instance of TrustReader: a transaction and a batch that race on r1; *)
(* the batch also writes r2.                                                   *)
EXTENDS TrustReader, TLC

CONSTANTS r1, r2, w1, w2

SharedRow == w1 :> {r1} @@ w2 :> {r1, r2}

(* Bound: a query is watched when a write was acknowledged before it; the call *)
(* of WatermarkTrusted watches the transaction alone, and no query with it.    *)
OneWatcher ==
    \/ trust.pc = "idle" /\ (query.pc = "idle" \/ \E r \in Row : query.floor[r] > 0)
    \/ query.pc = "idle" /\ ws[w2].pc = "idle"
==============================================================================
