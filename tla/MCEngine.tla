------------------------------ MODULE MCEngine ------------------------------
(* Small instances of the engine.                                           *)
EXTENDS Engine, TLC

CONSTANTS r1, r2, w1, w2

\* Every write writes the one row.
OneRow == [w \in Write |-> {r1}]

\* Writes of one row are interchangeable.
WriteSymmetry == Permutations(Write)

(* Bound: two saves and a fault, or one save and two faults, around one      *)
(* transaction; one save around two of it, a batch and a foreign write,       *)
(* without faults; or faults around the batch alone.  Queries only in the     *)
(* simplest.                                                                *)
FaultsOrWriters ==
    /\ \/ ws[w2].pc = "idle" /\ used.external = 0 /\ used.faults + used.saves <= 3
       \/ /\ used.faults = 0 /\ used.saves <= 1
          /\ ws[w1].pc = "idle" \/ ws[w2].pc = "idle" \/ used.external = 0
       \/ ws[w1].pc = "idle" /\ used.external + used.saves + used.crashes = 0
    /\ \/ query.pc = "idle"
       \/ ws[w2].pc = "idle" /\ used.external + used.saves + used.crashes + used.faults = 0
============================================================================
