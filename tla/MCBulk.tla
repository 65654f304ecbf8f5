------------------------------- MODULE MCBulk --------------------------------
(* Small instances of Bulk for TLC.                                        *)
EXTENDS Bulk, TLC

(* For liveness: one request of each kind that is admitted.                *)
Admitted == {r \in bulkRequest : r.head = "good" /\ r.body \in {"none", "documents"}}

Symmetry == Permutations(Handler)

=============================================================================
