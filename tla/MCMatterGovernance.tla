------------------------ MODULE MCMatterGovernance -------------------------
(* Instances of MatterGovernance for TLC. *)
EXTENDS MatterGovernance, TLC

CONSTANTS owner, reviewer, second

MCRole == (owner :> "owner") @@ (reviewer :> "reviewer") @@ (second :> "reviewer")

Symmetry == Permutations(Clients) \cup Permutations(Snapshots) \cup Permutations(Outputs)

\* After a fault one snapshot at most is sealed.
Small == faults = 0 \/ \E s \in Snapshots : snapshot[s] = None
=============================================================================
