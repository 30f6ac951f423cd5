------------------------ MODULE MCAliasDeletionQuota ------------------------
(* A small instance: the attempts compete for the slot of one principal.   *)
(* Attempts are interchangeable, and no property is a liveness property,   *)
(* so symmetry is sound.                                                   *)
EXTENDS AliasDeletionQuota, TLC

MCPrincipalOf == [l \in Leases |-> CHOOSE p \in Principals : TRUE]

Symmetry == Permutations(Leases)
=============================================================================
