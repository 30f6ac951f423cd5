------------------------ MODULE MCAliasDeletionQueue ------------------------
(* Instances of the deletion queue: jobs of one or two administrators over *)
(* one or two addresses of one Apple identity, and a job of an older       *)
(* release.  Jobs of one administrator are interchangeable as long as no   *)
(* liveness is checked.                                                    *)
EXTENDS AliasDeletionQueue, TLC

CONSTANTS j1, j2, old, adm, adm2, a, b, s1

MCOwnerOf == [j \in Jobs |-> adm]
TwoOwners == [j \in Jobs |-> IF j = j2 THEN adm2 ELSE adm]
MCSubjectOf == [x \in Addresses |-> s1]
MCListed == [x \in Addresses |-> IF x = a THEN "active" ELSE "inactive"]
OneAddress == {<<a>>}
TwoAddresses == {<<a, b>>, <<b>>}
Symmetry == Permutations(Jobs \ LegacyJobs)
=============================================================================
