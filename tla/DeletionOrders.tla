--------------------------- MODULE DeletionOrders ---------------------------
(***************************************************************************)
(* What the deletion queue promises whoever orders deletions from it,      *)
(* without works, workers, claims, prunes or restarts: a job orders the    *)
(* deletion of some addresses, once; every change of Apple's directory was *)
(* cleared, for itself alone, while an order for it stood; all open orders *)
(* of an address get one answer, a success only when the address is gone   *)
(* at Apple and forgotten here; and an order is withdrawn only when a job  *)
(* that shares its address has been revoked, never while a change of the   *)
(* address is cleared.  Module AliasDeletionQueue implements it.           *)
(***************************************************************************)
CONSTANTS Jobs, Addresses

VARIABLES
    order,      \* per job, the state of each address that it ordered deleted
    revoked,    \* the jobs that were cancelled or lost their authorisation
    cleared,    \* addresses with one mutation that is cleared and not yet sent
    directory,  \* Apple's directory: each address is active, inactive or gone
    wire,       \* addresses with a delete request that Apple may still apply
    rows        \* the addresses that are still known here

vars == <<order, revoked, cleared, directory, wire, rows>>

Open == {i \in Jobs \X Addresses : /\ i[2] \in DOMAIN order[i[1]]
                                   /\ order[i[1]][i[2]] = "open"}

Init ==
    /\ order = [j \in Jobs |-> [a \in {} |-> "open"]] /\ revoked = {} /\ cleared = {}
    /\ directory \in [Addresses -> {"active", "inactive"}]
    /\ wire = {} /\ rows = Addresses

(* Any step may revoke jobs and withdraw orders of an address that one of  *)
(* the revoked jobs names; those of a cleared address stay open.           *)
Revoke(S) ==
    /\ revoked \subseteq revoked' /\ revoked' \subseteq Jobs
    /\ \A i \in S : i[2] \notin cleared /\ \E k \in revoked' : i[2] \in DOMAIN order[k]

Withdrawn(S) == [j \in Jobs |-> [a \in DOMAIN order[j] |->
                    IF <<j, a>> \in S THEN "cancelled" ELSE order[j][a]]]

Withdraw(S) ==
    /\ Revoke(S)
    /\ order' = Withdrawn(S)
    /\ UNCHANGED <<cleared, directory, wire, rows>>

Place(S, j, A) ==
    /\ Revoke(S)
    /\ DOMAIN order[j] = {} /\ j \notin revoked'
    /\ order' = [Withdrawn(S) EXCEPT ![j] = [a \in A |-> "open"]]
    /\ UNCHANGED <<cleared, directory, wire, rows>>

(* One mutation of an address is cleared for an open order that is not     *)
(* revoked ...                                                             *)
Clear(S, a) ==
    /\ Revoke(S)
    /\ \E j \in Jobs \ revoked' : <<j, a>> \in Open \ S
    /\ order' = Withdrawn(S)
    /\ cleared' = cleared \cup {a}
    /\ UNCHANGED <<directory, wire, rows>>

(* ... and is sent, whatever was revoked since, or is given up.            *)
Mutate(a) ==
    /\ a \in cleared
    /\ cleared' = cleared \ {a}
    /\ \/ UNCHANGED <<directory, wire>>
       \/ /\ directory[a] = "active"
          /\ directory' = [directory EXCEPT ![a] = "inactive"]
          /\ UNCHANGED wire
       \/ directory' = [directory EXCEPT ![a] = "gone"] /\ UNCHANGED wire
       \/ wire' = wire \cup {a} /\ UNCHANGED directory
    /\ UNCHANGED <<order, revoked, rows>>

Lapse(A) ==
    /\ cleared' = cleared \ A
    /\ UNCHANGED <<order, revoked, directory, wire, rows>>

Apply(a) ==
    /\ a \in wire
    /\ wire' = wire \ {a}
    /\ directory' = [directory EXCEPT ![a] = "gone"]
    /\ UNCHANGED <<order, revoked, cleared, rows>>

Forget(a) ==
    /\ directory[a] = "gone"
    /\ rows' = rows \ {a}
    /\ UNCHANGED <<order, revoked, cleared, directory, wire>>

Answer(S, a, result) ==
    /\ Revoke(S)
    /\ a \notin cleared /\ \A i \in S : i[2] # a
    /\ result = "succeeded" => directory[a] = "gone" /\ a \notin rows
    /\ order' = [j \in Jobs |-> [x \in DOMAIN order[j] |->
                    IF x = a /\ order[j][x] = "open" THEN result ELSE Withdrawn(S)[j][x]]]
    /\ UNCHANGED <<cleared, directory, wire, rows>>

Next ==
    \/ \E S \in SUBSET Open :
          \/ Withdraw(S)
          \/ \E j \in Jobs, A \in SUBSET Addresses : Place(S, j, A)
          \/ \E a \in Addresses :
                Clear(S, a) \/ \E result \in {"succeeded", "failed"} : Answer(S, a, result)
    \/ \E a \in Addresses : Mutate(a) \/ Apply(a) \/ Forget(a)
    \/ \E A \in SUBSET Addresses : Lapse(A)

Spec == Init /\ [][Next]_vars
=============================================================================
