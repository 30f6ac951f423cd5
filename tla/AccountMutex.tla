---------------------------- MODULE AccountMutex ----------------------------
(***************************************************************************)
(* What the sync manager's account locks and IMAP slots promise their      *)
(* callers: an account has at most one owner, a process owns at most one   *)
(* account, only an owner connects to the mailbox, and never more than     *)
(* Slots of them at once.  Module SyncScheduler implements it with         *)
(* reference-counted lock objects in a map and a counting channel.         *)
(***************************************************************************)
EXTENDS Naturals, FiniteSets

CONSTANTS Accounts, Procs, Slots

VARIABLES
    owns,       \* pairs of a process and the account it owns
    connected   \* the processes that hold an IMAP slot

vars == <<owns, connected>>

Owners == {o[1] : o \in owns}

Init == owns = {} /\ connected = {}

Acquire(p, a) ==
    /\ p \notin Owners /\ \A o \in owns : o[2] # a
    /\ owns' = owns \cup {<<p, a>>}
    /\ UNCHANGED connected

Connect(p) ==
    /\ p \in Owners \ connected
    /\ Cardinality(connected) < Slots
    /\ connected' = connected \cup {p}
    /\ UNCHANGED owns

Release(p) ==
    /\ p \in Owners
    /\ owns' = {o \in owns : o[1] # p}
    /\ connected' = connected \ {p}

Next == \E p \in Procs : Connect(p) \/ Release(p) \/ \E a \in Accounts : Acquire(p, a)

Spec == Init /\ [][Next]_vars
=============================================================================
