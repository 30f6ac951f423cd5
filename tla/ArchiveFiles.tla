---------------------------- MODULE ArchiveFiles ----------------------------
(***************************************************************************)
(* The message contents of one account: rows of archived_messages in the   *)
(* database, .eml files in the account's directory, and the steps between  *)
(* which the two disagree.  A mailbox sync publishes files before its      *)
(* commit; a change of the mailbox source, or the account's deletion,      *)
(* moves the directory aside before its commit; eviction removes a file    *)
(* before it marks the row; a start reconciles whatever a crash left.      *)
(*                                                                         *)
(* A content is the number of the mailbox source it was fetched from: two  *)
(* sources reuse UIDVALIDITY and UID, hence paths.  Contents of one path   *)
(* have one size, the case in which only the checksum tells them apart.    *)
(***************************************************************************)
EXTENDS Naturals, FiniteSets

CONSTANTS
    Uids,           \* messages, each at its own path
    NoFile,         \* no row, no directory, no file
    ContentLimit,   \* mailArchiveLimit, in contents
    MaxSources,     \* bound on changes of the mailbox source
    MaxFaults       \* bound on crashes and failed or unconfirmed commits

\* What a path holds, the account's directory, and a row of archived_messages.
Contents == {NoFile} \cup 0..MaxSources
Directories == [Uids -> Contents]
ArchivedRows ==
    [src : 0..MaxSources, state : {"available", "missing", "evicted", "oversized"}]

ASSUME ArchiveFilesAssumption ==
    /\ ContentLimit \in Nat /\ MaxSources \in Nat \ {0} /\ MaxFaults \in Nat
    /\ NoFile \notin 0..MaxSources /\ NoFile \notin Directories /\ NoFile \notin ArchivedRows

VARIABLES
    source,         \* accounts row: the mailbox source, 0 once deleted
    records,        \* archived_messages rows: source and content_state, or NoFile
    live,           \* directory account-<id>: content of each path, or NoFile
    aside,          \* quarantined directory under .tmp, or NoFile
    writer,         \* what the holder of the account's archive mutex does
    evictor,        \* one run of EnforceMailArchiveLimit
    reader,         \* one OpenArchivedContent: the row it has read
    process,        \* "quarantines", "scan" (startup), "up", "down"
    unlinked,       \* paths eviction or a failed sync has removed the file of
    faults

archiveVars == <<source, records, live, aside, writer, evictor, reader, process,
                 unlinked, faults>>

Resting == [pc |-> "idle"]
EmptyDirectory == [m \in Uids |-> NoFile]
ContentAt(m) == IF live = NoFile THEN NoFile ELSE live[m]
Available == {m \in Uids : records[m] # NoFile /\ records[m].state = "available"}
\* The row with this id: rows are deleted only with their source.
SameRow(m, src) == records[m] # NoFile /\ records[m].src = src
Mark(m, state) == records' = [records EXCEPT ![m].state = state]
Fault == faults < MaxFaults /\ faults' = faults + 1

InitArchive ==
    /\ source = 1
    /\ records = [m \in Uids |-> NoFile]
    /\ live = NoFile /\ aside = NoFile
    /\ writer = Resting /\ evictor = Resting /\ reader = Resting
    /\ process = "up"
    /\ unlinked = {} /\ faults = 0

(***************************************************************************)
(* ApplyMailboxSync, with contents fetched from the present source or from *)
(* one the account has left since.                                         *)
(***************************************************************************)
ApplyMailboxSync ==
    /\ process = "up" /\ writer = Resting /\ source # 0
    /\ \E src \in 1..source, todo \in SUBSET Uids \ {{}}, oversized \in BOOLEAN :
          writer' = [pc |-> "stage", src |-> src, todo |-> IF oversized THEN {} ELSE todo,
                     batch |-> todo, staged |-> {}, created |-> {}]
    /\ UNCHANGED <<source, records, live, aside, evictor, reader, process, unlinked, faults>>

\* An existing file must be this very content; otherwise the path conflicts.
matchingArchiveFile(m, src) == ContentAt(m) = src

stageArchiveMessages ==
    /\ process = "up" /\ writer.pc = "stage" /\ writer.todo # {}
    /\ \E m \in writer.todo :
        \/ /\ matchingArchiveFile(m, writer.src)
           /\ writer' = [writer EXCEPT !.todo = @ \ {m}, !.staged = @ \cup {m}]
           /\ UNCHANGED <<live, unlinked>>
        \/ \* written aside, renamed into place
           /\ ContentAt(m) = NoFile
           /\ live' = [IF live = NoFile THEN EmptyDirectory ELSE live EXCEPT ![m] = writer.src]
           /\ unlinked' = IF writer.src = source THEN unlinked \ {m} ELSE unlinked
           /\ writer' = [writer EXCEPT !.todo = @ \ {m}, !.staged = @ \cup {m},
                                       !.created = @ \cup {m}]
        \/ /\ ContentAt(m) # NoFile /\ ~matchingArchiveFile(m, writer.src)
           /\ writer' = [writer EXCEPT !.pc = "cleanup"]
           /\ UNCHANGED <<live, unlinked>>
    /\ UNCHANGED <<source, records, aside, evictor, reader, process, faults>>

\* A row that has content keeps it when the message comes again without.
persistArchivedMessagesTx ==
    records' = [m \in Uids |->
        IF m \in writer.staged THEN [src |-> source, state |-> "available"]
        ELSE IF m \in writer.batch /\ records[m] = NoFile
             THEN [src |-> source, state |-> "oversized"]
             ELSE records[m]]

CommitSync ==
    /\ process = "up" /\ writer.pc = "stage" /\ writer.todo = {}
    /\ \/ \* the account version is still the expected one
          /\ writer.src = source
          /\ persistArchivedMessagesTx
          /\ \/ writer' = Resting /\ UNCHANGED faults
             \/ Fault /\ writer' = [writer EXCEPT !.pc = "cleanup"]   \* the answer is lost
       \/ /\ \/ writer.src # source /\ UNCHANGED faults
             \/ writer.src = source /\ Fault
          /\ writer' = [writer EXCEPT !.pc = "cleanup"]
          /\ UNCHANGED records
    /\ UNCHANGED <<source, live, aside, evictor, reader, process, unlinked>>

cleanupPublishedArchive ==
    /\ process = "up" /\ writer.pc = "cleanup"
    /\ live' = IF live = NoFile THEN NoFile
               ELSE [m \in Uids |-> IF m \in writer.created THEN NoFile ELSE live[m]]
    /\ unlinked' = unlinked \cup writer.created
    /\ writer' = Resting
    /\ UNCHANGED <<source, records, aside, evictor, reader, process, faults>>

(***************************************************************************)
(* UpdateAccount with another mailbox source, and DeleteAccount.           *)
(***************************************************************************)
BeginReset ==
    /\ process = "up" /\ writer = Resting /\ source # 0
    /\ \E to \in {0} \cup (IF source < MaxSources THEN {source + 1} ELSE {}) :
          writer' = [pc |-> "reset", to |-> to, moved |-> FALSE]
    /\ UNCHANGED <<source, records, live, aside, evictor, reader, process, unlinked, faults>>

quarantineMailArchiveAccount ==
    /\ process = "up" /\ writer.pc = "reset"
    /\ aside' = live /\ live' = NoFile
    /\ writer' = [writer EXCEPT !.pc = "commit", !.moved = (live # NoFile)]
    /\ UNCHANGED <<source, records, evictor, reader, process, unlinked, faults>>

\* The update's transaction holds the locks of the rows it deletes; the deletion
\* of an account is one statement.
RowsLocked == writer.pc \in {"reset", "commit"} /\ writer.to # 0

DatabaseReset ==
    /\ source' = writer.to
    /\ records' = [m \in Uids |-> NoFile]

CommitReset ==
    /\ process = "up" /\ writer.pc = "commit"
    /\ \/ DatabaseReset /\ writer' = [writer EXCEPT !.pc = "discard"] /\ UNCHANGED faults
       \/ Fault /\ DatabaseReset /\ writer' = [writer EXCEPT !.pc = "restore"]
       \/ Fault /\ writer' = [writer EXCEPT !.pc = "restore"] /\ UNCHANGED <<source, records>>
    /\ UNCHANGED <<live, aside, evictor, reader, process, unlinked>>

restore ==
    /\ process = "up" /\ writer.pc = "restore"
    /\ live' = IF writer.moved THEN aside ELSE live
    /\ aside' = NoFile
    /\ writer' = Resting
    /\ UNCHANGED <<source, records, evictor, reader, process, unlinked, faults>>

discard ==
    /\ process = "up" /\ writer.pc = "discard"
    /\ aside' = NoFile
    /\ writer' = Resting
    /\ UNCHANGED <<source, records, live, evictor, reader, process, unlinked, faults>>

(***************************************************************************)
(* EnforceMailArchiveLimit: takes no account mutex.                        *)
(***************************************************************************)
SelectOldest ==
    /\ process = "up" /\ evictor = Resting
    /\ Cardinality(Available) > ContentLimit
    /\ \E m \in Available : evictor' = [pc |-> "remove", m |-> m, src |-> records[m].src]
    /\ UNCHANGED <<source, records, live, aside, writer, reader, process, unlinked, faults>>

RemoveContent ==
    /\ process = "up" /\ evictor.pc = "remove"
    /\ live' = IF live = NoFile THEN NoFile ELSE [live EXCEPT ![evictor.m] = NoFile]
    /\ unlinked' = IF ContentAt(evictor.m) = NoFile THEN unlinked
                   ELSE unlinked \cup {evictor.m}
    /\ evictor' = [evictor EXCEPT !.pc = "mark"]
    /\ UNCHANGED <<source, records, aside, writer, reader, process, faults>>

MarkEvicted ==
    /\ process = "up" /\ evictor.pc = "mark" /\ ~RowsLocked
    /\ \/ /\ evictor.m \in Available /\ SameRow(evictor.m, evictor.src)
          /\ Mark(evictor.m, "evicted") /\ UNCHANGED faults
       \/ /\ ~(evictor.m \in Available /\ SameRow(evictor.m, evictor.src))
          /\ UNCHANGED <<records, faults>>
       \/ Fault /\ UNCHANGED records                          \* the update failed
    /\ evictor' = Resting
    /\ UNCHANGED <<source, live, aside, writer, reader, process, unlinked>>

(***************************************************************************)
(* OpenArchivedContent, after the row has been read.                       *)
(***************************************************************************)
ReadRow ==
    /\ process = "up" /\ reader = Resting
    /\ \E m \in Available : reader' = [pc |-> "open", m |-> m, src |-> records[m].src]
    /\ UNCHANGED <<source, records, live, aside, writer, evictor, process, unlinked, faults>>

OpenArchivedContent ==
    /\ process = "up" /\ reader.pc = "open"
    /\ reader' = IF ContentAt(reader.m) = reader.src THEN Resting
                 ELSE [reader EXCEPT !.pc = "missing"]
    /\ UNCHANGED <<source, records, live, aside, writer, evictor, process, unlinked, faults>>

markArchivedContentMissing ==
    /\ process = "up" /\ reader.pc = "missing" /\ ~RowsLocked
    /\ IF reader.m \in Available /\ SameRow(reader.m, reader.src)
       THEN Mark(reader.m, "missing") ELSE UNCHANGED records
    /\ reader' = Resting
    /\ UNCHANGED <<source, live, aside, writer, evictor, process, unlinked, faults>>

(***************************************************************************)
(* A crash, and the reconciliation every start begins with.                *)
(***************************************************************************)
CrashArchive ==
    /\ process # "down" /\ Fault
    /\ process' = "down"
    /\ writer' = Resting /\ evictor' = Resting /\ reader' = Resting
    /\ UNCHANGED <<source, records, live, aside, unlinked>>

Restart ==
    /\ process = "down" /\ process' = "quarantines"
    /\ UNCHANGED <<source, records, live, aside, writer, evictor, reader, unlinked, faults>>

\* A directory published since, or no row left: the move was committed.
Obsolete_Always == TRUE
Obsolete == live # NoFile \/ \A m \in Uids : records[m] = NoFile

reconcileMailArchiveQuarantines ==
    /\ process = "quarantines"
    /\ live' = IF aside # NoFile /\ ~Obsolete THEN aside ELSE live
    /\ aside' = NoFile
    /\ process' = "scan"
    /\ UNCHANGED <<source, records, writer, evictor, reader, unlinked, faults>>

ReconcileMailArchive ==
    /\ process = "scan"
    /\ records' = [m \in Uids |->
          IF m \in Available /\ ContentAt(m) = NoFile
          THEN [records[m] EXCEPT !.state = "missing"] ELSE records[m]]
    /\ process' = "up"
    /\ UNCHANGED <<source, live, aside, writer, evictor, reader, unlinked, faults>>

NextArchive ==
    \/ ApplyMailboxSync \/ stageArchiveMessages \/ CommitSync \/ cleanupPublishedArchive
    \/ BeginReset \/ quarantineMailArchiveAccount \/ CommitReset \/ restore \/ discard
    \/ SelectOldest \/ RemoveContent \/ MarkEvicted
    \/ ReadRow \/ OpenArchivedContent \/ markArchivedContentMissing
    \/ CrashArchive \/ Restart \/ reconcileMailArchiveQuarantines \/ ReconcileMailArchive

ArchiveSpec == InitArchive /\ [][NextArchive]_archiveVars

\* No crash, failed commit or restart, in whatever order they meet syncs and changes
\* of the source, loses or exchanges an archived content: when no sync, update or
\* deletion is in progress, a row whose content was archived has exactly that content
\* at its path, unless eviction, or a sync that saw its commit fail, unlinked it.
ContentKept ==
    process = "up" /\ writer = Resting =>
        \A m \in Uids :
            records[m] # NoFile /\ records[m].state \in {"available", "missing"}
                => ContentAt(m) = records[m].src \/ m \in unlinked
=============================================================================
