------------------------------- MODULE Startup -------------------------------
(***************************************************************************)
(* Processes that start on one installation, together or one after the     *)
(* other, each able to stop between any two steps: the master key is taken *)
(* from the environment or from the key file, which the first process      *)
(* publishes; the schema is migrated; then one transaction under an        *)
(* advisory lock verifies the key against the database, imports a legacy   *)
(* SQLite file, authenticates every stored ciphertext and binds the key.   *)
(* A ciphertext is the key it was sealed with.                             *)
(***************************************************************************)
EXTENDS Naturals, FiniteSets

CONSTANTS
    Processes,      \* servers, verification and reset commands
    Unset,          \* no key, no lock holder
    SchemaVersion,  \* schemaVersion
    OldestVersion,  \* first PostgreSQL schema with a migration path
    MaxKeys         \* bound on generated keys; key 1 is the installation's old one

ASSUME StartupAssumption ==
    /\ Unset \notin Processes /\ Unset \notin Nat
    /\ SchemaVersion \in Nat /\ OldestVersion \in 1..SchemaVersion
    /\ MaxKeys \in Nat \ {0}

VARIABLES
    keyFile,        \* content of the key file
    environment,    \* ICLOUD_API_MASTER_KEY of the processes that start
    schema,         \* schema_migrations.version
    fingerprint,    \* app_metadata master_key_fingerprint_v1
    sealed,         \* keys under which PostgreSQL rows are sealed
    imported,       \* data_migrations marker of the legacy import
    legacy,         \* the legacy SQLite file: present, version of its content
    starting,       \* each process: pc, key, what it has seen of the legacy file
    lifecycle,      \* holder of the master key advisory lock
    keys            \* keys generated so far

startupVars == <<keyFile, environment, schema, fingerprint, sealed, imported, legacy,
                 starting, lifecycle, keys>>

Stopped == [pc |-> "stopped", key |-> Unset]

\* A new installation, one with a legacy file and the key of its data, or a database
\* older than fingerprints.  The environment may name that key, a wrong one, or none.
InitStartup ==
    /\ keys = 1
    /\ \E old \in BOOLEAN, file \in BOOLEAN, version \in {0} \cup OldestVersion..(SchemaVersion + 1) :
        /\ legacy = [present |-> file, content |-> 1]
        /\ schema = version
        /\ sealed = IF version # 0 /\ old THEN {1} ELSE {}
        /\ keyFile \in IF old \/ file THEN {1, Unset} ELSE {Unset}
    /\ environment \in {Unset, 0, 1}
    /\ fingerprint = Unset
    /\ imported = FALSE
    /\ starting = [p \in Processes |-> Stopped]
    /\ lifecycle = Unset

Move(p, pc) == starting' = [starting EXCEPT ![p].pc = pc]
Fails(p) == starting' = [starting EXCEPT ![p] = Stopped]

(***************************************************************************)
(* LoadOrCreateMasterKey                                                   *)
(***************************************************************************)
LoadOrCreateMasterKey(p) ==
    /\ starting[p].pc = "stopped"
    /\ IF environment # Unset \/ keyFile # Unset
       THEN /\ starting' = [starting EXCEPT ![p] =
                   [pc |-> "open", key |-> IF environment # Unset THEN environment ELSE keyFile]]
            /\ UNCHANGED keys
       ELSE /\ keys < MaxKeys /\ keys' = keys + 1
            /\ starting' = [starting EXCEPT ![p] = [pc |-> "publish", key |-> keys + 1]]
    /\ UNCHANGED <<keyFile, environment, schema, fingerprint, sealed, imported, legacy, lifecycle>>

\* A hard link: it never replaces a file, and the loser takes what it finds.
publishMasterKey_Renames(p) ==
    /\ keyFile' = starting[p].key
    /\ starting' = [starting EXCEPT ![p] = [pc |-> "open", key |-> keyFile']]
publishMasterKey(p) ==
    /\ keyFile' = IF keyFile = Unset THEN starting[p].key ELSE keyFile
    /\ starting' = [starting EXCEPT ![p] = [pc |-> "open", key |-> keyFile']]

Publish(p) ==
    /\ starting[p].pc = "publish"
    /\ publishMasterKey(p)
    /\ UNCHANGED <<environment, schema, fingerprint, sealed, imported, legacy, lifecycle, keys>>

(***************************************************************************)
(* migratePostgres: one transaction under its own advisory lock.           *)
(***************************************************************************)
migratePostgres(p) ==
    /\ starting[p].pc = "open"
    /\ IF schema = 0 \/ schema \in OldestVersion..SchemaVersion
       THEN schema' = SchemaVersion /\ Move(p, "migrated")
       ELSE UNCHANGED schema /\ Fails(p)
    /\ UNCHANGED <<keyFile, environment, fingerprint, sealed, imported, legacy, lifecycle, keys>>

(***************************************************************************)
(* InitializeMasterKeyWithLegacySQLite                                     *)
(***************************************************************************)
beginMasterKeyLifecycleTx == lifecycle = Unset

Matches(key) == fingerprint = Unset \/ fingerprint = key

\* Size, time and sidecars of the file, before it is read.
inspectLegacySQLiteSource == legacy.content

\* The stored fingerprint, the import marker and the legacy file, as the
\* transaction finds them.
verifyStoredMasterKeyTx(p) ==
    /\ starting[p].pc = "migrated" /\ beginMasterKeyLifecycleTx
    /\ IF Matches(starting[p].key)
       THEN /\ lifecycle' = p
            /\ starting' = [starting EXCEPT ![p] =
                  [pc |-> "verified", key |-> starting[p].key, bound |-> fingerprint # Unset,
                   copy |-> ~imported /\ legacy.present, seen |-> inspectLegacySQLiteSource]]
       ELSE UNCHANGED lifecycle /\ Fails(p)
    /\ UNCHANGED <<keyFile, environment, schema, fingerprint, sealed, imported, legacy, keys>>

\* The import refuses a database that has rows, a row the key does not open, and a
\* source that changed, its sidecar files included, while it was read.
TargetIsEmpty == sealed = {}
validateLegacySQLiteCiphertext(p) == starting[p].key = 1
verifyLegacySQLiteSourceUnchanged(p) == legacy.content = starting[p].seen

importLegacySQLite(p) == starting[p].copy =>
    /\ TargetIsEmpty
    /\ validateLegacySQLiteCiphertext(p)
    /\ verifyLegacySQLiteSourceUnchanged(p)

validateStoredCiphertexts(p) ==
    ~starting[p].bound \/ starting[p].copy => sealed \subseteq {starting[p].key}

\* INSERT ... ON CONFLICT DO NOTHING, and the comparison with what it reads back; a
\* database that was bound when the transaction began is not bound again.
compareMasterKeyFingerprint(p) == starting[p].bound \/ Matches(starting[p].key)

bindMasterKeyFingerprintTx(p) ==
    fingerprint' = IF fingerprint = Unset THEN starting[p].key ELSE fingerprint

CommitInitialization(p) ==
    /\ starting[p].pc = "verified"
    /\ IF /\ importLegacySQLite(p) /\ validateStoredCiphertexts(p)
          /\ compareMasterKeyFingerprint(p)
       THEN /\ bindMasterKeyFingerprintTx(p)
            /\ sealed' = IF starting[p].copy THEN {1} ELSE sealed
            /\ imported' = (imported \/ starting[p].copy)
            /\ Move(p, "opened")
       ELSE Fails(p) /\ UNCHANGED <<fingerprint, sealed, imported>>
    /\ lifecycle' = Unset
    /\ UNCHANGED <<keyFile, environment, schema, legacy, keys>>

\* Missing alias credentials are issued, the archive is reconciled and its limit
\* enforced before anything is served; a failure ends the start.
openInitializedStore(p) ==
    /\ starting[p].pc = "opened"
    /\ sealed' \in {sealed, sealed \cup {starting[p].key}}
    /\ Move(p, "running") \/ Fails(p)
    /\ UNCHANGED <<keyFile, environment, schema, fingerprint, imported, legacy, lifecycle, keys>>

(***************************************************************************)
(* A running process seals what it stores; every process may stop; the old *)
(* server may still write its file; the operator may change the            *)
(* environment between starts.                                             *)
(***************************************************************************)
StoreSecret(p) ==
    /\ starting[p].pc = "running"
    /\ sealed' = sealed \cup {starting[p].key}
    /\ UNCHANGED <<keyFile, environment, schema, fingerprint, imported, legacy, starting,
                   lifecycle, keys>>

StopProcess(p) ==
    /\ starting[p].pc # "stopped"
    /\ Fails(p)
    /\ lifecycle' = IF lifecycle = p THEN Unset ELSE lifecycle
    /\ UNCHANGED <<keyFile, environment, schema, fingerprint, sealed, imported, legacy, keys>>

LegacyWrites ==
    /\ legacy.present /\ legacy.content < 2
    /\ legacy' = [legacy EXCEPT !.content = @ + 1]
    /\ UNCHANGED <<keyFile, environment, schema, fingerprint, sealed, imported, starting,
                   lifecycle, keys>>

ChangeEnvironment ==
    /\ environment' \in {Unset, 0, 1}
    /\ UNCHANGED <<keyFile, schema, fingerprint, sealed, imported, legacy, starting,
                   lifecycle, keys>>

NextStartup ==
    \/ \E p \in Processes :
        \/ LoadOrCreateMasterKey(p) \/ Publish(p) \/ migratePostgres(p)
        \/ verifyStoredMasterKeyTx(p) \/ CommitInitialization(p)
        \/ openInitializedStore(p) \/ StoreSecret(p) \/ StopProcess(p)
    \/ LegacyWrites \/ ChangeEnvironment

StartupSpec == InitStartup /\ [][NextStartup]_startupVars

\* However starts, crashes and keys meet, the data stays readable: once a key is
\* bound, every stored secret is sealed with it, every running process holds it, and
\* the installation still has it: in its key file, or given by the operator.
DataStaysReadable ==
    fingerprint # Unset =>
        /\ sealed \subseteq {fingerprint}
        /\ \A p \in Processes : starting[p].pc \in {"opened", "running"} => starting[p].key = fingerprint
        /\ fingerprint \in {keyFile, 0, 1}
=============================================================================
