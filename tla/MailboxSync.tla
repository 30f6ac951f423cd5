---------------------------- MODULE MailboxSync -----------------------------
(***************************************************************************)
(* One upstream account: the incremental IMAP sync (syncer/manager.go,     *)
(* mail/archive_fetcher_v2.go), the transactions that publish its result   *)
(* (store/imap_sync.go, store/archive.go), the configuration changes that  *)
(* invalidate it (store/account.go, store/alias.go), the one-time read of  *)
(* the latest message (httpserver/legacy_mail.go, store/seen.go) and the   *)
(* worker that marks read messages \Seen (syncer/seen_worker.go,           *)
(* mail/seen.go).                                                          *)
(*                                                                         *)
(* Every store function is one transaction under the account's row lock.   *)
(* A fetch is one IMAP session on a stable view of the mailbox; module     *)
(* ArchiveDiscovery shows how it gets that view.  Abstractions: a message  *)
(* is its UID, its recipients and its \Seen flag; updated_at and the sync  *)
(* times are a version counter, as publications never share a time; the    *)
(* administrator changes to a mailbox source that was not used before.  A  *)
(* definition Op_Flaw is a faulty Op, used only to test the properties.    *)
(***************************************************************************)
EXTENDS Naturals, Sequences, FiniteSets, FiniteSetsExt, SequencesExt

CONSTANTS
    Aliases,      \* alias rows
    Enabled0,     \* the aliases that are enabled at first
    Recipients,   \* the sets of aliases a message may be addressed to
    Window,       \* maxCandidates: recent messages kept by a reset
    Batch,        \* maxIncrementalCandidates: messages of one increment
    Exclusive,    \* whether configuration changes take the account lock
    MaxSource,    \* bound on mailbox sources (endpoint and username)
    MaxUIDValidity, MaxUID,   \* bounds on the upstream mailboxes
    MaxVersion    \* bound on account versions

ASSUME SyncAssumption ==
    /\ Enabled0 \subseteq Aliases
    /\ Recipients \subseteq SUBSET Aliases
    /\ Exclusive \in BOOLEAN
    /\ {Window, Batch, MaxSource, MaxUIDValidity, MaxUID, MaxVersion} \subseteq Nat \ {0}

VARIABLES
    box,        \* the INBOX of every source
    account,    \* accounts: source, enabled and updated_at
    alias,      \* aliases: state, last_sync_status, last_synced_at, mailbox UIDs
    cursor,     \* imap_sync_states
    link,       \* archived_messages with their alias_messages
    latest,     \* latest_messages
    consumed,   \* consumed_messages
    tasks,      \* imap_seen_tasks
    lock,       \* who holds the in-process account lock
    sync,       \* syncAccountLocked
    reader,     \* a recentMail request
    seen,       \* the SeenWorker
    floor,      \* history: the boundary of the last reset
    given,      \* history: the messages returned to clients
    published,  \* history: every message ever shown under a mailbox UID
    marked      \* history: the messages the worker set \Seen

upstream == <<box>>
tables == <<account, alias, cursor, link, latest, consumed, tasks>>
procs == <<lock, sync, reader, seen>>
history == <<floor, given, published, marked>>
vars == <<upstream, tables, procs, history>>

NoCursor == [gen |-> 0, last |-> 0]
NoMessage == [gen |-> 0, uid |-> 0, at |-> 0, from |-> 0]
NoReader == [alias |-> {}, message |-> NoMessage, at |-> 0]
NoSync == [step |-> "idle"]
NoWork == [step |-> "idle", batch |-> {}, source |-> 0]

Source == account.source
Inbox(s) == box[s].messages
Enabled == {a \in Aliases : alias[a].state = "enabled"}

-----------------------------------------------------------------------------
(* The fetcher, as a function of the mailbox it selects.                   *)
Upper(s) == box[s].next - 1

(* UIDs of the k oldest members of U.                                      *)
Oldest(U, k) == {u \in U : Cardinality({v \in U : v <= u}) <= k}

(* establishArchiveRecentCursor *)
RecentCursor(s) ==
    LET U == {m.uid : m \in Inbox(s)}
        n == Cardinality(U)
    IN  CASE n = 0 -> [last |-> Upper(s), more |-> FALSE]
          [] n \in 1 .. Window -> [last |-> 0, more |-> TRUE]
          [] OTHER -> [last |-> Max(Oldest(U, n - Window)), more |-> TRUE]

(* discoverArchiveUIDs *)
Discovered_ThroughUpper(s, last) ==
    LET U == {u \in {m.uid : m \in Inbox(s)} : u > last}
    IN  [uids |-> Oldest(U, Batch), last |-> Upper(s), more |-> Cardinality(U) > Batch]
Discovered(s, last) ==
    LET U == {u \in {m.uid : m \in Inbox(s)} : u > last}
        B == Oldest(U, Batch)
    IN  IF Upper(s) - last <= Batch \/ B = U
        THEN [uids |-> U, last |-> Upper(s), more |-> FALSE]
        ELSE [uids |-> B, last |-> Max(B), more |-> TRUE]

(* fetchArchiveIncremental, without its errors.                            *)
FetchResult(s, previous, enabled, positions) ==
    LET gen == box[s].gen
        reset == previous.gen # gen
        found == IF reset \/ enabled = {} \/ previous.last = Upper(s)
                 THEN [uids |-> {}, last |-> Upper(s), more |-> FALSE]
                 ELSE Discovered(s, previous.last)
        recent == RecentCursor(s)
    IN  [reset |-> reset, gen |-> gen,
         last |-> IF reset /\ enabled # {} THEN recent.last ELSE found.last,
         more |-> IF reset /\ enabled # {} THEN recent.more ELSE found.more,
         messages |-> {m \in Inbox(s) : m.uid \in found.uids /\ m.to \cap enabled # {}},
         empty |-> {a \in Aliases : /\ positions[a] # NoMessage
                                    /\ \/ positions[a].gen # gen
                                       \/ positions[a].uid \notin {m.uid : m \in Inbox(s)}}]

-----------------------------------------------------------------------------
Init ==
    /\ box = [s \in 1 .. MaxSource |-> [gen |-> 1, next |-> 1, messages |-> {}]]
    /\ account = [source |-> 1, enabled |-> TRUE, version |-> 1]
    /\ alias = [a \in Aliases |-> [state |-> IF a \in Enabled0 THEN "enabled" ELSE "new",
                                   status |-> "pending", at |-> 0, gen |-> 1, next |-> 1]]
    /\ cursor = NoCursor
    /\ link = {}
    /\ latest = [a \in Aliases |-> NoMessage]
    /\ consumed = {} /\ tasks = {}
    /\ lock = "none" /\ sync = NoSync /\ reader = NoReader /\ seen = NoWork
    /\ floor = 0 /\ given = <<>> /\ published = {} /\ marked = {}

(* Upstream: mail arrives, is read or expunged by another client, or the   *)
(* mailbox is rebuilt under a new UIDVALIDITY.                             *)
Arrive(s, to) ==
    /\ box[s].next <= MaxUID
    /\ \E flag \in BOOLEAN :
          box' = [box EXCEPT ![s].next = @ + 1,
                             ![s].messages = @ \cup {[uid |-> box[s].next, to |-> to, seen |-> flag]}]
    /\ UNCHANGED <<tables, procs, history>>

Expunge(s) ==
    /\ \E m \in Inbox(s) : box' = [box EXCEPT ![s].messages = @ \ {m}]
    /\ UNCHANGED <<tables, procs, history>>

Rebuild(s) ==
    /\ box[s].gen < MaxUIDValidity
    /\ box' = [box EXCEPT ![s] = [gen |-> @.gen + 1, next |-> 1, messages |-> {}]]
    /\ UNCHANGED <<tables, procs, history>>

-----------------------------------------------------------------------------
(* syncAccountLocked: under the account lock the account, its aliases,     *)
(* their snapshot positions and the cursor are loaded ...                  *)
StartSync ==
    /\ lock = "none" /\ account.enabled /\ account.version < MaxVersion
    /\ lock' = "sync"
    /\ sync' = [step |-> "loaded", version |-> account.version, source |-> Source,
                enabled |-> Enabled, cursor |-> cursor,
                positions |-> [a \in Aliases |-> IF a \in Enabled THEN latest[a] ELSE NoMessage]]
    /\ UNCHANGED <<upstream, tables, reader, seen, history>>

(* ... the mailbox is fetched ...                                          *)
Fetch ==
    /\ sync.step = "loaded"
    /\ sync.cursor.gen = box[sync.source].gen => sync.cursor.last <= Upper(sync.source)
    /\ sync' = [step |-> "fetched", version |-> sync.version, enabled |-> sync.enabled,
                from |-> sync.source,
                result |-> FetchResult(sync.source, sync.cursor, sync.enabled, sync.positions)]
    /\ UNCHANGED <<upstream, tables, lock, reader, seen, history>>

(* ... and ApplyMailboxSync publishes the result, unless it is stale.      *)
Stale_Cursor(v, enabled, r) == cursor # NoCursor /\ cursor.gen = r.gen /\ cursor.last > r.last
Stale(v, enabled, r) ==
    \/ account.version # v
    \/ enabled # Enabled
    \/ cursor # NoCursor /\ cursor.gen = r.gen /\ cursor.last > r.last
    \/ cursor # NoCursor /\ cursor.gen # r.gen /\ ~r.reset
    \/ cursor = NoCursor /\ ~r.reset

(* persistArchivedMessagesTx: every alias gives the messages it did not    *)
(* have yet the next UIDs of its mailbox, in upstream order.               *)
NewUIDs(a, r) ==
    {m.uid : m \in {x \in r.messages : a \in x.to /\ a \in Enabled}}
        \ {l.uid : l \in {x \in link : x.alias = a /\ x.gen = r.gen}}

MailboxUID(a, r, u) == alias[a].next + Cardinality({v \in NewUIDs(a, r) : v < u})

NewLinks(r) ==
    UNION {{[alias |-> a, gen |-> r.gen, uid |-> u, mailbox |-> MailboxUID(a, r, u)]
            : u \in NewUIDs(a, r)} : a \in Aliases}

(* persistLegacyLatestMessagesTx: a reset drops the snapshots of other     *)
(* generations (all of them when the generation changed), expunged ones    *)
(* are emptied, and the newest unread message of an alias replaces its     *)
(* snapshot unless that is newer.                                          *)
Kept_Expunged(a, r) == IF a \in r.empty /\ a \in Enabled THEN NoMessage ELSE latest[a]
Kept(a, r) ==
    IF \/ latest[a].gen # r.gen /\ r.reset
       \/ r.reset /\ cursor # NoCursor /\ cursor.gen # r.gen
       \/ a \in r.empty /\ a \in Enabled
    THEN NoMessage ELSE latest[a]

NewLatest_Any(a, r, from, at) ==
    LET U == {m.uid : m \in {x \in r.messages : a \in x.to /\ a \in Enabled /\ ~x.seen}}
    IN  IF U = {} THEN Kept(a, r) ELSE [gen |-> r.gen, uid |-> Max(U), at |-> at, from |-> from]
NewLatest(a, r, from, at) ==
    LET U == {m.uid : m \in {x \in r.messages : a \in x.to /\ a \in Enabled /\ ~x.seen}}
        k == Kept(a, r)
    IN  IF U = {} \/ (k.gen = r.gen /\ k.uid > Max(U))
        THEN k ELSE [gen |-> r.gen, uid |-> Max(U), at |-> at, from |-> from]

EndSync == lock' = "none" /\ sync' = NoSync

ApplyMailboxSync ==
    LET r == sync.result IN
    /\ sync.step = "fetched"
    /\ EndSync
    /\ \/ /\ Stale(sync.version, sync.enabled, r)
          /\ UNCHANGED <<tables, history>>
       \/ /\ ~Stale(sync.version, sync.enabled, r)
          /\ link' = link \cup NewLinks(r)
          /\ latest' = [a \in Aliases |-> NewLatest(a, r, sync.from, sync.version)]
          /\ cursor' = [gen |-> r.gen, last |-> r.last]
          /\ account' = [account EXCEPT !.version = @ + 1]
          /\ alias' = [a \in Aliases |->
                IF a \in Enabled
                THEN [alias[a] EXCEPT !.status = IF r.more THEN "pending" ELSE "ok",
                                      !.at = account.version + 1,
                                      !.next = @ + Cardinality(NewUIDs(a, r))]
                ELSE alias[a]]
          /\ floor' = IF r.reset THEN r.last ELSE floor
          /\ published' = published \cup
                {[alias |-> l.alias, gen |-> alias[l.alias].gen, uid |-> l.mailbox,
                  message |-> <<sync.from, l.gen, l.uid>>] : l \in NewLinks(r)}
          /\ UNCHANGED <<consumed, tasks, given, marked>>
    /\ UNCHANGED <<upstream, reader, seen>>

(* Any error ends the attempt.  RecordMailboxSyncFailure withdraws the     *)
(* aliases if the account is still the one that was loaded; it is skipped  *)
(* while the manager stops, and may fail itself.                           *)
FailSync ==
    /\ sync.step # "idle"
    /\ EndSync
    /\ \/ UNCHANGED <<account, alias>>
       \/ /\ account.version = sync.version
          /\ account' = [account EXCEPT !.version = @ + 1]
          /\ alias' = [a \in Aliases |->
                IF a \in Enabled
                THEN [alias[a] EXCEPT !.status = "error", !.at = account.version + 1]
                ELSE alias[a]]
    /\ UNCHANGED <<upstream, cursor, link, latest, consumed, tasks, reader, seen, history>>

-----------------------------------------------------------------------------
(* Configuration changes; the handlers run them under the account lock.    *)
MayConfigure == /\ Exclusive => lock = "none"
                /\ account.version < MaxVersion

Pending(a) == [alias[a] EXCEPT !.status = "pending", !.at = 0]

(* UpdateAccount with a new password, whatever it does to enabled, or      *)
(* re-enabling the account: the cursor is dropped and every alias waits    *)
(* for the next sync.                                                      *)
ResetAccount ==
    /\ MayConfigure
    /\ \E e \in BOOLEAN : account' = [account EXCEPT !.enabled = e, !.version = @ + 1]
    /\ cursor' = NoCursor
    /\ alias' = [a \in Aliases |-> Pending(a)]
    /\ UNCHANGED <<upstream, link, latest, consumed, tasks, procs, history>>

DisableAccount ==
    /\ MayConfigure /\ account.enabled
    /\ account' = [account EXCEPT !.enabled = FALSE, !.version = @ + 1]
    /\ UNCHANGED <<upstream, alias, cursor, link, latest, consumed, tasks, procs, history>>

(* UpdateAccount with another endpoint or username: every row that names   *)
(* a UID goes, and the alias mailboxes start a new generation.             *)
FreshMailbox_SameGeneration(a) == [Pending(a) EXCEPT !.next = 1]
FreshMailbox(a) == [Pending(a) EXCEPT !.gen = @ + 1, !.next = 1]

ChangeSource ==
    /\ MayConfigure /\ Source < MaxSource
    /\ account' = [account EXCEPT !.source = @ + 1, !.version = @ + 1]
    /\ cursor' = NoCursor
    /\ latest' = [a \in Aliases |-> NoMessage]
    /\ consumed' = {} /\ tasks' = {} /\ link' = {}
    /\ alias' = [a \in Aliases |-> FreshMailbox(a)]
    /\ UNCHANGED <<upstream, procs, history>>

(* CreateAlias (enabled) and updateAliasState: a newly enabled alias needs *)
(* a reset, as the cursor may be past its messages.                        *)
EnableAlias(a) ==
    /\ MayConfigure /\ alias[a].state \in {"new", "disabled"}
    /\ alias' = [alias EXCEPT ![a] = [Pending(a) EXCEPT !.state = "enabled"]]
    /\ cursor' = NoCursor
    /\ account' = [account EXCEPT !.version = @ + 1]
    /\ UNCHANGED <<upstream, link, latest, consumed, tasks, procs, history>>

DisableAlias(a) ==
    /\ MayConfigure /\ a \in Enabled
    /\ alias' = [alias EXCEPT ![a].state = "disabled"]
    /\ account' = [account EXCEPT !.version = @ + 1]
    /\ UNCHANGED <<upstream, cursor, link, latest, consumed, tasks, procs, history>>

(* DeleteAlias and the rows that cascade.                                  *)
DeleteAlias(a) ==
    /\ MayConfigure /\ alias[a].state \in {"enabled", "disabled"}
    /\ alias' = [alias EXCEPT ![a].state = "deleted"]
    /\ account' = IF a \in Enabled THEN [account EXCEPT !.version = @ + 1] ELSE account
    /\ link' = {l \in link : l.alias # a}
    /\ latest' = [latest EXCEPT ![a] = NoMessage]
    /\ consumed' = {c \in consumed : c.alias # a}
    /\ UNCHANGED <<upstream, cursor, tasks, procs, history>>

-----------------------------------------------------------------------------
(* recentMail: the authentication reads the binding ...                    *)
ReadBinding(a) ==
    /\ reader = NoReader
    /\ account.enabled /\ a \in Enabled
    /\ alias[a].status = "ok" /\ latest[a] # NoMessage
    /\ reader' = [alias |-> {a}, message |-> latest[a], at |-> alias[a].at]
    /\ UNCHANGED <<upstream, tables, lock, sync, seen, history>>

(* ... and ConsumeLatestMessage claims exactly that snapshot, once.        *)
Claimable_AnySnapshot(a) ==
    /\ account.enabled /\ a \in Enabled /\ alias[a].status = "ok"
    /\ latest[a].gen = reader.message.gen /\ latest[a].uid = reader.message.uid
    /\ ~\E c \in consumed : c.alias = a /\ c.gen = latest[a].gen /\ c.uid = latest[a].uid
Claimable(a) ==
    /\ account.enabled /\ a \in Enabled
    /\ alias[a].status = "ok" /\ alias[a].at = reader.at
    /\ latest[a].at = reader.message.at
    /\ latest[a].gen = reader.message.gen /\ latest[a].uid = reader.message.uid
    /\ ~\E c \in consumed : c.alias = a /\ c.gen = latest[a].gen /\ c.uid = latest[a].uid

Consume(a) ==
    /\ a \in reader.alias
    /\ reader' = NoReader
    /\ \/ /\ Claimable(a)
          /\ consumed' = consumed \cup {[alias |-> a, gen |-> latest[a].gen, uid |-> latest[a].uid,
                                         from |-> latest[a].from]}
          /\ tasks' = tasks \cup {[gen |-> latest[a].gen, uid |-> latest[a].uid]}
          /\ given' = Append(given, <<a, reader.message.from, reader.message.gen, reader.message.uid>>)
       \/ /\ ~Claimable(a)
          /\ UNCHANGED <<consumed, tasks, given>>
    /\ UNCHANGED <<upstream, account, alias, cursor, link, latest, lock, sync, seen,
                   floor, published, marked>>

-----------------------------------------------------------------------------
(* SeenWorker: the tasks are listed, then processAccount takes the account *)
(* lock and the account as it is by then ...                               *)
ListTasks ==
    /\ seen.step = "idle" /\ tasks # {}
    /\ seen' = [NoWork EXCEPT !.step = "listed", !.batch = tasks]
    /\ UNCHANGED <<upstream, tables, lock, sync, reader, history>>

ProcessAccount ==
    /\ seen.step = "listed" /\ lock = "none" /\ account.enabled
    /\ lock' = "seen"
    /\ seen' = [seen EXCEPT !.step = "mark", !.source = Source]
    /\ UNCHANGED <<upstream, tables, sync, reader, history>>

(* ... the UIDs of each UIDVALIDITY are marked in one session, or found to *)
(* be obsolete ...                                                         *)
Group == {t \in seen.batch : t.gen = Min({u.gen : u \in seen.batch})}

MayMark_Any(t) == TRUE
MayMark(t) == box[seen.source].gen = t.gen

MarkSeen ==
    LET hit == {m \in Inbox(seen.source) :
                    \E t \in Group : MayMark(t) /\ t.uid = m.uid}
    IN  /\ seen.step = "mark"
        /\ box' = [box EXCEPT ![seen.source].messages =
                      (@ \ hit) \cup {[m EXCEPT !.seen = TRUE] : m \in hit}]
        /\ marked' = marked \cup {<<seen.source, box[seen.source].gen, m.uid>> : m \in hit}
        /\ seen' = [seen EXCEPT !.step = "marked"]
        /\ UNCHANGED <<tables, lock, sync, reader, floor, given, published>>

(* ... and their tasks deleted.                                            *)
DeleteSeenTasks ==
    /\ seen.step = "marked"
    /\ tasks' = tasks \ Group
    /\ IF Group = seen.batch
       THEN lock' = "none" /\ seen' = NoWork
       ELSE UNCHANGED lock /\ seen' = [seen EXCEPT !.step = "mark", !.batch = @ \ Group]
    /\ UNCHANGED <<upstream, account, alias, cursor, link, latest, consumed, sync, reader, history>>

(* An error, a timeout or a restart ends the attempt at any point; the     *)
(* tasks stay.                                                             *)
FailSeen ==
    /\ seen.step # "idle"
    /\ seen' = NoWork
    /\ lock' = IF lock = "seen" THEN "none" ELSE lock
    /\ UNCHANGED <<upstream, tables, sync, reader, history>>

-----------------------------------------------------------------------------
Next ==
    \/ \E s \in 1 .. MaxSource : \/ \E to \in Recipients : Arrive(s, to)
                                 \/ Expunge(s) \/ Rebuild(s)
    \/ StartSync \/ Fetch \/ ApplyMailboxSync \/ FailSync
    \/ ResetAccount \/ DisableAccount \/ ChangeSource
    \/ \E a \in Aliases : \/ EnableAlias(a) \/ DisableAlias(a) \/ DeleteAlias(a)
                          \/ ReadBinding(a) \/ Consume(a)
    \/ ListTasks \/ ProcessAccount \/ MarkSeen \/ DeleteSeenTasks \/ FailSeen

Spec == Init /\ [][Next]_vars

-----------------------------------------------------------------------------
(* Types of the tables and of the positions they hold.                     *)
MessageType == [gen : 0 .. MaxUIDValidity, uid : 0 .. MaxUID, at : 0 .. MaxVersion,
                from : 0 .. MaxSource]

TypeOK ==
    /\ account \in [source : 1 .. MaxSource, enabled : BOOLEAN, version : 1 .. MaxVersion]
    /\ alias \in [Aliases -> [state : {"new", "enabled", "disabled", "deleted"},
                              status : {"pending", "ok", "error"}, at : 0 .. MaxVersion,
                              gen : 1 .. MaxSource, next : Nat \ {0}]]
    /\ cursor \in [gen : 0 .. MaxUIDValidity, last : 0 .. MaxUID]
    /\ latest \in [Aliases -> MessageType]
    /\ link \subseteq [alias : Aliases, gen : 1 .. MaxUIDValidity, uid : 1 .. MaxUID,
                       mailbox : Nat \ {0}]
    /\ tasks \subseteq [gen : 1 .. MaxUIDValidity, uid : 1 .. MaxUID]
    /\ lock \in {"none", "sync", "seen"}

(* No mail is skipped: a message of the current mailbox that the cursor    *)
(* has passed since the last reset is archived for every enabled alias it  *)
(* is addressed to, whatever aliases were enabled, whichever batches were  *)
(* fetched and whichever results were dropped as stale meanwhile.          *)
ArchiveComplete ==
    cursor # NoCursor /\ cursor.gen = box[Source].gen =>
        \A m \in Inbox(Source) : floor < m.uid /\ m.uid <= cursor.last =>
            \A a \in m.to \cap Enabled :
                \E l \in link : l.alias = a /\ l.gen = cursor.gen /\ l.uid = m.uid

(* "UIDs are meaningful only to that source" (UpdateAccount): no snapshot  *)
(* and no consumption record of an earlier source survives or is written   *)
(* late by a sync or a request that began before the change.               *)
OnlyCurrentSource ==
    /\ \A a \in Aliases : latest[a] # NoMessage => latest[a].from = Source
    /\ \A c \in consumed : c.from = Source

(* The snapshot served for an alias belongs to the UIDVALIDITY of the      *)
(* cursor: a stale generation is never served after a reset.               *)
SnapshotOfGeneration ==
    cursor # NoCursor =>
        \A a \in Aliases : latest[a] # NoMessage => latest[a].gen = cursor.gen

(* ConsumeLatestMessage claims "one exact alias snapshot": no message is   *)
(* returned twice for an alias, and one is recorded as consumed only if    *)
(* its own content was returned.                                           *)
DeliveredOnce == IsInjective(given)
ConsumedWasDelivered ==
    \A c \in consumed : \E i \in DOMAIN given : given[i] = <<c.alias, c.from, c.gen, c.uid>>
DeliveredExactly == DeliveredOnce /\ ConsumedWasDelivered

(* Public IMAPS clients cache by UIDVALIDITY and UID: a mailbox UID of an  *)
(* alias never names two different messages.                               *)
PublicUIDStable ==
    \A p, q \in published :
        p.alias = q.alias /\ p.gen = q.gen /\ p.uid = q.uid => p.message = q.message

(* "Seen tasks contain UIDs from the old mailbox source and must not be    *)
(* replayed against the newly configured mailbox" (UpdateAccount), nor     *)
(* against another UIDVALIDITY (MarkSeen): only messages that a client was *)
(* given are ever marked \Seen.                                            *)
SeenOnlyDelivered ==
    \A m \in marked : \E i \in DOMAIN given : Tail(given[i]) = m

(* Within a generation the cursor never moves backwards except through a   *)
(* reset, and the snapshot of an alias goes back to an older message only  *)
(* when the newer one was expunged, or its mailbox rebuilt: fetching the   *)
(* recent window again does not bring back what was already superseded.    *)
NeverBackwards ==
    [][/\ cursor # NoCursor /\ cursor'.gen = cursor.gen => cursor'.last >= cursor.last
       /\ \A a \in Aliases :
             latest[a] # NoMessage /\ latest'[a].gen = latest[a].gen
                 => \/ latest'[a].uid >= latest[a].uid
                    \/ box[Source].gen # latest[a].gen
                    \/ \A m \in Inbox(Source) : m.uid # latest[a].uid]_vars
=============================================================================
