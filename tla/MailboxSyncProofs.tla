-------------------------- MODULE MailboxSyncProofs --------------------------
(***************************************************************************)
(* Proofs that the mailbox sync neither skips nor repeats mail, for every  *)
(* number of aliases and messages, every batch and window, with or without *)
(* the in-process account lock.                                            *)
(*                                                                         *)
(* The argument rests on the version check of ApplyMailboxSync.  What a    *)
(* sync has loaded, and what it has fetched, describes the tables only as  *)
(* long as the account's version is the one that was loaded (LoadedInv,    *)
(* FetchedInv), and every change that could make it untrue gives the       *)
(* account a new version.  A result is complete up to its cursor at the    *)
(* moment of the fetch and stays so, because UIDs are assigned in          *)
(* ascending order within a UIDVALIDITY (UpstreamInv).  The history        *)
(* variables are tied to the tables: what was given is recorded as         *)
(* consumed until the source changes (GivenInv), what was published lies   *)
(* below the next UID of its alias' mailbox (PublishedInv).                *)
(***************************************************************************)
EXTENDS MailboxSync, TLAPS, FiniteSetTheorems, WellFoundedInduction, SequenceTheorems

Sources == 1 .. MaxSource
Mail == [uid : Nat, to : SUBSET Aliases, seen : BOOLEAN]
Position == [gen : Nat, last : Nat]
Message == [gen : Nat, uid : Nat, at : Nat, from : Nat]
AliasRow == [state : {"new", "enabled", "disabled", "deleted"},
             status : {"pending", "ok", "error"}, at : Nat, gen : Nat, next : Nat]
Task == [gen : Nat, uid : Nat]
Result == [reset : BOOLEAN, gen : Nat, last : Nat, more : BOOLEAN,
           messages : SUBSET Mail, empty : SUBSET Aliases]
LoadedSync == [step : {"loaded"}, version : Nat, source : Sources, enabled : SUBSET Aliases,
               cursor : Position, positions : [Aliases -> Message]]
FetchedSync == [step : {"fetched"}, version : Nat, enabled : SUBSET Aliases, from : Sources,
                result : Result]

(* The shape of every variable, without the bounds of the instances.       *)
UpstreamType == box \in [Sources -> [gen : Nat, next : Nat, messages : SUBSET Mail]]
AccountType == account \in [source : Sources, enabled : BOOLEAN, version : Nat]
AliasType == alias \in [Aliases -> AliasRow]
RowsType ==
    /\ cursor \in Position
    /\ latest \in [Aliases -> Message]
    /\ link \subseteq [alias : Aliases, gen : Nat, uid : Nat, mailbox : Nat]
    /\ consumed \subseteq [alias : Aliases, gen : Nat, uid : Nat, from : Nat]
    /\ tasks \subseteq Task
ProcsType ==
    /\ sync \in {NoSync} \cup LoadedSync \cup FetchedSync
    /\ reader \in [alias : SUBSET Aliases, message : Message, at : Nat]
    /\ seen \in [step : {"idle", "listed", "mark", "marked"}, batch : SUBSET Task,
                 source : Nat]
    /\ seen.step \in {"mark", "marked"} => seen.source \in Sources
HistoryType ==
    /\ floor \in Nat
    /\ given \in Seq(Aliases \X Nat \X Nat \X Nat)
    /\ published \subseteq [alias : Aliases, gen : Nat, uid : Nat, message : Nat \X Nat \X Nat]
Types == UpstreamType /\ AccountType /\ AliasType /\ RowsType /\ ProcsType /\ HistoryType

(* A mailbox assigns its UIDs in ascending order.                          *)
UpstreamInv ==
    \A s \in Sources :
        /\ box[s].gen >= 1 /\ box[s].next >= 1
        /\ \A m \in Inbox(s) : 1 <= m.uid /\ m.uid < box[s].next

(* A UIDVALIDITY and a UID that were once read from mailbox b.             *)
ReadFrom(b, gen, uid) ==
    /\ 1 <= gen /\ gen <= b.gen
    /\ gen = b.gen => uid < b.next

CursorInv == cursor # NoCursor => ReadFrom(box[Source], cursor.gen, cursor.last)

(* A snapshot is one of the present source, published before the account   *)
(* got its present version.                                                *)
LatestInv ==
    \A a \in Aliases : latest[a] # NoMessage =>
        /\ ReadFrom(box[Source], latest[a].gen, latest[a].uid)
        /\ latest[a].from = Source
        /\ latest[a].at < account.version

(* What was loaded is what the tables hold, or the version has changed.    *)
LoadedInv ==
    sync.step = "loaded" =>
        /\ sync.version <= account.version
        /\ sync.version = account.version =>
              /\ sync.source = Source /\ sync.enabled = Enabled
              /\ sync.cursor = cursor
              /\ \A a \in Enabled : sync.positions[a] = latest[a]

(* A message between the cursor and the end of the result is in the result *)
(* if it is for an enabled alias ...                                       *)
ResultComplete(s, r) ==
    ~r.reset =>
        /\ cursor # NoCursor /\ cursor.gen = r.gen
        /\ box[s].gen = r.gen =>
              \A m \in Inbox(s) : cursor.last < m.uid /\ m.uid <= r.last =>
                  \A a \in m.to \cap Enabled : \E x \in r.messages : x.uid = m.uid /\ a \in x.to

(* ... and a snapshot the result empties is no longer in the mailbox.      *)
Expunged(b, m) == b.gen = m.gen => \A x \in b.messages : x.uid # m.uid
ResultEmpty(s, r) ==
    \A a \in r.empty \cap Enabled : latest[a].gen = r.gen => Expunged(box[s], latest[a])

FetchedInv ==
    sync.step = "fetched" =>
        /\ sync.version <= account.version
        /\ ReadFrom(box[sync.from], sync.result.gen, sync.result.last)
        /\ \A m \in sync.result.messages : 1 <= m.uid /\ m.uid <= sync.result.last
        /\ sync.version = account.version =>
              /\ sync.from = Source /\ sync.enabled = Enabled
              /\ ResultComplete(Source, sync.result)
              /\ ResultEmpty(Source, sync.result)

(* A request that read a snapshot of an earlier source finds none that was *)
(* published at the same time.                                             *)
ReaderInv ==
    reader # NoReader =>
        /\ reader.message.gen >= 1
        /\ reader.message.at < account.version
        /\ reader.message.from <= Source
        /\ reader.message.from # Source =>
              \A a \in Aliases : latest[a] # NoMessage => reader.message.at < latest[a].at

(* What was given from the present source is recorded while its alias is.  *)
GivenInv ==
    \A i \in DOMAIN given :
        /\ given[i][2] <= Source
        /\ given[i][2] = Source /\ alias[given[i][1]].state # "deleted" =>
              [alias |-> given[i][1], gen |-> given[i][3], uid |-> given[i][4], from |-> Source]
                  \in consumed

(* Mailbox UIDs ascend within a generation of the alias' mailbox.          *)
PublishedInv ==
    \A p \in published :
        /\ p.gen <= alias[p.alias].gen
        /\ p.gen = alias[p.alias].gen => p.uid < alias[p.alias].next

SyncInv ==
    /\ Types /\ UpstreamInv
    /\ CursorInv /\ LatestInv /\ SnapshotOfGeneration /\ OnlyCurrentSource /\ ArchiveComplete
    /\ LoadedInv /\ FetchedInv
    /\ ReaderInv /\ GivenInv /\ DeliveredExactly
    /\ PublishedInv /\ PublicUIDStable

-----------------------------------------------------------------------------
(* The operators of the fetcher.                                           *)

(* The greatest UID of a nonempty set of UIDs that is bounded.             *)
LEMMA MaxIsMember ==
    ASSUME NEW S, NEW n \in Nat, S \subseteq 0 .. n, S # {}
    PROVE  Max(S) \in S /\ \A y \in S : y <= Max(S)
<1> DEFINE R == {ss \in Nat \X Nat : ss[1] < ss[2]}
           T == {k \in Nat : n - k \in S}
<1>1. IsWellFoundedOn(R, Nat)
  BY NatLessThanWellFounded, Zenon DEF OpToRel
<1>2. ASSUME NEW a \in Nat, NEW b \in Nat, a < b
      PROVE  <<a, b>> \in R
  <2>1. <<a, b>> \in Nat \X Nat /\ <<a, b>>[1] < <<a, b>>[2]
    BY <1>2
  <2>2. QED
    BY <2>1, Zenon
<1>3. T \subseteq Nat /\ T # {}
  <2>1. PICK y \in S : TRUE
    OBVIOUS
  <2>2. y \in Nat /\ n - y \in Nat /\ n - (n - y) = y
    BY <2>1
  <2>3. QED
    BY <2>1, <2>2
<1>4. \A k \in Nat : n - k \in S => k \in T
  OBVIOUS
<1>5. \A k \in T : k \in Nat /\ n - k \in S
  OBVIOUS
<1> HIDE DEF R, T
<1>6. PICK k \in T : \A l \in T : <<l, k>> \notin R
  BY <1>1, <1>3, WFMin
<1>7. k \in Nat /\ n - k \in S
  BY <1>5
<1>8. ASSUME NEW y \in S
      PROVE  n - k >= y
  <2>1. y \in Nat /\ n - y \in Nat /\ n - (n - y) = y
    BY <1>8
  <2>2. n - y \in T
    BY <2>1, <1>4, <1>8
  <2>3. ~(n - y < k)
    BY <2>1, <2>2, <1>2, <1>6, <1>7
  <2>4. QED
    BY <2>1, <2>3, <1>7
<1>9. \E x \in S : \A y \in S : x >= y
  BY <1>7, <1>8
<1>10. Max(S) \in S /\ \A y \in S : Max(S) >= y
  BY <1>9, Zenon DEF Max
<1>11. QED
  BY <1>10

(* A set of UIDs up to n is finite.                                        *)
LEMMA UIDsFinite ==
    ASSUME NEW S, NEW n \in Nat, S \subseteq 0 .. n
    PROVE  IsFiniteSet(S) /\ Cardinality(S) \in Nat
<1>1. IsFiniteSet(0 .. n)
  BY FS_Interval
<1>2. QED
  BY <1>1, FS_Subset, FS_CardinalityType

(* The oldest UIDs are a downward closed part, and there is one.           *)
LEMMA OldestIsPrefix ==
    ASSUME NEW U, NEW n \in Nat, U \subseteq 0 .. n, NEW k \in Nat \ {0}
    PROVE  /\ Oldest(U, k) \subseteq U
           /\ \A u \in Oldest(U, k), v \in U : v <= u => v \in Oldest(U, k)
           /\ U # {} => Oldest(U, k) # {}
<1>1. Oldest(U, k) \subseteq U
  BY DEF Oldest
<1>2. ASSUME NEW u \in Oldest(U, k), NEW v \in U, v <= u
      PROVE  v \in Oldest(U, k)
  <2> DEFINE A == {w \in U : w <= v}
             B == {w \in U : w <= u}
  <2>1. u \in U /\ Cardinality(B) <= k
    BY DEF Oldest
  <2>2. A \subseteq B
    <3>1. \A w \in U : w \in Int
      OBVIOUS
    <3>2. u \in Int /\ v \in Int /\ v <= u
      BY <3>1, <2>1, <1>2
    <3>3. \A w \in Int : w <= v => w <= u
      BY <3>2
    <3>4. QED
      BY <3>1, <3>3
  <2>3. B \subseteq 0 .. n /\ A \subseteq 0 .. n
    OBVIOUS
  <2>4. IsFiniteSet(B) /\ Cardinality(B) \in Nat /\ Cardinality(A) \in Nat
    BY <2>3, UIDsFinite
  <2>5. Cardinality(A) <= Cardinality(B)
    BY <2>2, <2>4, FS_Subset
  <2>6. Cardinality(A) <= k
    BY <2>1, <2>4, <2>5
  <2>7. QED
    BY <2>6 DEF Oldest
<1>3. ASSUME U # {}
      PROVE  Oldest(U, k) # {}
  <2> DEFINE M == {j \in 0 .. n : \A w \in U : j <= w}
  <2>1. M \subseteq 0 .. n /\ M # {}
    <3>1. 0 \in M
      OBVIOUS
    <3>2. QED
      BY <3>1
  <2>2. Max(M) \in M /\ \A j \in M : j <= Max(M)
    BY <2>1, MaxIsMember
  <2>3. PICK m \in M : \A j \in M : j <= m
    BY <2>2
  <2>4. m \in U
    <3>1. SUFFICES ASSUME m \notin U PROVE FALSE
      OBVIOUS
    <3>2. PICK w \in U : TRUE
      BY <1>3
    <3>3. \A x \in U : x \in Nat /\ x <= n /\ m < x
      BY <2>3, <3>1
    <3>4. m + 1 \in M
      BY <3>2, <3>3, <2>3
    <3>5. QED
      BY <3>4, <2>3
  <2>5. {w \in U : w <= m} = {m}
    <3>1. \A w \in U : w \in Int /\ m <= w
      BY <2>3
    <3>2. \A w \in U : w <= m <=> w = m
      BY <3>1, <2>3
    <3>3. QED
      BY <3>2, <2>4
  <2>6. Cardinality({w \in U : w <= m}) = 1
    BY <2>5, FS_Singleton
  <2>7. QED
    BY <2>4, <2>6 DEF Oldest
<1>4. QED
  BY <1>1, <1>2, <1>3

(* discoverArchiveUIDs finds every message up to the cursor it returns.    *)
LEMMA DiscoveredComplete ==
    ASSUME UpstreamType, UpstreamInv, NEW s \in Sources, NEW last \in Nat
    PROVE  LET found == Discovered(s, last)
               U == {u \in {m.uid : m \in Inbox(s)} : u > last}
           IN  /\ found.last \in Nat /\ found.last < box[s].next
               /\ found.more \in BOOLEAN
               /\ found.uids \subseteq U
               /\ \A u \in U : u <= found.last <=> u \in found.uids
<1> DEFINE U == {u \in {m.uid : m \in Inbox(s)} : u > last}
           B == Oldest(U, Batch)
           upper == box[s].next - 1
<1>1. box[s].next \in Nat /\ upper \in Nat
  BY DEF UpstreamType, UpstreamInv
<1>2. U \subseteq 0 .. upper
  BY <1>1 DEF UpstreamType, UpstreamInv, Inbox, Mail
<1>3. Batch \in Nat \ {0}
  BY SyncAssumption
<1> HIDE DEF U, upper
<1>4. /\ B \subseteq U
      /\ \A u \in B, v \in U : v <= u => v \in B
      /\ U # {} => B # {}
  BY ONLY <1>1, <1>2, <1>3, OldestIsPrefix
<1> USE DEF upper
<1> DEFINE found == IF Upper(s) - last <= Batch \/ B = U
                    THEN [uids |-> U, last |-> Upper(s), more |-> FALSE]
                    ELSE [uids |-> B, last |-> Max(B), more |-> TRUE]
<1>5. Discovered(s, last) = found
  BY DEF Discovered, U
<1>6. Upper(s) = upper
  BY DEF Upper
<1> HIDE DEF B
<1>7. CASE Upper(s) - last <= Batch \/ B = U
  <2>1. found = [uids |-> U, last |-> upper, more |-> FALSE]
    BY <1>6, <1>7
  <2>2. \A u \in U : u <= upper
    BY <1>2
  <2> HIDE DEF found
  <2>3. /\ found.last \in Nat /\ found.last < box[s].next
        /\ found.more \in BOOLEAN
        /\ found.uids \subseteq U
        /\ \A u \in U : u <= found.last <=> u \in found.uids
    BY <2>1, <2>2, <1>1
  <2>4. QED
    BY <2>3, <1>5 DEF U, found
<1>8. CASE ~(Upper(s) - last <= Batch \/ B = U)
  <2>1. found = [uids |-> B, last |-> Max(B), more |-> TRUE]
    BY <1>8
  <2>2. B # {} /\ B \subseteq 0 .. upper
    BY <1>4, <1>8, <1>2
  <2>3. Max(B) \in B /\ \A y \in B : y <= Max(B)
    BY <2>2, <1>1, MaxIsMember
  <2>4. Max(B) \in Nat /\ Max(B) <= upper
    <3>1. Max(B) \in 0 .. upper
      BY <2>2, <2>3, Zenon
    <3>2. QED
      BY <3>1, <1>1
  <2>5. Max(B) < box[s].next
    BY <2>4, <1>1
  <2>6. \A u \in U : u <= Max(B) <=> u \in B
    BY <1>4, <2>3
  <2> HIDE DEF found
  <2>7. /\ found.last \in Nat /\ found.last < box[s].next
        /\ found.more \in BOOLEAN
        /\ found.uids \subseteq U
        /\ \A u \in U : u <= found.last <=> u \in found.uids
    BY <2>1, <2>4, <2>5, <2>6, <1>4
  <2>8. QED
    BY <2>7, <1>5 DEF U, found
<1>9. QED
  BY <1>7, <1>8

(* The cursor a reset starts from is not beyond the mailbox.               *)
LEMMA RecentCursorType ==
    ASSUME UpstreamType, UpstreamInv, NEW s \in Sources
    PROVE  LET recent == RecentCursor(s)
           IN  recent.last \in Nat /\ recent.last < box[s].next /\ recent.more \in BOOLEAN
<1> DEFINE U == {m.uid : m \in Inbox(s)}
           n == Cardinality(U)
           B == Oldest(U, n - Window)
           upper == box[s].next - 1
<1>1. box[s].next \in Nat /\ upper \in Nat
  BY DEF UpstreamType, UpstreamInv
<1>2. U \subseteq 0 .. upper
  BY <1>1 DEF UpstreamType, UpstreamInv, Inbox, Mail
<1>3. n \in Nat /\ IsFiniteSet(U)
  BY <1>1, <1>2, UIDsFinite
<1>4. Window \in Nat \ {0}
  BY SyncAssumption
<1> DEFINE recent == CASE n = 0 -> [last |-> Upper(s), more |-> FALSE]
                       [] n \in 1 .. Window -> [last |-> 0, more |-> TRUE]
                       [] OTHER -> [last |-> Max(B), more |-> TRUE]
<1>5. RecentCursor(s) = recent
  BY DEF RecentCursor
<1>6. CASE n = 0
  <2>1. recent = [last |-> upper, more |-> FALSE]
    BY <1>6 DEF Upper
  <2>2. QED
    BY <2>1, <1>1, <1>5
<1>7. CASE n \in 1 .. Window
  <2>1. recent = [last |-> 0, more |-> TRUE]
    BY <1>7
  <2>2. 0 < box[s].next
    BY <1>1
  <2>3. QED
    BY <2>1, <2>2, <1>5
<1>8. CASE n # 0 /\ n \notin 1 .. Window
  <2>1. recent = [last |-> Max(B), more |-> TRUE]
    BY <1>8
  <2>2. n - Window \in Nat \ {0}
    BY <1>3, <1>4, <1>8
  <2>3. U # {}
    BY <1>3, <1>8, FS_EmptySet
  <2> HIDE DEF U, n, upper
  <2>4. B \subseteq U /\ B # {}
    BY ONLY <1>1, <1>2, <2>2, <2>3, OldestIsPrefix
  <2> USE DEF upper
  <2>5. B \subseteq 0 .. upper
    BY <2>4, <1>2
  <2> HIDE DEF B
  <2>6. Max(B) \in B
    BY <2>4, <2>5, <1>1, MaxIsMember
  <2>7. Max(B) \in Nat /\ Max(B) < box[s].next
    <3>1. Max(B) \in 0 .. upper
      BY <2>5, <2>6, Zenon
    <3>2. QED
      BY <3>1, <1>1
  <2> HIDE DEF recent
  <2>8. QED
    BY <2>1, <2>7, <1>5
<1>9. QED
  BY <1>6, <1>7, <1>8

(* What fetchArchiveIncremental returns is typed, lies in the mailbox, is  *)
(* complete up to its cursor, and empties only what is not in the mailbox. *)
IsFetch(r, s, previous, enabled, positions) ==
    /\ r \in Result
    /\ r.gen = box[s].gen /\ r.last < box[s].next
    /\ r.reset = (previous.gen # box[s].gen)
    /\ \A m \in r.messages : 1 <= m.uid /\ m.uid <= r.last
    /\ ~r.reset => \A m \in Inbox(s) : previous.last < m.uid /\ m.uid <= r.last =>
          \A a \in m.to \cap enabled : \E x \in r.messages : x.uid = m.uid /\ a \in x.to
    /\ \A a \in r.empty :
          \/ positions[a].gen # r.gen
          \/ \A m \in Inbox(s) : m.uid # positions[a].uid

LEMMA FetchComplete ==
    ASSUME UpstreamType, UpstreamInv, NEW s \in Sources, NEW previous \in Position,
           NEW enabled \in SUBSET Aliases, NEW positions \in [Aliases -> Message]
    PROVE  IsFetch(FetchResult(s, previous, enabled, positions), s, previous, enabled, positions)
<1> DEFINE gen == box[s].gen
           reset == previous.gen # gen
           found == IF reset \/ enabled = {} \/ previous.last = Upper(s)
                    THEN [uids |-> {}, last |-> Upper(s), more |-> FALSE]
                    ELSE Discovered(s, previous.last)
           recent == RecentCursor(s)
           last == IF reset /\ enabled # {} THEN recent.last ELSE found.last
           more == IF reset /\ enabled # {} THEN recent.more ELSE found.more
           messages == {m \in Inbox(s) : m.uid \in found.uids /\ m.to \cap enabled # {}}
           empty == {a \in Aliases : /\ positions[a] # NoMessage
                                     /\ \/ positions[a].gen # gen
                                        \/ positions[a].uid \notin {m.uid : m \in Inbox(s)}}
<1>1. /\ box[s].gen \in Nat /\ box[s].next \in Nat /\ Upper(s) \in Nat
      /\ Upper(s) < box[s].next
      /\ Inbox(s) \subseteq Mail
      /\ \A m \in Inbox(s) : m.uid \in Nat /\ 1 <= m.uid /\ m.uid <= Upper(s)
  BY DEF UpstreamType, UpstreamInv, Inbox, Upper, Mail
<1>2. previous.gen \in Nat /\ previous.last \in Nat
  BY DEF Position
<1>3. recent.last \in Nat /\ recent.last < box[s].next /\ recent.more \in BOOLEAN
  BY RecentCursorType
<1>4. /\ found.last \in Nat /\ found.last < box[s].next /\ found.more \in BOOLEAN
      /\ reset \/ enabled = {} => found.uids = {}
      /\ \A m \in Inbox(s) : m.uid \in found.uids => m.uid <= found.last
      /\ ~reset /\ enabled # {} =>
            \A m \in Inbox(s) : previous.last < m.uid /\ m.uid <= found.last => m.uid \in found.uids
  <2>1. CASE reset \/ enabled = {} \/ previous.last = Upper(s)
    <3>1. found = [uids |-> {}, last |-> Upper(s), more |-> FALSE]
      BY <2>1
    <3> HIDE DEF found
    <3>2. /\ found.last = Upper(s) /\ found.uids = {} /\ found.more = FALSE
      BY <3>1
    <3>3. ~reset /\ enabled # {} => previous.last = Upper(s)
      BY <2>1
    <3>4. ~reset /\ enabled # {} => \A m \in Inbox(s) : ~(previous.last < m.uid)
      BY <3>3, <1>1, <1>2
    <3>5. QED
      BY <3>2, <3>4, <1>1
  <2>2. CASE ~(reset \/ enabled = {} \/ previous.last = Upper(s))
    <3> DEFINE U == {u \in {m.uid : m \in Inbox(s)} : u > previous.last}
               d == Discovered(s, previous.last)
    <3>1. found = d
      BY <2>2
    <3>2. /\ d.last \in Nat /\ d.last < box[s].next /\ d.more \in BOOLEAN
          /\ d.uids \subseteq U
          /\ \A u \in U : u <= d.last <=> u \in d.uids
      BY <1>2, DiscoveredComplete
    <3>3. \A m \in Inbox(s) : previous.last < m.uid => m.uid \in U
      BY <1>1, <1>2
    <3> HIDE DEF U, d, found
    <3>4. QED
      BY <3>1, <3>2, <3>3, <2>2
  <2>3. QED
    BY <2>1, <2>2
<1> DEFINE r == FetchResult(s, previous, enabled, positions)
<1>5. r = [reset |-> reset, gen |-> gen, last |-> last, more |-> more,
           messages |-> messages, empty |-> empty]
  BY DEF FetchResult
<1>6. /\ last \in Nat /\ last < box[s].next /\ more \in BOOLEAN
      /\ ~(reset /\ enabled # {}) => last = found.last
  BY <1>3, <1>4
<1>7. messages \subseteq Mail /\ empty \subseteq Aliases
  BY <1>1
<1>8. \A m \in messages : 1 <= m.uid /\ m.uid <= last
  <2>1. CASE reset \/ enabled = {}
    BY <2>1, <1>4
  <2>2. CASE ~(reset \/ enabled = {})
    BY <2>2, <1>1, <1>4, <1>6
  <2>3. QED
    BY <2>1, <2>2
<1>9. ~reset => \A m \in Inbox(s) : previous.last < m.uid /\ m.uid <= last =>
          \A a \in m.to \cap enabled : \E x \in messages : x.uid = m.uid /\ a \in x.to
  <2> SUFFICES ASSUME ~reset, NEW m \in Inbox(s), previous.last < m.uid, m.uid <= last,
                      NEW a \in m.to \cap enabled
               PROVE  m \in messages
    OBVIOUS
  <2>1. last = found.last /\ enabled # {}
    BY <1>6
  <2>2. m.uid \in found.uids
    BY <2>1, <1>4
  <2>3. QED
    BY <2>2
<1>10. \A a \in empty : positions[a].gen # gen \/ \A m \in Inbox(s) : m.uid # positions[a].uid
  OBVIOUS
<1> HIDE DEF r, found, recent, messages, empty, last, more, reset
<1>11. r \in Result
  <2>1. reset \in BOOLEAN
    BY DEF reset
  <2>2. QED
    BY <1>5, <1>1, <1>6, <1>7, <2>1, Zenon DEF Result
<1>12. /\ r.reset = reset /\ r.gen = gen /\ r.last = last /\ r.messages = messages
       /\ r.empty = empty
  BY <1>5
<1>13. QED
  BY <1>6, <1>8, <1>9, <1>10, <1>11, <1>12 DEF r, reset, IsFetch

-----------------------------------------------------------------------------
(* Mail arrives, is expunged or marked, or the mailbox is rebuilt.         *)

(* What a mailbox b can have become: UIDs are never reassigned within a    *)
(* UIDVALIDITY, and another UIDVALIDITY starts with an empty mailbox.      *)
Later(b, c) ==
    \/ /\ c.gen = b.gen /\ c.next >= b.next
       /\ \A m \in c.messages :
             m.uid >= b.next \/ \E x \in b.messages : x.uid = m.uid /\ x.to = m.to
    \/ c.gen > b.gen /\ c.messages = {}

UpstreamStep ==
    /\ \A s \in Sources : Later(box[s], box'[s])
    /\ UNCHANGED <<account, alias, cursor, link, latest, consumed, tasks, sync, reader,
                   floor, given, published>>

Mailbox == [gen : Nat, next : Nat, messages : SUBSET Mail]

(* What was read from a mailbox may have been read from what it became.    *)
LEMMA ReadFromLater ==
    ASSUME NEW b \in Mailbox, NEW c \in Mailbox, Later(b, c), NEW gen \in Nat, NEW uid \in Nat,
           ReadFrom(b, gen, uid)
    PROVE  ReadFrom(c, gen, uid)
BY DEF Mailbox, Later, ReadFrom

(* A step on one mailbox is a step of the upstream.                        *)
LEMMA OneMailbox ==
    ASSUME UpstreamType, NEW s \in Sources, NEW c \in Mailbox, box' = [box EXCEPT ![s] = c],
           Later(box[s], c)
    PROVE  UpstreamType' /\ \A t \in Sources : Later(box[t], box'[t])
<1>1. box \in [Sources -> Mailbox]
  BY DEF UpstreamType, Mailbox
<1>2. box' \in [Sources -> Mailbox]
  BY <1>1
<1>3. \A t \in Sources : box'[t] = IF t = s THEN c ELSE box[t]
  BY <1>1
<1>4. \A t \in Sources : Later(box[t], box[t])
  <2>1. SUFFICES ASSUME NEW t \in Sources PROVE Later(box[t], box[t])
    OBVIOUS
  <2>2. box[t] \in Mailbox
    BY <1>1
  <2>3. box[t].next \in Nat
    BY <2>2 DEF Mailbox
  <2>4. QED
    BY <2>3 DEF Later
<1>5. QED
  BY <1>2, <1>3, <1>4 DEF UpstreamType, Mailbox

LEMMA ArriveIsUpstream ==
    ASSUME SyncInv, NEW s \in Sources, NEW to \in Recipients, Arrive(s, to)
    PROVE  UpstreamStep /\ UpstreamType' /\ UpstreamInv' /\ UNCHANGED seen
<1> USE DEF SyncInv, Types
<1>1. PICK flag \in BOOLEAN :
          box' = [box EXCEPT ![s].next = @ + 1,
                             ![s].messages = @ \cup {[uid |-> box[s].next, to |-> to, seen |-> flag]}]
  BY DEF Arrive
<1> DEFINE m == [uid |-> box[s].next, to |-> to, seen |-> flag]
           c == [box[s] EXCEPT !.next = @ + 1, !.messages = @ \cup {m}]
<1>2. box[s] \in Mailbox /\ box[s].gen \in Nat /\ box[s].next \in Nat /\ box[s].messages \subseteq Mail
  BY DEF UpstreamType, Mailbox
<1>3. m \in Mail
  BY <1>2, SyncAssumption DEF Mail
<1>4. c \in Mailbox
  <2>1. box[s].next + 1 \in Nat /\ box[s].messages \cup {m} \in SUBSET Mail
    BY <1>2, <1>3
  <2> DEFINE d == [box[s] EXCEPT !.next = @ + 1]
  <2>2. d \in Mailbox
    BY <1>2, <2>1 DEF Mailbox
  <2>3. d.messages = box[s].messages /\ c = [d EXCEPT !.messages = @ \cup {m}]
    BY <1>2 DEF Mailbox
  <2> HIDE DEF d, m
  <2>4. QED
    BY <2>1, <2>2, <2>3 DEF Mailbox
<1>5. box' = [box EXCEPT ![s] = c]
  BY <1>1 DEF UpstreamType
<1>3a. /\ c.gen = box[s].gen /\ c.next = box[s].next + 1
       /\ c.messages = box[s].messages \cup {m}
  BY <1>2 DEF Mailbox
<1>6. Later(box[s], c)
  <2>1. c.gen = box[s].gen /\ c.next >= box[s].next
    BY <1>2, <1>3a
  <2>2. ASSUME NEW x \in c.messages
        PROVE  x.uid >= box[s].next \/ \E y \in box[s].messages : y.uid = x.uid /\ y.to = x.to
    BY <1>2
  <2>3. QED
    BY <2>1, <2>2 DEF Later
<1>7. UpstreamType' /\ \A t \in Sources : Later(box[t], box'[t])
  BY <1>4, <1>5, <1>6, OneMailbox
<1>8. UpstreamInv'
  <2>1. \A x \in c.messages : 1 <= x.uid /\ x.uid < c.next
    BY <1>2 DEF UpstreamInv, Inbox, Mail
  <2>2. c.gen >= 1 /\ c.next >= 1
    BY <1>2 DEF UpstreamInv
  <2> HIDE DEF c
  <2>3. \A t \in Sources : box'[t] = IF t = s THEN c ELSE box[t]
    BY <1>5 DEF UpstreamType
  <2>4. QED
    BY <2>1, <2>2, <2>3 DEF UpstreamInv, Inbox
<1>9. QED
  BY <1>7, <1>8 DEF UpstreamStep, Arrive, tables, procs, history

LEMMA ExpungeIsUpstream ==
    ASSUME SyncInv, NEW s \in Sources, Expunge(s)
    PROVE  UpstreamStep /\ UpstreamType' /\ UpstreamInv' /\ UNCHANGED seen
<1> USE DEF SyncInv, Types
<1>1. PICK m \in Inbox(s) : box' = [box EXCEPT ![s].messages = @ \ {m}]
  BY DEF Expunge
<1> DEFINE c == [box[s] EXCEPT !.messages = @ \ {m}]
<1>2. box[s] \in Mailbox /\ box[s].gen \in Nat /\ box[s].next \in Nat /\ box[s].messages \subseteq Mail
  BY DEF UpstreamType, Mailbox
<1>4. c \in Mailbox
  BY <1>2 DEF Mailbox
<1>5. box' = [box EXCEPT ![s] = c]
  BY <1>1 DEF UpstreamType
<1>6. Later(box[s], c)
  BY <1>2 DEF Later
<1>7. UpstreamType' /\ \A t \in Sources : Later(box[t], box'[t])
  BY <1>4, <1>5, <1>6, OneMailbox
<1>8. UpstreamInv'
  <2>1. \A x \in c.messages : 1 <= x.uid /\ x.uid < c.next
    BY DEF UpstreamInv, Inbox
  <2>2. c.gen >= 1 /\ c.next >= 1
    BY DEF UpstreamInv
  <2> HIDE DEF c
  <2>3. \A t \in Sources : box'[t] = IF t = s THEN c ELSE box[t]
    BY <1>5 DEF UpstreamType
  <2>4. QED
    BY <2>1, <2>2, <2>3 DEF UpstreamInv, Inbox
<1>9. QED
  BY <1>7, <1>8 DEF UpstreamStep, Expunge, tables, procs, history

LEMMA RebuildIsUpstream ==
    ASSUME SyncInv, NEW s \in Sources, Rebuild(s)
    PROVE  UpstreamStep /\ UpstreamType' /\ UpstreamInv' /\ UNCHANGED seen
<1> USE DEF SyncInv, Types
<1> DEFINE c == [gen |-> box[s].gen + 1, next |-> 1, messages |-> {}]
<1>2. box[s] \in Mailbox /\ box[s].gen \in Nat
  BY DEF UpstreamType, Mailbox
<1>4. c \in Mailbox
  BY <1>2 DEF Mailbox
<1>5. box' = [box EXCEPT ![s] = c]
  BY DEF Rebuild, UpstreamType
<1>6. Later(box[s], c)
  BY <1>2 DEF Later
<1>7. UpstreamType' /\ \A t \in Sources : Later(box[t], box'[t])
  BY <1>4, <1>5, <1>6, OneMailbox
<1>8. UpstreamInv'
  <2>1. c.gen >= 1 /\ c.next >= 1 /\ c.messages = {}
    BY <1>2
  <2> HIDE DEF c
  <2>2. \A t \in Sources : box'[t] = IF t = s THEN c ELSE box[t]
    BY <1>5 DEF UpstreamType
  <2>3. QED
    BY <2>1, <2>2 DEF UpstreamInv, Inbox
<1>9. QED
  BY <1>7, <1>8 DEF UpstreamStep, Rebuild, tables, procs, history

LEMMA MarkSeenIsUpstream ==
    ASSUME SyncInv, MarkSeen
    PROVE  UpstreamStep /\ UpstreamType' /\ UpstreamInv' /\ ProcsType'
<1> USE DEF SyncInv, Types
<1> DEFINE s == seen.source
           hit == {m \in Inbox(s) : \E t \in Group : MayMark(t) /\ t.uid = m.uid}
           read == {[m EXCEPT !.seen = TRUE] : m \in hit}
           c == [box[s] EXCEPT !.messages = (@ \ hit) \cup read]
<1>1. s \in Sources /\ seen.step = "mark"
  BY DEF ProcsType, MarkSeen
<1>2. box[s] \in Mailbox /\ box[s].gen \in Nat /\ box[s].next \in Nat /\ box[s].messages \subseteq Mail
  BY <1>1 DEF UpstreamType, Mailbox
<1>3. \A x \in read : x \in Mail /\ \E m \in box[s].messages : m.uid = x.uid /\ m.to = x.to
  <2>1. SUFFICES ASSUME NEW m \in hit
                 PROVE  LET x == [m EXCEPT !.seen = TRUE]
                        IN  x \in Mail /\ m.uid = x.uid /\ m.to = x.to /\ m \in box[s].messages
    BY DEF read
  <2>2. m \in Mail /\ m \in box[s].messages
    BY <1>2 DEF Inbox
  <2>3. QED
    BY <2>2 DEF Mail
<1>4. box' = [box EXCEPT ![s] = c]
  BY <1>1 DEF MarkSeen, UpstreamType
<1> HIDE DEF hit, read
<1>5. c \in Mailbox /\ c.gen = box[s].gen /\ c.next = box[s].next
      /\ c.messages = (box[s].messages \ hit) \cup read
  BY <1>2, <1>3 DEF Mailbox
<1> HIDE DEF c
<1>6. \A x \in c.messages : \E m \in box[s].messages : m.uid = x.uid /\ m.to = x.to
  BY <1>3, <1>5
<1>7. Later(box[s], c)
  BY <1>2, <1>5, <1>6 DEF Later
<1>8. UpstreamType' /\ \A t \in Sources : Later(box[t], box'[t])
  BY <1>1, <1>4, <1>5, <1>7, OneMailbox
<1>9. UpstreamInv'
  <2>1. \A x \in c.messages : 1 <= x.uid /\ x.uid < c.next
    BY <1>1, <1>5, <1>6 DEF UpstreamInv, Inbox
  <2>2. c.gen >= 1 /\ c.next >= 1
    BY <1>1, <1>5 DEF UpstreamInv
  <2>3. \A t \in Sources : box'[t] = IF t = s THEN c ELSE box[t]
    BY <1>4 DEF UpstreamType
  <2>4. QED
    BY <2>1, <2>2, <2>3 DEF UpstreamInv, Inbox
<1>10. UNCHANGED <<sync, reader>> /\ seen' = [seen EXCEPT !.step = "marked"]
  BY DEF MarkSeen
<1>11. ProcsType'
  BY <1>1, <1>10 DEF ProcsType
<1>12. QED
  BY <1>8, <1>9, <1>11 DEF UpstreamStep, MarkSeen, tables

(* Nothing that happens upstream makes a table, a loaded or a fetched      *)
(* result untrue.                                                          *)
LEMMA UpstreamKeeps ==
    ASSUME SyncInv, UpstreamStep, UpstreamType', UpstreamInv', ProcsType'
    PROVE  SyncInv'
<1> USE DEF SyncInv, Types
<1>1. UNCHANGED <<account, alias, cursor, link, latest, consumed, tasks, sync, reader,
                  floor, given, published>>
      /\ Source' = Source /\ Enabled' = Enabled
  BY DEF UpstreamStep, Source, Enabled
<1>2. Source \in Sources
  BY DEF AccountType, Source
<1>3. \A s \in Sources : /\ box[s] \in Mailbox /\ box'[s] \in Mailbox
                         /\ Later(box[s], box'[s])
  BY DEF UpstreamStep, UpstreamType, Mailbox
<1>4. Types'
  BY <1>1 DEF AccountType, AliasType, RowsType, HistoryType
<1>5. CursorInv'
  <2>1. SUFFICES ASSUME cursor # NoCursor
                 PROVE  ReadFrom(box'[Source], cursor.gen, cursor.last)
    BY <1>1 DEF CursorInv
  <2>2. cursor.gen \in Nat /\ cursor.last \in Nat
    BY DEF RowsType, Position
  <2>3. QED
    BY <2>1, <2>2, <1>2, <1>3, ReadFromLater DEF CursorInv
<1>6. LatestInv'
  <2>1. SUFFICES ASSUME NEW a \in Aliases, latest[a] # NoMessage
                 PROVE  ReadFrom(box'[Source], latest[a].gen, latest[a].uid)
    BY <1>1 DEF LatestInv
  <2>2. latest[a].gen \in Nat /\ latest[a].uid \in Nat
    BY DEF RowsType, Message
  <2>3. ReadFrom(box[Source], latest[a].gen, latest[a].uid)
    BY <2>1 DEF LatestInv
  <2>4. QED
    BY <2>2, <2>3, <1>2, <1>3, ReadFromLater
<1>7. SnapshotOfGeneration' /\ OnlyCurrentSource' /\ LoadedInv' /\ ReaderInv' /\ GivenInv'
      /\ DeliveredExactly' /\ PublishedInv' /\ PublicUIDStable'
  BY <1>1 DEF SnapshotOfGeneration, OnlyCurrentSource, LoadedInv, ReaderInv, GivenInv,
              DeliveredExactly, DeliveredOnce, ConsumedWasDelivered, PublishedInv, PublicUIDStable,
              IsInjective
<1>8. ArchiveComplete'
  <2>1. SUFFICES ASSUME cursor # NoCursor, cursor.gen = box'[Source].gen,
                        NEW m \in box'[Source].messages, floor < m.uid, m.uid <= cursor.last,
                        NEW a \in m.to \cap Enabled
                 PROVE  \E l \in link : l.alias = a /\ l.gen = cursor.gen /\ l.uid = m.uid
    BY <1>1 DEF ArchiveComplete, Inbox
  <2>2. cursor.gen = box[Source].gen /\ cursor.last < box[Source].next
    <3>1. ReadFrom(box[Source], cursor.gen, cursor.last)
      BY <2>1 DEF CursorInv
    <3>2. box[Source].gen \in Nat /\ box'[Source].gen \in Nat /\ cursor.gen \in Nat
      BY <1>2, <1>3 DEF Mailbox, RowsType, Position
    <3>3. box'[Source].gen >= box[Source].gen
      BY <1>2, <1>3, <3>2 DEF Later
    <3>4. QED
      BY <2>1, <3>1, <3>2, <3>3 DEF ReadFrom
  <2>3. PICK x \in box[Source].messages : x.uid = m.uid /\ x.to = m.to
    <3>1. m.uid \in Nat /\ cursor.last \in Nat /\ box[Source].next \in Nat
      BY <1>2, <1>3 DEF Mailbox, Mail, RowsType, Position
    <3>2. ~(m.uid >= box[Source].next)
      BY <3>1, <2>1, <2>2
    <3>3. box[Source].gen \in Nat
      BY <1>2, <1>3 DEF Mailbox
    <3>4. QED
      BY <3>2, <3>3, <1>2, <1>3, <2>1, <2>2 DEF Later
  <2>4. QED
    BY <2>1, <2>2, <2>3 DEF ArchiveComplete, Inbox
<1>9. FetchedInv'
  <2>1. SUFFICES ASSUME sync.step = "fetched" PROVE FetchedInv'
    BY <1>1 DEF FetchedInv
  <2> DEFINE r == sync.result
             b == box[Source]
             c == box'[Source]
  <2>2. sync \in FetchedSync
    BY <2>1 DEF ProcsType, NoSync, LoadedSync
  <2>3. sync.from \in Sources /\ r \in Result
    BY <2>2 DEF FetchedSync
  <2>4. r.gen \in Nat /\ r.last \in Nat /\ r.messages \subseteq Mail
    BY <2>3 DEF Result
  <2>5. ReadFrom(box'[sync.from], r.gen, r.last)
    BY <2>1, <2>3, <2>4, <1>3, ReadFromLater DEF FetchedInv
  <2>6. ASSUME sync.version = account.version
        PROVE  ResultComplete(Source, r)' /\ ResultEmpty(Source, r)'
    <3>1. sync.from = Source /\ ResultComplete(Source, r) /\ ResultEmpty(Source, r)
          /\ ReadFrom(b, r.gen, r.last)
      BY <2>1, <2>6 DEF FetchedInv
    <3>2. b \in Mailbox /\ c \in Mailbox /\ Later(b, c)
      BY <1>2, <1>3
    <3> HIDE DEF b, c, r
    <3>3. b.gen \in Nat /\ b.next \in Nat /\ c.gen \in Nat /\ c.messages \subseteq Mail
          /\ c.gen >= b.gen
      BY <3>2 DEF Mailbox, Later
    <3>4. ASSUME ~r.reset
          PROVE  /\ cursor # NoCursor /\ cursor.gen = r.gen
                 /\ c.gen = r.gen =>
                       \A m \in c.messages : cursor.last < m.uid /\ m.uid <= r.last =>
                          \A a \in m.to \cap Enabled :
                              \E x \in r.messages : x.uid = m.uid /\ a \in x.to
      <4>1. cursor # NoCursor /\ cursor.gen = r.gen
            /\ (b.gen = r.gen =>
                  \A m \in b.messages : cursor.last < m.uid /\ m.uid <= r.last =>
                     \A a \in m.to \cap Enabled :
                         \E x \in r.messages : x.uid = m.uid /\ a \in x.to)
        BY <3>1, <3>4 DEF ResultComplete, Inbox, b
      <4>2. SUFFICES ASSUME c.gen = r.gen, NEW m \in c.messages, cursor.last < m.uid,
                            m.uid <= r.last, NEW a \in m.to \cap Enabled
                     PROVE  \E x \in r.messages : x.uid = m.uid /\ a \in x.to
        BY <4>1
      <4>3. b.gen = r.gen /\ r.last < b.next
        BY <4>2, <3>1, <3>3, <2>4 DEF ReadFrom
      <4>4. m.uid \in Nat
        BY <3>3 DEF Mail
      <4>5. PICK x \in b.messages : x.uid = m.uid /\ x.to = m.to
        BY <4>2, <4>3, <4>4, <3>2, <3>3, <2>4 DEF Later
      <4>6. QED
        BY <4>1, <4>2, <4>3, <4>5
    <3>5. ASSUME NEW a \in r.empty \cap Enabled, latest[a].gen = r.gen
          PROVE  Expunged(c, latest[a])
      <4>1. SUFFICES ASSUME c.gen = r.gen, NEW m \in c.messages, m.uid = latest[a].uid
                     PROVE  FALSE
        BY <3>5 DEF Expunged
      <4>2. a \in Aliases /\ latest[a] \in Message
        BY DEF Enabled, RowsType
      <4>3. b.gen = r.gen
        BY <4>1, <3>1, <3>3, <2>4 DEF ReadFrom
      <4>4. latest[a] # NoMessage
        BY <3>5, <3>1, <2>4 DEF NoMessage, ReadFrom
      <4>5. latest[a].uid < b.next /\ latest[a].uid \in Nat
        BY <4>2, <4>3, <4>4, <3>5 DEF LatestInv, ReadFrom, b, Message
      <4>6. PICK x \in b.messages : x.uid = m.uid
        BY <4>1, <4>3, <4>5, <3>2, <3>3 DEF Later
      <4>7. Expunged(b, latest[a])
        BY <3>1, <3>5 DEF ResultEmpty, b
      <4>8. QED
        BY <4>1, <4>3, <4>6, <4>7, <3>5 DEF Expunged
    <3>6. QED
      BY <1>1, <3>4, <3>5, Zenon DEF ResultComplete, ResultEmpty, Inbox, c, r
  <2>7. QED
    BY <1>1, <2>1, <2>5, <2>6 DEF FetchedInv
<1>10. QED
  BY <1>4, <1>5, <1>6, <1>7, <1>8, <1>9

-----------------------------------------------------------------------------
LEMMA SourceType ==
    ASSUME AccountType
    PROVE  /\ Source \in Sources /\ Source \in Nat
           /\ account.version \in Nat /\ account.enabled \in BOOLEAN
BY SyncAssumption DEF AccountType, Source, Sources

(* The seen worker lists tasks, takes the lock, deletes tasks or fails.    *)
LEMMA WorkerKeeps ==
    ASSUME SyncInv, ProcsType', tasks' \subseteq tasks,
           UNCHANGED <<box, account, alias, cursor, link, latest, consumed, sync, reader,
                       floor, given, published>>
    PROVE  SyncInv'
<1> USE DEF SyncInv, Types
<1>1. Source' = Source /\ Enabled' = Enabled
  BY DEF Source, Enabled
<1>2. Types'
  BY DEF UpstreamType, AccountType, AliasType, RowsType, HistoryType
<1>3. UpstreamInv' /\ CursorInv' /\ LatestInv' /\ LoadedInv' /\ ReaderInv' /\ GivenInv'
      /\ PublishedInv'
  BY <1>1 DEF UpstreamInv, CursorInv, LatestInv, LoadedInv, ReaderInv, GivenInv,
              PublishedInv, Inbox
<1>4. FetchedInv'
  BY <1>1 DEF FetchedInv, ResultComplete, ResultEmpty, Inbox
<1>5. SnapshotOfGeneration' /\ OnlyCurrentSource' /\ ArchiveComplete' /\ DeliveredExactly'
      /\ PublicUIDStable'
  BY <1>1 DEF SnapshotOfGeneration, OnlyCurrentSource, ArchiveComplete, DeliveredExactly,
              Inbox,
              DeliveredOnce, ConsumedWasDelivered, PublicUIDStable, IsInjective
<1>6. QED
  BY <1>2, <1>3, <1>4, <1>5

LEMMA SeenWorkerKeeps ==
    ASSUME SyncInv, ListTasks \/ ProcessAccount \/ DeleteSeenTasks \/ FailSeen
    PROVE  SyncInv'
<1> USE DEF SyncInv, Types
<1>1. CASE ListTasks
  <2>1. seen' = [NoWork EXCEPT !.step = "listed", !.batch = tasks] /\ UNCHANGED <<sync, reader>>
    BY <1>1 DEF ListTasks
  <2>2. ProcsType'
    BY <2>1 DEF ProcsType, RowsType, NoWork
  <2>3. QED
    BY <1>1, <2>2, WorkerKeeps DEF ListTasks, upstream, tables, history
<1>2. CASE ProcessAccount
  <2>1. seen' = [seen EXCEPT !.step = "mark", !.source = Source] /\ UNCHANGED <<sync, reader>>
    BY <1>2 DEF ProcessAccount
  <2>2. Source \in Sources /\ Source \in Nat
    BY SourceType
  <2>3. ProcsType'
    BY <2>1, <2>2 DEF ProcsType
  <2>4. QED
    BY <1>2, <2>3, WorkerKeeps DEF ProcessAccount, upstream, tables, history
<1>3. CASE DeleteSeenTasks
  <2>1. /\ UNCHANGED <<sync, reader>> /\ seen.step = "marked" /\ tasks' \subseteq tasks
        /\ \/ seen' = NoWork
           \/ seen' = [seen EXCEPT !.step = "mark", !.batch = @ \ Group]
    BY <1>3 DEF DeleteSeenTasks
  <2>2. ProcsType'
    <3>1. CASE seen' = NoWork
      BY <2>1, <3>1 DEF ProcsType, NoWork
    <3>2. CASE seen' = [seen EXCEPT !.step = "mark", !.batch = @ \ Group]
      <4>1. /\ seen.batch \subseteq Task /\ seen.source \in Nat /\ seen.source \in Sources
            /\ seen \in [step : {"idle", "listed", "mark", "marked"}, batch : SUBSET Task,
                          source : Nat]
        BY <2>1 DEF ProcsType
      <4>2. seen.batch \ Group \in SUBSET Task
        BY <4>1
      <4>3. /\ seen' \in [step : {"idle", "listed", "mark", "marked"}, batch : SUBSET Task,
                           source : Nat]
            /\ seen'.source = seen.source
        BY <3>2, <4>1, <4>2
      <4>4. QED
        BY <2>1, <4>1, <4>3 DEF ProcsType
    <3>3. QED
      BY <2>1, <3>1, <3>2
  <2>3. QED
    BY <1>3, <2>1, <2>2, WorkerKeeps DEF DeleteSeenTasks, upstream, history
<1>4. CASE FailSeen
  <2>1. seen' = NoWork /\ UNCHANGED <<sync, reader>>
    BY <1>4 DEF FailSeen
  <2>2. ProcsType'
    BY <2>1 DEF ProcsType, NoWork
  <2>3. QED
    BY <1>4, <2>2, WorkerKeeps DEF FailSeen, upstream, tables, history
<1>5. QED
  BY <1>1, <1>2, <1>3, <1>4

-----------------------------------------------------------------------------
(* One-time reads.                                                         *)

LEMMA ReadBindingKeeps ==
    ASSUME SyncInv, NEW a \in Aliases, ReadBinding(a)
    PROVE  SyncInv'
<1> USE DEF SyncInv, Types
<1>1. /\ UNCHANGED <<box, account, alias, cursor, link, latest, consumed, tasks, sync, seen,
                     floor, given, published>>
      /\ reader' = [alias |-> {a}, message |-> latest[a], at |-> alias[a].at]
      /\ latest[a] # NoMessage
  BY DEF ReadBinding, upstream, tables, history
<1>2. Source' = Source /\ Enabled' = Enabled
  BY <1>1 DEF Source, Enabled
<1>3. latest[a] \in Message /\ alias[a].at \in Nat
  BY DEF RowsType, AliasType, AliasRow
<1>4. Types'
  <2>1. reader' \in [alias : SUBSET Aliases, message : Message, at : Nat]
    BY <1>1, <1>3
  <2>2. QED
    BY <1>1, <2>1 DEF UpstreamType, AccountType, AliasType, RowsType, ProcsType, HistoryType
<1>5. UpstreamInv' /\ CursorInv' /\ LatestInv' /\ LoadedInv' /\ GivenInv' /\ PublishedInv'
  BY <1>1, <1>2 DEF UpstreamInv, CursorInv, LatestInv, LoadedInv, GivenInv, PublishedInv,
                    Inbox
<1>6. FetchedInv'
  BY <1>1, <1>2 DEF FetchedInv, ResultComplete, ResultEmpty, Inbox
<1>7. SnapshotOfGeneration' /\ OnlyCurrentSource' /\ ArchiveComplete' /\ DeliveredExactly'
      /\ PublicUIDStable'
  BY <1>1, <1>2 DEF SnapshotOfGeneration, OnlyCurrentSource, ArchiveComplete,
                    DeliveredExactly,
       Inbox, DeliveredOnce, ConsumedWasDelivered, PublicUIDStable, IsInjective
<1>8. ReaderInv'
  <2>1. reader'.message = latest[a]
    BY <1>1
  <2>2. /\ latest[a].gen >= 1 /\ latest[a].from = Source /\ latest[a].at < account.version
    BY <1>1 DEF LatestInv, ReadFrom
  <2>3. Source \in Nat
    BY SourceType
  <2>4. QED
    BY <1>1, <1>2, <2>1, <2>2, <2>3 DEF ReaderInv
<1>9. QED
  BY <1>4, <1>5, <1>6, <1>7, <1>8

LEMMA AppendGives ==
    ASSUME NEW S, NEW q \in Seq(S), NEW e \in S
    PROVE  /\ Append(q, e) \in Seq(S)
           /\ Len(Append(q, e)) = Len(q) + 1 /\ Len(q) \in Nat
           /\ DOMAIN q = 1 .. Len(q) /\ DOMAIN Append(q, e) = 1 .. Len(q) + 1
           /\ \A i \in DOMAIN q : Append(q, e)[i] = q[i]
           /\ Append(q, e)[Len(q) + 1] = e
BY AppendProperties

(* What a request claims is the snapshot it read, of the present source.   *)
LEMMA ClaimedIsCurrent ==
    ASSUME SyncInv, NEW a \in Aliases, a \in reader.alias, Claimable(a)
    PROVE  /\ latest[a] # NoMessage
           /\ reader.message.gen = latest[a].gen /\ reader.message.uid = latest[a].uid
           /\ reader.message.from = Source /\ latest[a].from = Source
           /\ alias[a].state # "deleted"
           /\ \A d \in consumed :
                 ~(d.alias = a /\ d.gen = reader.message.gen /\ d.uid = reader.message.uid)
<1> USE DEF SyncInv, Types
<1> DEFINE m == reader.message
<1>1. Source \in Nat /\ m.from \in Nat /\ m.at \in Nat /\ latest[a].at \in Nat /\ latest[a].gen \in Nat
  BY SourceType DEF RowsType, ProcsType, Message
<1>2. reader # NoReader
  BY DEF NoReader
<1>3. /\ m.gen >= 1 /\ m.from <= Source
      /\ m.from # Source => \A x \in Aliases : latest[x] # NoMessage => m.at < latest[x].at
  BY <1>2 DEF ReaderInv
<1>4. /\ latest[a].at = m.at /\ latest[a].gen = m.gen /\ latest[a].uid = m.uid
      /\ a \in Enabled
      /\ ~\E d \in consumed : d.alias = a /\ d.gen = latest[a].gen /\ d.uid = latest[a].uid
  BY DEF Claimable
<1>5. latest[a] # NoMessage
  BY <1>1, <1>3, <1>4 DEF NoMessage
<1>6. m.from = Source
  BY <1>1, <1>3, <1>4, <1>5
<1>7. latest[a].from = Source
  BY <1>5 DEF OnlyCurrentSource
<1>8. QED
  BY <1>4, <1>5, <1>6, <1>7 DEF Enabled

(* ConsumeLatestMessage gives a snapshot of the present source that is not *)
(* recorded yet, and records it.                                           *)
LEMMA ConsumeKeeps ==
    ASSUME SyncInv, NEW a \in Aliases, Consume(a)
    PROVE  SyncInv'
<1> USE DEF SyncInv, Types
<1> DEFINE m == reader.message
           c == [alias |-> a, gen |-> latest[a].gen, uid |-> latest[a].uid, from |-> latest[a].from]
           g == <<a, m.from, m.gen, m.uid>>
<1>1. /\ UNCHANGED <<box, account, alias, cursor, link, latest, sync, seen, floor, published>>
      /\ reader' = NoReader /\ a \in reader.alias
  BY DEF Consume, upstream
<1>2. Source' = Source /\ Enabled' = Enabled /\ Source \in Nat
  BY <1>1, SourceType DEF Source, Enabled
<1>3. latest[a] \in Message /\ m \in Message
  BY DEF RowsType, ProcsType
<1>4. m.from \in Nat /\ m.gen \in Nat /\ m.uid \in Nat /\ m.at \in Nat
      /\ latest[a].from \in Nat /\ latest[a].gen \in Nat /\ latest[a].uid \in Nat /\ latest[a].at \in Nat
  BY <1>3 DEF Message
<1>5. \/ UNCHANGED <<consumed, tasks, given>>
      \/ /\ Claimable(a) /\ consumed' = consumed \cup {c} /\ given' = Append(given, g)
         /\ tasks' = tasks \cup {[gen |-> latest[a].gen, uid |-> latest[a].uid]}
  BY DEF Consume
<1>6. ASSUME Claimable(a)
      PROVE  /\ latest[a] # NoMessage /\ m.gen = latest[a].gen /\ m.uid = latest[a].uid
             /\ m.from = Source /\ latest[a].from = Source
             /\ alias[a].state # "deleted"
             /\ \A d \in consumed : ~(d.alias = a /\ d.gen = m.gen /\ d.uid = m.uid)
  BY <1>1, <1>6, ClaimedIsCurrent
<1>7. c \in [alias : Aliases, gen : Nat, uid : Nat, from : Nat]
  BY <1>4
<1>8. g \in Aliases \X Nat \X Nat \X Nat
  BY <1>4
<1>9. given \in Seq(Aliases \X Nat \X Nat \X Nat)
  BY DEF HistoryType
<1>10. Types'
  <2>1. NoReader \in [alias : SUBSET Aliases, message : Message, at : Nat]
    BY DEF NoReader, NoMessage, Message
  <2>2. ProcsType'
    BY <1>1, <2>1 DEF ProcsType
  <2>3. [gen |-> latest[a].gen, uid |-> latest[a].uid] \in Task
    BY <1>4 DEF Task
  <2>4. RowsType'
    BY <1>1, <1>5, <1>7, <2>3 DEF RowsType
  <2>5. HistoryType'
    <3>1. Append(given, g) \in Seq(Aliases \X Nat \X Nat \X Nat)
      BY <1>8, <1>9, AppendGives
    <3> HIDE DEF g
    <3>2. QED
      BY <1>1, <1>5, <3>1 DEF HistoryType
  <2>6. QED
    BY <1>1, <2>2, <2>4, <2>5 DEF UpstreamType, AccountType, AliasType
<1>11. UpstreamInv' /\ CursorInv' /\ LatestInv' /\ LoadedInv' /\ PublishedInv'
  BY <1>1, <1>2 DEF UpstreamInv, CursorInv, LatestInv, LoadedInv, PublishedInv, Inbox
<1>12. FetchedInv'
  BY <1>1, <1>2 DEF FetchedInv, ResultComplete, ResultEmpty, Inbox
<1>13. SnapshotOfGeneration' /\ ArchiveComplete' /\ PublicUIDStable' /\ ReaderInv'
  BY <1>1, <1>2 DEF SnapshotOfGeneration, ArchiveComplete, PublicUIDStable, ReaderInv, Inbox
<1> HIDE DEF c, g, m
<1>14. OnlyCurrentSource'
  BY <1>1, <1>2, <1>5, <1>6 DEF OnlyCurrentSource, c
<1>15. ASSUME Claimable(a), given' = Append(given, g)
       PROVE  /\ Len(given') = Len(given) + 1 /\ Len(given) \in Nat
              /\ DOMAIN given = 1 .. Len(given) /\ DOMAIN given' = 1 .. Len(given) + 1
              /\ \A i \in DOMAIN given : given'[i] = given[i]
              /\ given'[Len(given) + 1] = g
  <2> DEFINE S == Aliases \X Nat \X Nat \X Nat
  <2>1. given \in Seq(S) /\ g \in S
    BY <1>8, <1>9
  <2> HIDE DEF S
  <2> QED
    BY ONLY <1>15, <2>1, AppendGives
<1>16. GivenInv'
  <2>1. CASE UNCHANGED <<consumed, tasks, given>>
    BY <1>1, <1>2, <2>1 DEF GivenInv
  <2>2. CASE Claimable(a) /\ consumed' = consumed \cup {c} /\ given' = Append(given, g)
    <3>1. SUFFICES ASSUME NEW i \in DOMAIN given'
                   PROVE  /\ given'[i][2] <= Source
                          /\ given'[i][2] = Source /\ alias[given'[i][1]].state # "deleted" =>
                                [alias |-> given'[i][1], gen |-> given'[i][3],
                                 uid |-> given'[i][4], from |-> Source] \in consumed'
      BY <1>1, <1>2 DEF GivenInv
    <3>2. CASE i \in DOMAIN given
      <4>1. given'[i] = given[i] /\ consumed \subseteq consumed'
        BY <3>2, <2>2, <1>15
      <4>2. QED
        BY <3>2, <4>1 DEF GivenInv
    <3>3. CASE i \notin DOMAIN given
      <4>1. given'[i] = g
        BY <3>3, <2>2, <1>15
      <4>2. g[1] = a /\ g[2] = m.from /\ g[3] = m.gen /\ g[4] = m.uid
        BY DEF g
      <4>3. [alias |-> a, gen |-> m.gen, uid |-> m.uid, from |-> Source] = c
        BY <1>6, <2>2 DEF c
      <4>4. QED
        BY <4>1, <4>2, <4>3, <2>2, <1>2, <1>6
    <3>4. QED
      BY <3>2, <3>3
  <2>3. QED
    BY <1>5, <2>1, <2>2
<1>17. DeliveredExactly'
  <2>1. CASE UNCHANGED <<consumed, tasks, given>>
    BY <2>1 DEF DeliveredExactly, DeliveredOnce, ConsumedWasDelivered, IsInjective
  <2>2. CASE Claimable(a) /\ consumed' = consumed \cup {c} /\ given' = Append(given, g)
    <3>1. \A i \in DOMAIN given : given[i] # g
      <4>1. SUFFICES ASSUME NEW i \in DOMAIN given, given[i] = g PROVE FALSE
        OBVIOUS
      <4>2. g[1] = a /\ g[2] = m.from /\ g[3] = m.gen /\ g[4] = m.uid
        BY DEF g
      <4>3. [alias |-> a, gen |-> m.gen, uid |-> m.uid, from |-> Source] \in consumed
        BY <4>1, <4>2, <2>2, <1>6 DEF GivenInv
      <4>4. QED
        BY <4>3, <2>2, <1>6
    <3>2. DeliveredOnce'
      BY <3>1, <2>2, <1>15 DEF DeliveredExactly, DeliveredOnce, IsInjective
    <3>3. ConsumedWasDelivered'
      <4>1. SUFFICES ASSUME NEW d \in consumed'
                     PROVE  \E i \in DOMAIN given' : given'[i] = <<d.alias, d.from, d.gen, d.uid>>
        BY DEF ConsumedWasDelivered
      <4>2. CASE d \in consumed
        <5>1. PICK i \in DOMAIN given : given[i] = <<d.alias, d.from, d.gen, d.uid>>
          BY <4>2 DEF DeliveredExactly, ConsumedWasDelivered
        <5>2. i \in DOMAIN given' /\ given'[i] = given[i]
          BY <5>1, <2>2, <1>15
        <5>3. QED
          BY <5>1, <5>2
      <4>3. CASE d = c
        <5>1. <<d.alias, d.from, d.gen, d.uid>> = g
          BY <4>3, <2>2, <1>6 DEF c, g
        <5>2. Len(given) + 1 \in DOMAIN given' /\ given'[Len(given) + 1] = g
          BY <2>2, <1>15
        <5>3. QED
          BY <5>1, <5>2
      <4>4. QED
        BY <4>2, <4>3, <2>2
    <3>4. QED
      BY <3>2, <3>3 DEF DeliveredExactly
  <2>3. QED
    BY <1>5, <2>1, <2>2
<1>18. QED
  BY <1>10, <1>11, <1>12, <1>13, <1>14, <1>16, <1>17

-----------------------------------------------------------------------------
(* Configuration changes within one source, and failures.  A change keeps  *)
(* the version only if nothing a running sync relies on has changed.       *)
ConfigurationStep ==
    /\ UNCHANGED <<box, reader, seen, floor, given, published>>
    /\ sync' \in {sync, NoSync}
    /\ account'.source = account.source /\ account'.version >= account.version
    /\ cursor' \in {cursor, NoCursor}
    /\ \A x \in Aliases :
          /\ latest'[x] \in {latest[x], NoMessage}
          /\ alias'[x].gen = alias[x].gen /\ alias'[x].next = alias[x].next
          /\ alias'[x].state # "deleted" =>
                alias[x].state # "deleted" /\ \A c \in consumed : c.alias = x => c \in consumed'
    /\ consumed' \subseteq consumed
    /\ cursor' # NoCursor =>
          Enabled' \subseteq Enabled /\ \A l \in link : l.alias \in Enabled' => l \in link'
    /\ account'.version = account.version =>
          /\ Enabled' = Enabled /\ cursor' = cursor
          /\ \A x \in Enabled : latest'[x] = latest[x]

LEMMA ConfigurationKeeps ==
    ASSUME SyncInv, ConfigurationStep, AccountType', AliasType', RowsType'
    PROVE  SyncInv'
<1> USE DEF SyncInv, Types
<1>1. /\ UNCHANGED <<box, reader, seen, floor, given, published>>
      /\ Source' = Source /\ account'.version >= account.version
      /\ account'.version \in Nat /\ account.version \in Nat
  BY SourceType DEF ConfigurationStep, Source, AccountType
<1>2. Types'
  <2>1. ProcsType'
    BY DEF ConfigurationStep, ProcsType
  <2>2. UpstreamType' /\ HistoryType'
    BY <1>1 DEF UpstreamType, HistoryType
  <2>3. QED
    BY <2>1, <2>2
<1>3. UpstreamInv' /\ CursorInv'
  BY <1>1 DEF UpstreamInv, CursorInv, Inbox, ConfigurationStep
<1>4. \A x \in Aliases : latest'[x] # NoMessage => latest'[x] = latest[x]
  BY DEF ConfigurationStep
<1>5. LatestInv'
  <2>1. SUFFICES ASSUME NEW a \in Aliases, latest'[a] # NoMessage
                 PROVE  /\ ReadFrom(box[Source], latest[a].gen, latest[a].uid)
                        /\ latest[a].from = Source
                        /\ latest[a].at < account'.version
    BY <1>1, <1>4 DEF LatestInv
  <2>2. /\ ReadFrom(box[Source], latest[a].gen, latest[a].uid)
        /\ latest[a].from = Source
        /\ latest[a].at < account.version
    BY <2>1, <1>4 DEF LatestInv
  <2>3. latest[a].at \in Nat
    BY DEF RowsType, Message
  <2>4. QED
    BY <2>2, <2>3, <1>1
<1>6. SnapshotOfGeneration' /\ OnlyCurrentSource'
  BY <1>1, <1>4 DEF SnapshotOfGeneration, OnlyCurrentSource, ConfigurationStep
<1>7. ArchiveComplete'
  <2>1. CASE cursor' = NoCursor
    BY <2>1 DEF ArchiveComplete
  <2>2. CASE cursor' # NoCursor
    <3>1. /\ cursor' = cursor /\ Enabled' \subseteq Enabled
          /\ \A l \in link : l.alias \in Enabled' => l \in link'
      BY <2>2 DEF ConfigurationStep
    <3>2. SUFFICES ASSUME cursor.gen = box[Source].gen, NEW m \in Inbox(Source),
                          floor < m.uid, m.uid <= cursor.last, NEW a \in m.to \cap Enabled'
                   PROVE  \E l \in link' : l.alias = a /\ l.gen = cursor.gen /\ l.uid = m.uid
      BY <1>1, <3>1 DEF ArchiveComplete, Inbox
    <3>3. PICK l \in link : l.alias = a /\ l.gen = cursor.gen /\ l.uid = m.uid
      BY <3>1, <3>2, <2>2 DEF ArchiveComplete
    <3>4. QED
      BY <3>1, <3>2, <3>3
  <2>3. QED
    BY <2>1, <2>2
<1>8. LoadedInv'
  <2>1. SUFFICES ASSUME sync' = sync, sync.step = "loaded" PROVE LoadedInv'
    BY DEF LoadedInv, ConfigurationStep, NoSync
  <2>2. sync \in LoadedSync
    BY <2>1 DEF ProcsType, NoSync, FetchedSync
  <2>3. sync.version \in Nat /\ sync.version <= account.version
    BY <2>1, <2>2 DEF LoadedInv, LoadedSync
  <2>4. sync.version <= account'.version
    BY <2>3, <1>1
  <2>5. ASSUME sync.version = account'.version
        PROVE  /\ sync.source = Source' /\ sync.enabled = Enabled' /\ sync.cursor = cursor'
               /\ \A a \in Enabled' : sync.positions[a] = latest'[a]
    <3>1. account'.version = account.version
      BY <2>3, <2>5, <1>1
    <3>2. QED
      BY <3>1, <2>1, <2>5, <1>1 DEF LoadedInv, ConfigurationStep
  <2>6. QED
    BY <2>1, <2>4, <2>5 DEF LoadedInv
<1>9. FetchedInv'
  <2>1. SUFFICES ASSUME sync' = sync, sync.step = "fetched" PROVE FetchedInv'
    BY DEF FetchedInv, ConfigurationStep, NoSync
  <2>2. sync \in FetchedSync
    BY <2>1 DEF ProcsType, NoSync, LoadedSync
  <2>3. sync.version \in Nat /\ sync.version <= account.version
    BY <2>1, <2>2 DEF FetchedInv, FetchedSync
  <2>4. sync.version <= account'.version
    BY <2>3, <1>1
  <2> DEFINE r == sync.result
  <2>5. ASSUME sync.version = account'.version
        PROVE  /\ sync.from = Source' /\ sync.enabled = Enabled'
               /\ ResultComplete(Source, r)' /\ ResultEmpty(Source, r)'
    <3>1. account'.version = account.version
      BY <2>3, <2>5, <1>1
    <3>2. /\ Enabled' = Enabled /\ cursor' = cursor
          /\ \A x \in Enabled : latest'[x] = latest[x]
      BY <3>1 DEF ConfigurationStep
    <3>3. /\ sync.from = Source /\ sync.enabled = Enabled
          /\ ResultComplete(Source, r) /\ ResultEmpty(Source, r)
      BY <3>1, <2>1, <2>5 DEF FetchedInv
    <3>4. QED
      BY <3>2, <3>3, <2>1, <1>1 DEF ResultComplete, ResultEmpty, Inbox
  <2>6. ReadFrom(box[sync.from], r.gen, r.last)
        /\ \A m \in r.messages : 1 <= m.uid /\ m.uid <= r.last
    BY <2>1 DEF FetchedInv
  <2>7. QED
    BY <2>1, <2>4, <2>5, <2>6, <1>1 DEF FetchedInv
<1>10. ReaderInv'
  <2>1. SUFFICES ASSUME reader # NoReader PROVE ReaderInv'
    BY <1>1 DEF ReaderInv
  <2>2. reader.message.at \in Nat
    BY DEF ProcsType, Message
  <2>3. reader.message.at < account'.version
    BY <2>1, <2>2, <1>1 DEF ReaderInv
  <2>4. QED
    BY <2>1, <2>3, <1>1, <1>4 DEF ReaderInv
<1>11. GivenInv'
  <2>1. SUFFICES ASSUME NEW i \in DOMAIN given
                 PROVE  /\ given[i][2] <= Source
                        /\ given[i][2] = Source /\ alias'[given[i][1]].state # "deleted" =>
                              [alias |-> given[i][1], gen |-> given[i][3],
                               uid |-> given[i][4], from |-> Source] \in consumed'
    BY <1>1 DEF GivenInv
  <2>2. given[i][1] \in Aliases
    BY DEF HistoryType
  <2>3. QED
    BY <2>2 DEF GivenInv, ConfigurationStep
<1>12. DeliveredExactly' /\ PublicUIDStable'
  BY <1>1 DEF DeliveredExactly, DeliveredOnce, ConsumedWasDelivered, PublicUIDStable,
              IsInjective,
              ConfigurationStep
<1>13. PublishedInv'
  BY <1>1 DEF PublishedInv, ConfigurationStep, HistoryType
<1>14. QED
  BY <1>2, <1>3, <1>5, <1>6, <1>7, <1>8, <1>9, <1>10, <1>11, <1>12, <1>13

LEMMA PendingType ==
    ASSUME AliasType, NEW a \in Aliases
    PROVE  /\ Pending(a) \in AliasRow /\ Pending(a).state = alias[a].state
           /\ Pending(a).gen = alias[a].gen /\ Pending(a).next = alias[a].next
BY DEF AliasType, AliasRow, Pending

Account == [source : Sources, enabled : BOOLEAN, version : Nat]

LEMMA NewVersion ==
    ASSUME NEW q \in Account
    PROVE  LET f == [q EXCEPT !.version = @ + 1]
           IN  f \in Account /\ f.source = q.source /\ f.version = q.version + 1
<1>1. q.version + 1 \in Nat
  BY DEF Account
<1>2. QED
  BY <1>1 DEF Account

LEMMA NewVersionEnabled ==
    ASSUME NEW q \in Account, NEW e \in BOOLEAN
    PROVE  LET f == [q EXCEPT !.enabled = e, !.version = @ + 1]
           IN  f \in Account /\ f.source = q.source /\ f.version = q.version + 1
<1> DEFINE p == [q EXCEPT !.enabled = e]
<1>1. p \in Account /\ p.source = q.source /\ p.version = q.version
  BY DEF Account
<1>2. [q EXCEPT !.enabled = e, !.version = @ + 1] = [p EXCEPT !.version = @ + 1]
  OBVIOUS
<1> HIDE DEF p
<1>3. QED
  BY <1>1, <1>2, NewVersion

LEMMA AccountRow ==
    ASSUME AccountType,
           \/ account' = [account EXCEPT !.version = @ + 1]
           \/ \E e \in BOOLEAN : account' = [account EXCEPT !.enabled = e, !.version = @ + 1]
    PROVE  /\ AccountType' /\ account'.source = account.source
           /\ account'.version = account.version + 1
<1>1. account \in Account
  BY DEF AccountType, Account
<1>2. account' \in Account /\ account'.source = account.source
      /\ account'.version = account.version + 1
  BY <1>1, NewVersion, NewVersionEnabled, Zenon
<1>3. QED
  BY <1>2 DEF AccountType, Account

LEMMA NoCursorType == NoCursor \in Position
BY DEF NoCursor, Position

LEMMA NoMessageType == NoMessage \in Message
BY DEF NoMessage, Message

LEMMA ResetAccountKeeps ==
    ASSUME SyncInv, ResetAccount
    PROVE  SyncInv'
<1> USE DEF SyncInv, Types
<1>1. /\ UNCHANGED <<box, link, latest, consumed, tasks, sync, reader, seen, floor, given, published>>
      /\ cursor' = NoCursor /\ alias' = [a \in Aliases |-> Pending(a)]
      /\ \E e \in BOOLEAN : account' = [account EXCEPT !.enabled = e, !.version = @ + 1]
  BY DEF ResetAccount, upstream, procs, history
<1>2. /\ AccountType' /\ account'.source = account.source
      /\ account'.version = account.version + 1 /\ account.version \in Nat
  BY <1>1, AccountRow, SourceType
<1>3. /\ AliasType'
      /\ \A a \in Aliases : /\ alias'[a].state = alias[a].state
                            /\ alias'[a].gen = alias[a].gen /\ alias'[a].next = alias[a].next
  BY <1>1, PendingType DEF AliasType
<1>4. RowsType'
  BY <1>1, NoCursorType DEF RowsType
<1>5. ConfigurationStep
  BY <1>1, <1>2, <1>3 DEF ConfigurationStep
<1>6. QED
  BY <1>2, <1>3, <1>4, <1>5, ConfigurationKeeps

LEMMA DisableAccountKeeps ==
    ASSUME SyncInv, DisableAccount
    PROVE  SyncInv'
<1> USE DEF SyncInv, Types
<1>1. /\ UNCHANGED <<box, alias, cursor, link, latest, consumed, tasks, sync, reader, seen,
                     floor, given, published>>
      /\ account' = [account EXCEPT !.enabled = FALSE, !.version = @ + 1]
  BY DEF DisableAccount, upstream, procs, history
<1>2. /\ AccountType' /\ account'.source = account.source
      /\ account'.version = account.version + 1 /\ account.version \in Nat
  BY <1>1, AccountRow, SourceType
<1>3. AliasType' /\ RowsType'
  BY <1>1 DEF AliasType, RowsType
<1>4. ConfigurationStep
  BY <1>1, <1>2 DEF ConfigurationStep, Enabled
<1>5. QED
  BY <1>2, <1>3, <1>4, ConfigurationKeeps

LEMMA EnableAliasKeeps ==
    ASSUME SyncInv, NEW a \in Aliases, EnableAlias(a)
    PROVE  SyncInv'
<1> USE DEF SyncInv, Types
<1> DEFINE new == [Pending(a) EXCEPT !.state = "enabled"]
<1>1. /\ UNCHANGED <<box, link, latest, consumed, tasks, sync, reader, seen, floor, given, published>>
      /\ cursor' = NoCursor /\ alias' = [alias EXCEPT ![a] = new]
      /\ account' = [account EXCEPT !.version = @ + 1]
      /\ alias[a].state \in {"new", "disabled"}
  BY DEF EnableAlias, upstream, procs, history
<1>2. /\ AccountType' /\ account'.source = account.source
      /\ account'.version = account.version + 1 /\ account.version \in Nat
  BY <1>1, AccountRow, SourceType
<1>3. new \in AliasRow /\ new.gen = alias[a].gen /\ new.next = alias[a].next
  BY PendingType DEF AliasRow
<1> HIDE DEF new
<1>4. /\ AliasType'
      /\ \A x \in Aliases : /\ alias[x].state = "deleted" => alias'[x].state = "deleted"
                            /\ alias'[x].gen = alias[x].gen /\ alias'[x].next = alias[x].next
  BY <1>1, <1>3 DEF AliasType
<1>5. RowsType'
  BY <1>1, NoCursorType DEF RowsType
<1>6. ConfigurationStep
  BY <1>1, <1>2, <1>4 DEF ConfigurationStep
<1>7. QED
  BY <1>2, <1>4, <1>5, <1>6, ConfigurationKeeps

LEMMA DisableAliasKeeps ==
    ASSUME SyncInv, NEW a \in Aliases, DisableAlias(a)
    PROVE  SyncInv'
<1> USE DEF SyncInv, Types
<1>1. /\ UNCHANGED <<box, cursor, link, latest, consumed, tasks, sync, reader, seen,
                     floor, given, published>>
      /\ alias' = [alias EXCEPT ![a].state = "disabled"]
      /\ account' = [account EXCEPT !.version = @ + 1]
      /\ a \in Enabled
  BY DEF DisableAlias, upstream, procs, history
<1>2. /\ AccountType' /\ account'.source = account.source
      /\ account'.version = account.version + 1 /\ account.version \in Nat
  BY <1>1, AccountRow, SourceType
<1>3. /\ AliasType'
      /\ \A x \in Aliases : /\ alias'[x].state = IF x = a THEN "disabled" ELSE alias[x].state
                            /\ alias'[x].gen = alias[x].gen /\ alias'[x].next = alias[x].next
  BY <1>1 DEF AliasType, AliasRow
<1>4. RowsType'
  BY <1>1 DEF RowsType
<1>5. alias[a].state = "enabled" /\ Enabled' \subseteq Enabled
  BY <1>1, <1>3 DEF Enabled
<1>6. ConfigurationStep
  BY <1>1, <1>2, <1>3, <1>5 DEF ConfigurationStep
<1>7. QED
  BY <1>2, <1>3, <1>4, <1>6, ConfigurationKeeps

LEMMA DeleteAliasKeeps ==
    ASSUME SyncInv, NEW a \in Aliases, DeleteAlias(a)
    PROVE  SyncInv'
<1> USE DEF SyncInv, Types
<1>1. /\ UNCHANGED <<box, cursor, tasks, sync, reader, seen, floor, given, published>>
      /\ alias' = [alias EXCEPT ![a].state = "deleted"]
      /\ account' = IF a \in Enabled THEN [account EXCEPT !.version = @ + 1] ELSE account
      /\ link' = {l \in link : l.alias # a}
      /\ latest' = [latest EXCEPT ![a] = NoMessage]
      /\ consumed' = {c \in consumed : c.alias # a}
  BY DEF DeleteAlias, upstream, procs, history
<1>2. /\ AccountType' /\ account'.source = account.source /\ account.version \in Nat
      /\ account'.version = IF a \in Enabled THEN account.version + 1 ELSE account.version
  <2>1. CASE a \in Enabled
    BY <2>1, <1>1, AccountRow, SourceType
  <2>2. CASE a \notin Enabled
    BY <2>2, <1>1, SourceType DEF AccountType
  <2>3. QED
    BY <2>1, <2>2
<1>3. /\ AliasType'
      /\ \A x \in Aliases : /\ alias'[x].state = IF x = a THEN "deleted" ELSE alias[x].state
                            /\ alias'[x].gen = alias[x].gen /\ alias'[x].next = alias[x].next
  BY <1>1 DEF AliasType, AliasRow
<1>4. RowsType' /\ \A x \in Aliases : latest'[x] = IF x = a THEN NoMessage ELSE latest[x]
  BY <1>1, NoMessageType DEF RowsType
<1>5. Enabled' = Enabled \ {a}
  BY <1>3 DEF Enabled
<1>6. ConfigurationStep
  <2>1. \A x \in Aliases :
          /\ latest'[x] \in {latest[x], NoMessage}
          /\ alias'[x].gen = alias[x].gen /\ alias'[x].next = alias[x].next
          /\ alias'[x].state # "deleted" =>
                alias[x].state # "deleted" /\ \A c \in consumed : c.alias = x => c \in consumed'
    BY <1>1, <1>3, <1>4
  <2>2. \A l \in link : l.alias \in Enabled' => l \in link'
    BY <1>1, <1>5
  <2>3. account'.version = account.version =>
            Enabled' = Enabled /\ \A x \in Enabled : latest'[x] = latest[x]
    BY <1>2, <1>4, <1>5 DEF Enabled
  <2>4. consumed' \subseteq consumed /\ Enabled' \subseteq Enabled
        /\ account'.version >= account.version
    BY <1>1, <1>2, <1>5
  <2>5. QED
    BY <1>1, <1>2, <2>1, <2>2, <2>3, <2>4 DEF ConfigurationStep
<1>7. QED
  BY <1>2, <1>3, <1>4, <1>6, ConfigurationKeeps

(* A failure withdraws the aliases and keeps everything that was synced.   *)
LEMMA FailSyncKeeps ==
    ASSUME SyncInv, FailSync
    PROVE  SyncInv'
<1> USE DEF SyncInv, Types
<1> DEFINE failed(a) == [alias[a] EXCEPT !.status = "error", !.at = account.version + 1]
<1>1. /\ UNCHANGED <<box, cursor, link, latest, consumed, tasks, reader, seen, floor, given, published>>
      /\ sync' = NoSync
      /\ \/ UNCHANGED <<account, alias>>
         \/ /\ account' = [account EXCEPT !.version = @ + 1]
            /\ alias' = [a \in Aliases |-> IF a \in Enabled THEN failed(a) ELSE alias[a]]
  BY DEF FailSync, EndSync, upstream, history
<1>2. account.version \in Nat
  BY SourceType
<1>3. RowsType'
  BY <1>1 DEF RowsType
<1>4. CASE UNCHANGED <<account, alias>>
  <2>1. AccountType' /\ AliasType' /\ Enabled' = Enabled
    BY <1>4 DEF AccountType, AliasType, Enabled
  <2>2. ConfigurationStep
    BY <1>1, <1>2, <1>4, <2>1 DEF ConfigurationStep
  <2>3. QED
    BY <1>3, <2>1, <2>2, ConfigurationKeeps
<1>5. CASE /\ account' = [account EXCEPT !.version = @ + 1]
           /\ alias' = [a \in Aliases |-> IF a \in Enabled THEN failed(a) ELSE alias[a]]
  <2>1. /\ AccountType' /\ account'.source = account.source
        /\ account'.version = account.version + 1
    BY <1>5, AccountRow
  <2>2. \A a \in Aliases : /\ failed(a) \in AliasRow /\ failed(a).state = alias[a].state
                           /\ failed(a).gen = alias[a].gen /\ failed(a).next = alias[a].next
    <3>1. \A v \in Nat, q \in AliasRow :
              LET f == [q EXCEPT !.status = "error", !.at = v]
              IN  f \in AliasRow /\ f.state = q.state /\ f.gen = q.gen /\ f.next = q.next
      BY DEF AliasRow
    <3>2. account.version + 1 \in Nat
      BY <1>2
    <3>3. QED
      BY <3>1, <3>2 DEF AliasType
  <2> HIDE DEF failed
  <2>3. /\ AliasType'
        /\ \A a \in Aliases : /\ alias'[a].state = alias[a].state
                              /\ alias'[a].gen = alias[a].gen /\ alias'[a].next = alias[a].next
    BY <1>5, <2>2 DEF AliasType
  <2>4. Enabled' = Enabled
    BY <2>3 DEF Enabled
  <2>5. ConfigurationStep
    BY <1>1, <1>2, <2>1, <2>3, <2>4 DEF ConfigurationStep
  <2>6. QED
    BY <1>3, <2>1, <2>3, <2>5, ConfigurationKeeps
<1>6. QED
  BY <1>1, <1>4, <1>5

-----------------------------------------------------------------------------
(* Another mailbox source: everything that names a UID goes.               *)
LEMMA ChangeSourceKeeps ==
    ASSUME SyncInv, ChangeSource
    PROVE  SyncInv'
<1> USE DEF SyncInv, Types
<1>1. /\ UNCHANGED <<box, sync, reader, seen, floor, given, published>>
      /\ Source < MaxSource /\ cursor' = NoCursor
      /\ account' = [account EXCEPT !.source = @ + 1, !.version = @ + 1]
      /\ latest' = [a \in Aliases |-> NoMessage]
      /\ consumed' = {} /\ tasks' = {} /\ link' = {}
      /\ alias' = [a \in Aliases |-> FreshMailbox(a)]
  BY DEF ChangeSource, upstream, procs, history
<1>2. account.version \in Nat /\ Source \in Nat /\ Source \in Sources /\ MaxSource \in Nat
  BY SourceType, SyncAssumption
<1>3. AccountType' /\ Source' = Source + 1 /\ account'.version = account.version + 1
  <2>1. account.source + 1 \in Sources /\ account.version + 1 \in Nat
    BY <1>1, <1>2 DEF Source, Sources
  <2>2. QED
    BY <1>1, <2>1 DEF AccountType, Source
<1>4. \A a \in Aliases : /\ alias'[a] \in AliasRow /\ alias'[a].gen = alias[a].gen + 1
                         /\ alias[a].gen \in Nat
  <2>1. SUFFICES ASSUME NEW a \in Aliases
                 PROVE  /\ FreshMailbox(a) \in AliasRow /\ FreshMailbox(a).gen = alias[a].gen + 1
                        /\ alias[a].gen \in Nat
    BY <1>1
  <2>2. Pending(a) \in AliasRow /\ Pending(a).gen = alias[a].gen
    BY PendingType
  <2>3. ASSUME NEW q \in AliasRow
        PROVE  LET f == [q EXCEPT !.gen = @ + 1, !.next = 1]
               IN  f \in AliasRow /\ f.gen = q.gen + 1 /\ q.gen \in Nat
    <3> DEFINE p == [q EXCEPT !.gen = @ + 1]
               f == [p EXCEPT !.next = 1]
    <3>1. q.gen \in Nat /\ q.gen + 1 \in Nat
      BY DEF AliasRow
    <3>2. p \in AliasRow /\ p.gen = q.gen + 1
      BY <3>1 DEF AliasRow
    <3>3. [q EXCEPT !.gen = @ + 1, !.next = 1] = f
      OBVIOUS
    <3> HIDE DEF p
    <3>4. f \in AliasRow /\ f.gen = p.gen
      BY <3>2 DEF AliasRow
    <3>5. QED
      BY <3>1, <3>2, <3>3, <3>4
  <2>4. QED
    BY <2>2, <2>3 DEF FreshMailbox
<1>5. Types'
  <2>1. AliasType'
    BY <1>1, <1>4 DEF AliasType
  <2>2. RowsType'
    BY <1>1, NoCursorType, NoMessageType DEF RowsType
  <2>3. UpstreamType' /\ ProcsType' /\ HistoryType'
    BY <1>1 DEF UpstreamType, ProcsType, HistoryType
  <2>4. QED
    BY <1>3, <2>1, <2>2, <2>3
<1>6. \A a \in Aliases : latest'[a] = NoMessage
  BY <1>1
<1>7. /\ UpstreamInv' /\ CursorInv' /\ LatestInv' /\ SnapshotOfGeneration' /\ OnlyCurrentSource'
      /\ ArchiveComplete'
  BY <1>1, <1>6 DEF UpstreamInv, CursorInv, LatestInv, SnapshotOfGeneration,
                    OnlyCurrentSource,
                    ArchiveComplete, Inbox
<1>8. LoadedInv'
  <2>1. SUFFICES ASSUME sync.step = "loaded" PROVE LoadedInv'
    BY <1>1 DEF LoadedInv
  <2>2. sync.version \in Nat
    BY <2>1 DEF ProcsType, NoSync, FetchedSync, LoadedSync
  <2>3. sync.version <= account.version
    BY <2>1 DEF LoadedInv
  <2>4. sync.version <= account'.version /\ sync.version # account'.version
    BY <2>2, <2>3, <1>2, <1>3
  <2>5. QED
    BY <2>4, <1>1 DEF LoadedInv
<1>9. FetchedInv'
  <2>1. SUFFICES ASSUME sync.step = "fetched" PROVE FetchedInv'
    BY <1>1 DEF FetchedInv
  <2>2. sync.version \in Nat
    BY <2>1 DEF ProcsType, NoSync, FetchedSync, LoadedSync
  <2>3. sync.version <= account.version
        /\ ReadFrom(box[sync.from], sync.result.gen, sync.result.last)
        /\ \A m \in sync.result.messages : 1 <= m.uid /\ m.uid <= sync.result.last
    BY <2>1 DEF FetchedInv
  <2>4. sync.version <= account'.version /\ sync.version # account'.version
    BY <2>2, <2>3, <1>2, <1>3
  <2>5. QED
    BY <2>3, <2>4, <1>1 DEF FetchedInv
<1>10. ReaderInv'
  <2>1. SUFFICES ASSUME reader # NoReader PROVE ReaderInv'
    BY <1>1 DEF ReaderInv
  <2>2. reader.message.at \in Nat /\ reader.message.from \in Nat
    BY DEF ProcsType, Message
  <2>3. reader.message.at < account'.version /\ reader.message.from <= Source'
    BY <2>1, <2>2, <1>2, <1>3 DEF ReaderInv
  <2>4. QED
    BY <2>1, <2>3, <1>1, <1>6 DEF ReaderInv
<1>11. GivenInv'
  <2>1. \A i \in DOMAIN given : given[i][2] \in Nat /\ given[i][2] <= Source
    <3>1. \A i \in DOMAIN given : given[i] \in Aliases \X Nat \X Nat \X Nat
      BY DEF HistoryType
    <3>2. QED
      BY <3>1 DEF GivenInv
  <2>2. \A i \in DOMAIN given : given[i][2] <= Source + 1 /\ given[i][2] # Source + 1
    BY <2>1, <1>2
  <2>3. QED
    BY <2>2, <1>1, <1>3 DEF GivenInv
<1>12. DeliveredExactly' /\ PublicUIDStable'
  BY <1>1 DEF DeliveredExactly, DeliveredOnce, ConsumedWasDelivered, PublicUIDStable,
              IsInjective
<1>13. PublishedInv'
  <2>1. SUFFICES ASSUME NEW p \in published
                 PROVE  p.gen <= alias'[p.alias].gen /\ p.gen # alias'[p.alias].gen
    BY <1>1 DEF PublishedInv
  <2>2. p.gen \in Nat /\ p.alias \in Aliases
    BY DEF HistoryType
  <2>3. p.gen <= alias[p.alias].gen
    BY DEF PublishedInv
  <2>4. QED
    BY <2>2, <2>3, <1>4
<1>14. QED
  BY <1>5, <1>7, <1>8, <1>9, <1>10, <1>11, <1>12, <1>13

-----------------------------------------------------------------------------
(* The sync loads what the tables hold ...                                 *)
LEMMA StartSyncKeeps ==
    ASSUME SyncInv, StartSync
    PROVE  SyncInv'
<1> USE DEF SyncInv, Types
<1> DEFINE positions == [a \in Aliases |-> IF a \in Enabled THEN latest[a] ELSE NoMessage]
           new == [step |-> "loaded", version |-> account.version, source |-> Source,
                   enabled |-> Enabled, cursor |-> cursor, positions |-> positions]
<1>1. /\ UNCHANGED <<box, account, alias, cursor, link, latest, consumed, tasks, reader, seen,
                     floor, given, published>>
      /\ sync' = new
  BY DEF StartSync, upstream, tables, history
<1>2. /\ account.version \in Nat /\ Source \in Sources /\ Enabled \in SUBSET Aliases
      /\ cursor \in Position /\ positions \in [Aliases -> Message]
      /\ \A a \in Enabled : positions[a] = latest[a]
  BY SourceType, NoMessageType DEF Enabled, RowsType
<1>3. Source' = Source /\ Enabled' = Enabled
  BY <1>1 DEF Source, Enabled
<1> HIDE DEF positions
<1>4. new \in LoadedSync
  BY <1>2 DEF LoadedSync
<1>5. /\ new.step = "loaded" /\ new.version = account.version /\ new.source = Source
      /\ new.enabled = Enabled /\ new.cursor = cursor /\ new.positions = positions
  OBVIOUS
<1> HIDE DEF new
<1>6. Types'
  BY <1>1, <1>4 DEF UpstreamType, AccountType, AliasType, RowsType, ProcsType, HistoryType
<1>7. LoadedInv'
  BY <1>1, <1>2, <1>3, <1>5 DEF LoadedInv
<1>8. FetchedInv'
  BY <1>1, <1>5 DEF FetchedInv
<1>9. UpstreamInv' /\ CursorInv' /\ LatestInv' /\ ReaderInv' /\ GivenInv' /\ PublishedInv'
  BY <1>1, <1>3 DEF UpstreamInv, CursorInv, LatestInv, ReaderInv, GivenInv, PublishedInv,
                    Inbox
<1>10. SnapshotOfGeneration' /\ OnlyCurrentSource' /\ ArchiveComplete' /\ DeliveredExactly'
       /\ PublicUIDStable'
  BY <1>1, <1>3 DEF SnapshotOfGeneration, OnlyCurrentSource, ArchiveComplete,
                    DeliveredExactly,
       Inbox, DeliveredOnce, ConsumedWasDelivered, PublicUIDStable, IsInjective
<1>11. QED
  BY <1>6, <1>7, <1>8, <1>9, <1>10

(* ... and fetches what the mailbox has beyond the cursor.                 *)
LEMMA FetchKeeps ==
    ASSUME SyncInv, Fetch
    PROVE  SyncInv'
<1> USE DEF SyncInv, Types
<1> DEFINE r == FetchResult(sync.source, sync.cursor, sync.enabled, sync.positions)
           new == [step |-> "fetched", version |-> sync.version, enabled |-> sync.enabled,
                   from |-> sync.source, result |-> r]
<1>1. /\ UNCHANGED <<box, account, alias, cursor, link, latest, consumed, tasks, reader, seen,
                     floor, given, published>>
      /\ sync.step = "loaded" /\ sync' = new
  BY DEF Fetch, upstream, tables, history
<1>2. Source' = Source /\ Enabled' = Enabled
  BY <1>1 DEF Source, Enabled
<1>3. sync \in LoadedSync
  BY <1>1 DEF ProcsType, NoSync, FetchedSync
<1>4. /\ sync.version \in Nat /\ sync.source \in Sources /\ sync.enabled \in SUBSET Aliases
      /\ sync.cursor \in Position /\ sync.positions \in [Aliases -> Message]
  BY <1>3 DEF LoadedSync
<1>5. /\ r \in Result
      /\ r.gen = box[sync.source].gen /\ r.last < box[sync.source].next
      /\ r.reset = (sync.cursor.gen # box[sync.source].gen)
      /\ \A m \in r.messages : 1 <= m.uid /\ m.uid <= r.last
      /\ ~r.reset => \A m \in Inbox(sync.source) : sync.cursor.last < m.uid /\ m.uid <= r.last =>
            \A a \in m.to \cap sync.enabled : \E x \in r.messages : x.uid = m.uid /\ a \in x.to
      /\ \A a \in r.empty :
            \/ sync.positions[a].gen # r.gen
            \/ \A m \in Inbox(sync.source) : m.uid # sync.positions[a].uid
  <2>1. UpstreamType /\ UpstreamInv
    OBVIOUS
  <2>2. IsFetch(r, sync.source, sync.cursor, sync.enabled, sync.positions)
    BY <1>4, <2>1, FetchComplete
  <2> HIDE DEF r
  <2>3. QED
    BY <2>2 DEF IsFetch
<1> HIDE DEF r
<1>6. new \in FetchedSync
  BY <1>4, <1>5 DEF FetchedSync
<1>7. /\ new.step = "fetched" /\ new.version = sync.version /\ new.enabled = sync.enabled
      /\ new.from = sync.source /\ new.result = r
  OBVIOUS
<1> HIDE DEF new
<1>8. Types'
  BY <1>1, <1>6 DEF UpstreamType, AccountType, AliasType, RowsType, ProcsType, HistoryType
<1>9. LoadedInv'
  BY <1>1, <1>7 DEF LoadedInv
<1>10. UpstreamInv' /\ CursorInv' /\ LatestInv' /\ ReaderInv' /\ GivenInv' /\ PublishedInv'
  BY <1>1, <1>2 DEF UpstreamInv, CursorInv, LatestInv, ReaderInv, GivenInv, PublishedInv,
                    Inbox
<1>11. SnapshotOfGeneration' /\ OnlyCurrentSource' /\ ArchiveComplete' /\ DeliveredExactly'
       /\ PublicUIDStable'
  BY <1>1, <1>2 DEF SnapshotOfGeneration, OnlyCurrentSource, ArchiveComplete,
                    DeliveredExactly,
       Inbox, DeliveredOnce, ConsumedWasDelivered, PublicUIDStable, IsInjective
<1>12. FetchedInv'
  <2>1. sync.version <= account.version
    BY <1>1 DEF LoadedInv
  <2>2. box[sync.source].gen \in Nat /\ box[sync.source].gen >= 1
    BY <1>4 DEF UpstreamType, UpstreamInv
  <2>3. ReadFrom(box[sync.source], r.gen, r.last)
    BY <1>5, <2>2 DEF ReadFrom
  <2>4. ASSUME sync.version = account.version
        PROVE  /\ sync.source = Source /\ sync.enabled = Enabled
               /\ ResultComplete(Source, r) /\ ResultEmpty(Source, r)
    <3>1. /\ sync.source = Source /\ sync.enabled = Enabled /\ sync.cursor = cursor
          /\ \A a \in Enabled : sync.positions[a] = latest[a]
      BY <2>4, <1>1 DEF LoadedInv
    <3>2. ResultComplete(Source, r)
      <4>1. SUFFICES ASSUME ~r.reset PROVE ResultComplete(Source, r)
        BY DEF ResultComplete
      <4>2. cursor.gen = r.gen
        BY <4>1, <3>1, <1>5
      <4>3. cursor # NoCursor
        BY <4>2, <1>5, <2>2 DEF NoCursor
      <4>4. QED
        BY <4>1, <4>2, <4>3, <3>1, <1>5 DEF ResultComplete
    <3>3. ResultEmpty(Source, r)
      BY <3>1, <1>5 DEF ResultEmpty, Expunged, Inbox
    <3>4. QED
      BY <3>1, <3>2, <3>3
  <2>5. QED
    BY <1>1, <1>2, <1>5, <1>7, <2>1, <2>3, <2>4
       DEF FetchedInv, ResultComplete, ResultEmpty, Inbox
<1>13. QED
  BY <1>8, <1>9, <1>10, <1>11, <1>12

-----------------------------------------------------------------------------
(* The publication.                                                        *)
Synced(q, status, at, n) == [q EXCEPT !.status = status, !.at = at, !.next = @ + n]

LEMMA SyncedRow ==
    ASSUME NEW q \in AliasRow, NEW status \in {"pending", "ok", "error"}, NEW at \in Nat,
           NEW n \in Nat
    PROVE  /\ Synced(q, status, at, n) \in AliasRow
           /\ Synced(q, status, at, n).state = q.state
           /\ Synced(q, status, at, n).gen = q.gen
           /\ Synced(q, status, at, n).next = q.next + n
<1> DEFINE p == [q EXCEPT !.status = status]
           o == [p EXCEPT !.at = at]
           f == [o EXCEPT !.next = @ + n]
<1>1. p \in AliasRow /\ p.state = q.state /\ p.gen = q.gen /\ p.next = q.next
  BY DEF AliasRow
<1>2. Synced(q, status, at, n) = f
  BY DEF Synced
<1> HIDE DEF p
<1>3. o \in AliasRow /\ o.state = p.state /\ o.gen = p.gen /\ o.next = p.next
  BY <1>1 DEF AliasRow
<1> HIDE DEF o
<1>4. o.next + n \in Nat
  BY <1>3 DEF AliasRow
<1>5. f \in AliasRow /\ f.state = o.state /\ f.gen = o.gen /\ f.next = o.next + n
  BY <1>3, <1>4 DEF AliasRow
<1>6. QED
  BY <1>1, <1>2, <1>3, <1>5

(* The UIDs persistArchivedMessagesTx gives to the new messages of an      *)
(* alias are distinct, and all of the range it takes.                      *)
LEMMA MailboxUIDsDistinct ==
    ASSUME AliasType, NEW a \in Aliases, NEW r \in Result,
           \A m \in r.messages : 1 <= m.uid /\ m.uid <= r.last
    PROVE  /\ NewUIDs(a, r) \subseteq 0 .. r.last /\ Cardinality(NewUIDs(a, r)) \in Nat
           /\ \A u \in NewUIDs(a, r) :
                 /\ MailboxUID(a, r, u) \in Nat /\ alias[a].next <= MailboxUID(a, r, u)
                 /\ MailboxUID(a, r, u) < alias[a].next + Cardinality(NewUIDs(a, r))
           /\ \A u, v \in NewUIDs(a, r) : MailboxUID(a, r, u) = MailboxUID(a, r, v) => u = v
<1> DEFINE N == NewUIDs(a, r)
           Before(u) == {w \in N : w < u}
           next == alias[a].next
<1>1. r.last \in Nat /\ r.messages \subseteq Mail /\ next \in Nat
  BY DEF Result, AliasType, AliasRow
<1>2. N \subseteq 0 .. r.last
  BY <1>1 DEF NewUIDs, Mail
<1>3. \A u \in N : MailboxUID(a, r, u) = next + Cardinality(Before(u))
  BY DEF MailboxUID
<1> HIDE DEF N, next
<1>4. IsFiniteSet(N) /\ Cardinality(N) \in Nat
  BY <1>1, <1>2, UIDsFinite
<1>5. ASSUME NEW S \in SUBSET N, NEW u \in N, u \notin S, NEW T \in SUBSET N, S \cup {u} \subseteq T
      PROVE  Cardinality(S) \in Nat /\ Cardinality(T) \in Nat /\ Cardinality(S) < Cardinality(T)
  <2>1. IsFiniteSet(S) /\ IsFiniteSet(T) /\ Cardinality(S) \in Nat /\ Cardinality(T) \in Nat
    BY <1>4, FS_Subset, FS_CardinalityType
  <2>2. Cardinality(S \cup {u}) = Cardinality(S) + 1
    BY <1>5, <2>1, FS_AddElement
  <2>3. Cardinality(S \cup {u}) <= Cardinality(T)
    BY <1>5, <2>1, FS_Subset
  <2>4. QED
    BY <2>1, <2>2, <2>3
<1>6. \A u \in N : u \notin Before(u) /\ Before(u) \cup {u} \subseteq N /\ Before(u) \in SUBSET N
  BY <1>2
<1>7. ASSUME NEW u \in N
      PROVE  /\ MailboxUID(a, r, u) \in Nat /\ next <= MailboxUID(a, r, u)
             /\ MailboxUID(a, r, u) < next + Cardinality(N)
  <2>1. Cardinality(Before(u)) \in Nat /\ Cardinality(Before(u)) < Cardinality(N)
    BY <1>5, <1>6, <1>4
  <2>2. QED
    BY <2>1, <1>1, <1>3, <1>4
<1>8. ASSUME NEW u \in N, NEW v \in N, u < v
      PROVE  MailboxUID(a, r, u) # MailboxUID(a, r, v)
  <2>1. Before(u) \cup {u} \subseteq Before(v)
    <3>1. \A w \in N : w \in Int
      BY <1>2
    <3>2. \A w \in N : w < u => w < v
      BY <3>1, <1>8
    <3>3. QED
      BY <3>2, <1>8
  <2>2. Cardinality(Before(u)) \in Nat /\ Cardinality(Before(v)) \in Nat
        /\ Cardinality(Before(u)) < Cardinality(Before(v))
    BY <2>1, <1>5, <1>6
  <2> HIDE DEF Before
  <2>3. QED
    BY <2>2, <1>1, <1>3
<1>9. ASSUME NEW u \in N, NEW v \in N, MailboxUID(a, r, u) = MailboxUID(a, r, v)
      PROVE  u = v
  <2>1. u \in Int /\ v \in Int
    BY <1>2
  <2>2. ~(u < v) /\ ~(v < u)
    BY <1>8, <1>9
  <2>3. QED
    BY <2>1, <2>2
<1>10. QED
  BY <1>2, <1>4, <1>7, <1>9 DEF N, next

(* What a publication leaves of the snapshot of an alias.                  *)
LEMMA KeptIsLatest ==
    ASSUME NEW a \in Aliases, NEW r
    PROVE  \/ Kept(a, r) = NoMessage
           \/ /\ Kept(a, r) = latest[a]
              /\ r.reset => latest[a].gen = r.gen
              /\ ~(a \in r.empty /\ a \in Enabled)
BY DEF Kept

LEMMA NewLatestCases ==
    ASSUME NEW a \in Aliases, NEW r \in Result, NEW from, NEW at,
           \A m \in r.messages : 1 <= m.uid /\ m.uid <= r.last
    PROVE  \/ NewLatest(a, r, from, at) = Kept(a, r)
           \/ \E u \in 1 .. r.last :
                 /\ NewLatest(a, r, from, at) = [gen |-> r.gen, uid |-> u, at |-> at, from |-> from]
                 /\ ~(Kept(a, r).gen = r.gen /\ Kept(a, r).uid > u)
<1> DEFINE U == {m.uid : m \in {x \in r.messages : a \in x.to /\ a \in Enabled /\ ~x.seen}}
           k == Kept(a, r)
<1>1. r.last \in Nat /\ r.messages \subseteq Mail
  BY DEF Result
<1>2. U \subseteq 1 .. r.last
  BY <1>1 DEF Mail
<1>3. NewLatest(a, r, from, at) =
          IF U = {} \/ (k.gen = r.gen /\ k.uid > Max(U))
          THEN k ELSE [gen |-> r.gen, uid |-> Max(U), at |-> at, from |-> from]
  BY DEF NewLatest
<1> HIDE DEF U, k
<1>4. CASE U = {} \/ (k.gen = r.gen /\ k.uid > Max(U))
  BY <1>3, <1>4 DEF k
<1>5. CASE ~(U = {} \/ (k.gen = r.gen /\ k.uid > Max(U)))
  <2>1. Max(U) \in U
    <3>1. U \subseteq 0 .. r.last /\ U # {}
      BY <1>1, <1>2, <1>5
    <3>2. QED
      BY <1>1, <3>1, MaxIsMember
  <2>2. Max(U) \in 1 .. r.last
    BY <2>1, <1>2, Zenon
  <2>3. QED
    BY <2>2, <1>3, <1>5 DEF k
<1>6. QED
  BY <1>4, <1>5

(* A result that is not stale is published as it was fetched.              *)
Published ==
    LET r == sync.result IN
    /\ UNCHANGED <<box, consumed, tasks, reader, seen, given>>
    /\ sync.step = "fetched" /\ sync' = NoSync
    /\ ~Stale(sync.version, sync.enabled, r)
    /\ link' = link \cup NewLinks(r)
    /\ latest' = [a \in Aliases |-> NewLatest(a, r, sync.from, sync.version)]
    /\ cursor' = [gen |-> r.gen, last |-> r.last]
    /\ account' = [account EXCEPT !.version = @ + 1]
    /\ alias' = [a \in Aliases |->
          IF a \in Enabled
          THEN [alias[a] EXCEPT !.status = IF r.more THEN "pending" ELSE "ok",
                                !.at = account.version + 1,
                                !.next = @ + Cardinality(NewUIDs(a, r))]
          ELSE alias[a]]
    /\ floor' = IF r.reset THEN r.last ELSE floor
    /\ published' = published \cup
          {[alias |-> l.alias, gen |-> alias[l.alias].gen, uid |-> l.mailbox,
            message |-> <<sync.from, l.gen, l.uid>>] : l \in NewLinks(r)}

(* What the publication may rely on, and what it does to the tables.       *)
LEMMA PublishedFacts ==
    ASSUME SyncInv, Published
    PROVE  LET r == sync.result IN
           /\ r \in Result /\ sync.from = Source /\ sync.version = account.version
           /\ sync.version \in Nat /\ Source \in Sources /\ Source \in Nat
           /\ r.gen \in Nat /\ r.gen >= 1 /\ r.last \in Nat
           /\ ReadFrom(box[Source], r.gen, r.last)
           /\ ResultComplete(Source, r) /\ ResultEmpty(Source, r)
           /\ \A m \in r.messages : 1 <= m.uid /\ m.uid <= r.last
           /\ cursor # NoCursor /\ cursor.gen = r.gen => ~(cursor.last > r.last)
           /\ AccountType' /\ Source' = Source /\ account'.version = account.version + 1
           /\ \A a \in Aliases :
                 /\ alias'[a] \in AliasRow /\ alias'[a].state = alias[a].state
                 /\ alias'[a].gen = alias[a].gen
                 /\ alias'[a].next = IF a \in Enabled THEN alias[a].next + Cardinality(NewUIDs(a, r))
                                     ELSE alias[a].next
           /\ Enabled' = Enabled
           /\ cursor'.gen = r.gen /\ cursor'.last = r.last /\ cursor' # NoCursor
<1> USE DEF SyncInv, Types
<1> DEFINE r == sync.result
<1>1. sync \in FetchedSync
  <2>1. sync.step = "fetched" /\ sync \in {NoSync} \cup LoadedSync \cup FetchedSync
    BY DEF Published, ProcsType
  <2>2. QED
    BY <2>1 DEF NoSync, LoadedSync
<1>2. r \in Result /\ sync.version \in Nat /\ sync.from \in Sources
  BY <1>1 DEF FetchedSync
<1>3. r.gen \in Nat /\ r.last \in Nat /\ r.more \in BOOLEAN
  BY <1>2 DEF Result
<1>4. sync.version = account.version
      /\ (cursor # NoCursor /\ cursor.gen = r.gen => ~(cursor.last > r.last))
  BY DEF Published, Stale
<1>5. /\ ReadFrom(box[sync.from], r.gen, r.last)
      /\ \A m \in r.messages : 1 <= m.uid /\ m.uid <= r.last
      /\ sync.from = Source /\ ResultComplete(Source, r) /\ ResultEmpty(Source, r)
  BY <1>4 DEF Published, FetchedInv
<1>6. AccountType' /\ account'.source = account.source /\ account'.version = account.version + 1
  BY AccountRow DEF Published
<1>7. \A a \in Aliases :
         /\ alias'[a] \in AliasRow /\ alias'[a].state = alias[a].state
         /\ alias'[a].gen = alias[a].gen
         /\ alias'[a].next = IF a \in Enabled THEN alias[a].next + Cardinality(NewUIDs(a, r))
                             ELSE alias[a].next
  <2>1. SUFFICES ASSUME NEW a \in Aliases
        PROVE  /\ alias'[a] \in AliasRow /\ alias'[a].state = alias[a].state
               /\ alias'[a].gen = alias[a].gen
               /\ alias'[a].next = IF a \in Enabled
                                   THEN alias[a].next + Cardinality(NewUIDs(a, r))
                                   ELSE alias[a].next
    OBVIOUS
  <2> DEFINE n == Cardinality(NewUIDs(a, r))
             status == IF r.more THEN "pending" ELSE "ok"
             at == account.version + 1
  <2>2. alias[a] \in AliasRow /\ n \in Nat /\ at \in Nat /\ status \in {"pending", "ok", "error"}
    BY <1>2, <1>4, <1>5, MailboxUIDsDistinct DEF AliasType
  <2>3. alias'[a] = IF a \in Enabled
                    THEN [alias[a] EXCEPT !.status = status, !.at = at, !.next = @ + n]
                    ELSE alias[a]
    BY DEF Published
  <2> HIDE DEF status, at
  <2>4. CASE a \in Enabled
    <3>1. alias'[a] = Synced(alias[a], status, at, n)
      BY <2>3, <2>4 DEF Synced
    <3> HIDE DEF n
    <3>2. /\ alias'[a] \in AliasRow /\ alias'[a].state = alias[a].state
          /\ alias'[a].gen = alias[a].gen /\ alias'[a].next = alias[a].next + n
      <4>1. /\ Synced(alias[a], status, at, n) \in AliasRow
            /\ Synced(alias[a], status, at, n).state = alias[a].state
            /\ Synced(alias[a], status, at, n).gen = alias[a].gen
            /\ Synced(alias[a], status, at, n).next = alias[a].next + n
        BY ONLY <2>2, SyncedRow
      <4>2. QED
        BY <3>1, <4>1
    <3>3. QED
      BY <3>2, <2>4 DEF n
  <2>5. CASE a \notin Enabled
    BY <2>2, <2>3, <2>5
  <2>6. QED
    BY <2>4, <2>5
<1>8. Enabled' = Enabled
  BY <1>7 DEF Enabled
<1>9. r.gen >= 1
  BY <1>5 DEF ReadFrom
<1>10. cursor'.gen = r.gen /\ cursor'.last = r.last /\ cursor' # NoCursor
  <2>1. cursor' = [gen |-> r.gen, last |-> r.last]
    BY DEF Published
  <2>2. QED
    BY <2>1, <1>3, <1>9 DEF NoCursor
<1>11. QED
  BY <1>2, <1>3, <1>4, <1>5, <1>6, <1>7, <1>8, <1>9, <1>10, SourceType DEF Source

(* A new link is one of an enabled alias to a fetched message.             *)
LEMMA NewLinksAre ==
    ASSUME NEW r, NEW l \in NewLinks(r)
    PROVE  /\ l.alias \in Aliases /\ l.alias \in Enabled
           /\ l.uid \in NewUIDs(l.alias, r) /\ l.gen = r.gen
           /\ l.mailbox = MailboxUID(l.alias, r, l.uid)
           /\ l = [alias |-> l.alias, gen |-> l.gen, uid |-> l.uid, mailbox |-> l.mailbox]
<1>1. PICK a \in Aliases : l \in {[alias |-> a, gen |-> r.gen, uid |-> u,
                                   mailbox |-> MailboxUID(a, r, u)] : u \in NewUIDs(a, r)}
  BY DEF NewLinks
<1>2. PICK u \in NewUIDs(a, r) :
          l = [alias |-> a, gen |-> r.gen, uid |-> u, mailbox |-> MailboxUID(a, r, u)]
  BY <1>1
<1>3. a \in Enabled
  BY <1>2 DEF NewUIDs
<1>4. QED
  BY <1>2, <1>3

LEMMA PublishedTypes ==
    ASSUME SyncInv, Published
    PROVE  Types'
<1> USE DEF SyncInv, Types
<1> DEFINE r == sync.result
<1>1. /\ r \in Result /\ sync.from \in Nat /\ sync.version \in Nat
      /\ r.gen \in Nat /\ r.last \in Nat
      /\ \A m \in r.messages : 1 <= m.uid /\ m.uid <= r.last
      /\ AccountType' /\ \A a \in Aliases : alias'[a] \in AliasRow
  BY PublishedFacts
<1>2. AliasType'
  BY <1>1 DEF AliasType, Published
<1>3. \A a \in Aliases : Kept(a, r) \in Message
  BY KeptIsLatest, NoMessageType DEF RowsType
<1>4. \A a \in Aliases : latest'[a] \in Message
  <2>1. SUFFICES ASSUME NEW a \in Aliases PROVE NewLatest(a, r, sync.from, sync.version) \in Message
    BY DEF Published
  <2>2. \A u \in 1 .. r.last :
            [gen |-> r.gen, uid |-> u, at |-> sync.version, from |-> sync.from] \in Message
    BY <1>1 DEF Message
  <2>3. QED
    BY <2>2, <1>1, <1>3, NewLatestCases
<1>5. \A l \in NewLinks(r) : /\ l \in [alias : Aliases, gen : Nat, uid : Nat, mailbox : Nat]
                             /\ l.alias \in Aliases /\ l.mailbox \in Nat /\ l.gen \in Nat /\ l.uid \in Nat
  <2>1. SUFFICES ASSUME NEW l \in NewLinks(r)
                 PROVE  /\ l \in [alias : Aliases, gen : Nat, uid : Nat, mailbox : Nat]
                        /\ l.alias \in Aliases /\ l.mailbox \in Nat /\ l.gen \in Nat /\ l.uid \in Nat
    OBVIOUS
  <2>2. /\ l.alias \in Aliases /\ l.uid \in NewUIDs(l.alias, r) /\ l.gen = r.gen
        /\ l.mailbox = MailboxUID(l.alias, r, l.uid)
        /\ l = [alias |-> l.alias, gen |-> l.gen, uid |-> l.uid, mailbox |-> l.mailbox]
    BY NewLinksAre
  <2>3. l.uid \in Nat /\ l.mailbox \in Nat
    BY <1>1, <2>2, MailboxUIDsDistinct
  <2>4. QED
    BY <1>1, <2>2, <2>3
<1>6. RowsType'
  <2>1. cursor' \in Position
    BY <1>1 DEF Published, Position
  <2>2. link' \subseteq [alias : Aliases, gen : Nat, uid : Nat, mailbox : Nat]
    BY <1>5 DEF Published, RowsType
  <2>3. UNCHANGED <<consumed, tasks>>
    BY DEF Published
  <2>4. latest' \in [Aliases -> Message]
    BY <1>4 DEF Published
  <2>5. QED
    BY <2>1, <2>2, <2>3, <2>4 DEF RowsType
<1>7. HistoryType'
  <2>1. \A l \in NewLinks(r) :
            [alias |-> l.alias, gen |-> alias[l.alias].gen, uid |-> l.mailbox,
             message |-> <<sync.from, l.gen, l.uid>>]
                \in [alias : Aliases, gen : Nat, uid : Nat, message : Nat \X Nat \X Nat]
    BY <1>1, <1>5 DEF AliasType, AliasRow
  <2>2. published' \subseteq [alias : Aliases, gen : Nat, uid : Nat, message : Nat \X Nat \X Nat]
    BY <2>1 DEF Published, HistoryType
  <2>3. QED
    BY <2>2, <1>1 DEF HistoryType, Published
<1>8. UpstreamType' /\ ProcsType'
  BY DEF UpstreamType, ProcsType, Published
<1>9. QED
  BY <1>1, <1>2, <1>6, <1>7, <1>8

(* No mail is skipped, no snapshot is of another source or generation.     *)
LEMMA PublishedSafe ==
    ASSUME SyncInv, Published
    PROVE  /\ CursorInv' /\ LatestInv' /\ SnapshotOfGeneration' /\ OnlyCurrentSource'
           /\ ArchiveComplete' /\ ReaderInv'
<1> USE DEF SyncInv, Types
<1> DEFINE r == sync.result
<1>1. /\ r \in Result /\ sync.from = Source /\ sync.version = account.version
      /\ sync.version \in Nat /\ Source \in Sources /\ Source \in Nat
      /\ r.gen \in Nat /\ r.gen >= 1 /\ r.last \in Nat
      /\ ReadFrom(box[Source], r.gen, r.last)
      /\ ResultComplete(Source, r)
      /\ \A m \in r.messages : 1 <= m.uid /\ m.uid <= r.last
      /\ Source' = Source /\ account'.version = account.version + 1
      /\ Enabled' = Enabled
      /\ cursor'.gen = r.gen /\ cursor'.last = r.last /\ cursor' # NoCursor
  BY PublishedFacts
<1>2. /\ UNCHANGED <<box, consumed, reader>>
      /\ link' = link \cup NewLinks(r)
      /\ floor' = IF r.reset THEN r.last ELSE floor
  BY DEF Published
<1> HIDE DEF r
<1>3. \A a \in Aliases :
         \/ latest'[a] = NoMessage
         \/ /\ latest'[a] = latest[a]
            /\ r.reset => latest[a].gen = r.gen
         \/ \E u \in 1 .. r.last :
               latest'[a] = [gen |-> r.gen, uid |-> u, at |-> account.version, from |-> Source]
  <2>1. SUFFICES ASSUME NEW a \in Aliases
                 PROVE  LET new == NewLatest(a, r, Source, account.version)
                        IN  \/ new = NoMessage
                            \/ /\ new = latest[a]
                               /\ r.reset => latest[a].gen = r.gen
                            \/ \E u \in 1 .. r.last :
                                  new = [gen |-> r.gen, uid |-> u, at |-> account.version,
                                         from |-> Source]
    BY <1>1 DEF Published, r
  <2>2. QED
    BY <1>1, KeptIsLatest, NewLatestCases
<1>4. CursorInv'
  BY <1>1, <1>2 DEF CursorInv
<1>5. ASSUME NEW a \in Aliases, latest'[a] # NoMessage
      PROVE  /\ ReadFrom(box[Source], latest'[a].gen, latest'[a].uid)
             /\ latest'[a].from = Source /\ latest'[a].at < account.version + 1
             /\ latest'[a].gen = r.gen
             /\ \/ latest'[a].at = account.version
                \/ latest'[a] = latest[a] /\ latest[a] # NoMessage
  <2>1. CASE latest'[a] = latest[a] /\ (r.reset => latest[a].gen = r.gen)
    <3>1. /\ ReadFrom(box[Source], latest[a].gen, latest[a].uid)
          /\ latest[a].from = Source /\ latest[a].at < account.version
      BY <2>1, <1>5 DEF LatestInv
    <3>2. latest[a].at \in Nat
      BY DEF RowsType, Message
    <3>3. latest[a].gen = r.gen
      BY <2>1, <1>5, <1>1 DEF ResultComplete, SnapshotOfGeneration
    <3>4. QED
      BY <2>1, <3>1, <3>2, <3>3, <1>1, <1>5
  <2>2. CASE \E u \in 1 .. r.last :
                latest'[a] = [gen |-> r.gen, uid |-> u, at |-> account.version, from |-> Source]
    <3>1. PICK u \in 1 .. r.last :
                latest'[a] = [gen |-> r.gen, uid |-> u, at |-> account.version, from |-> Source]
      BY <2>2
    <3>2. u \in Nat /\ u <= r.last /\ box[Source].next \in Nat
      BY <1>1 DEF UpstreamType
    <3>3. ReadFrom(box[Source], r.gen, u)
      BY <1>1, <3>2 DEF ReadFrom
    <3>4. /\ latest'[a].gen = r.gen /\ latest'[a].uid = u /\ latest'[a].at = account.version
          /\ latest'[a].from = Source
      BY <3>1
    <3>5. ReadFrom(box[Source], latest'[a].gen, latest'[a].uid)
      BY <3>3, <3>4, Zenon
    <3>6. account.version < account.version + 1
      BY <1>1
    <3>7. QED
      BY <3>4, <3>5, <3>6
  <2>3. QED
    BY <2>1, <2>2, <1>3, <1>5
<1>6. LatestInv'
  BY <1>1, <1>2, <1>5 DEF LatestInv
<1>7. SnapshotOfGeneration'
  BY <1>1, <1>5 DEF SnapshotOfGeneration
<1>8. OnlyCurrentSource'
  BY <1>1, <1>2, <1>5 DEF OnlyCurrentSource
<1>9. ArchiveComplete'
  <2>1. SUFFICES ASSUME r.gen = box[Source].gen, NEW m \in Inbox(Source), floor' < m.uid,
                        m.uid <= r.last, NEW a \in m.to \cap Enabled
                 PROVE  \E l \in link' : l.alias = a /\ l.gen = r.gen /\ l.uid = m.uid
    BY <1>1, <1>2 DEF ArchiveComplete, Inbox
  <2>2. m.uid \in Nat /\ cursor.last \in Nat /\ a \in Aliases
    BY <1>1 DEF Inbox, UpstreamType, Mail, RowsType, Position, Enabled
  <2>3. ~r.reset /\ floor' = floor
    BY <2>1, <2>2, <1>1, <1>2
  <2>4. cursor # NoCursor /\ cursor.gen = r.gen
    BY <2>3, <1>1 DEF ResultComplete
  <2>5. CASE m.uid <= cursor.last
    <3>1. \E l \in link : l.alias = a /\ l.gen = cursor.gen /\ l.uid = m.uid
      BY <2>1, <2>3, <2>4, <2>5 DEF ArchiveComplete
    <3>2. QED
      BY <3>1, <2>4, <1>2
  <2>6. CASE ~(m.uid <= cursor.last)
    <3>1. cursor.last < m.uid
      BY <2>2, <2>6
    <3>2. PICK x \in r.messages : x.uid = m.uid /\ a \in x.to
      BY <3>1, <2>1, <2>3, <1>1 DEF ResultComplete
    <3>3. CASE m.uid \in {l.uid : l \in {y \in link : y.alias = a /\ y.gen = r.gen}}
      BY <3>3, <1>2
    <3>4. CASE m.uid \notin {l.uid : l \in {y \in link : y.alias = a /\ y.gen = r.gen}}
      <4>1. m.uid \in NewUIDs(a, r)
        BY <3>2, <3>4, <2>1 DEF NewUIDs
      <4> DEFINE l == [alias |-> a, gen |-> r.gen, uid |-> m.uid,
                       mailbox |-> MailboxUID(a, r, m.uid)]
      <4>2. l \in NewLinks(r)
        BY <4>1, <2>2 DEF NewLinks
      <4>3. l.alias = a /\ l.gen = r.gen /\ l.uid = m.uid
        OBVIOUS
      <4>4. QED
        BY <4>2, <4>3, <1>2
    <3>5. QED
      BY <3>3, <3>4
  <2>7. QED
    BY <2>5, <2>6
<1>10. ReaderInv'
  <2>1. SUFFICES ASSUME reader # NoReader PROVE ReaderInv'
    BY <1>2 DEF ReaderInv
  <2>2. reader.message.at \in Nat /\ reader.message.at < account.version
    BY <2>1 DEF ProcsType, Message, ReaderInv
  <2>3. reader.message.at < account.version + 1
    BY <2>2, <1>1
  <2>4. ASSUME reader.message.from # Source, NEW a \in Aliases, latest'[a] # NoMessage
        PROVE  reader.message.at < latest'[a].at
    <3>1. CASE latest'[a].at = account.version
      BY <3>1, <2>2
    <3>2. CASE latest'[a] = latest[a] /\ latest[a] # NoMessage
      BY <3>2, <2>1, <2>4 DEF ReaderInv
    <3>3. QED
      BY <3>1, <3>2, <2>4, <1>5
  <2>5. QED
    BY <2>1, <2>3, <2>4, <1>1, <1>2 DEF ReaderInv
<1>11. QED
  BY <1>4, <1>6, <1>7, <1>8, <1>9, <1>10

(* No mailbox UID is given to a second message.                            *)
LEMMA PublishedStable ==
    ASSUME SyncInv, Published
    PROVE  PublishedInv' /\ PublicUIDStable'
<1> USE DEF SyncInv, Types
<1> DEFINE r == sync.result
           new(l) == [alias |-> l.alias, gen |-> alias[l.alias].gen, uid |-> l.mailbox,
                      message |-> <<sync.from, l.gen, l.uid>>]
<1>1. /\ r \in Result
      /\ \A m \in r.messages : 1 <= m.uid /\ m.uid <= r.last
      /\ \A a \in Aliases :
            /\ alias'[a].gen = alias[a].gen
            /\ alias'[a].next = IF a \in Enabled THEN alias[a].next + Cardinality(NewUIDs(a, r))
                                ELSE alias[a].next
  BY PublishedFacts
<1>2. published' = published \cup {new(l) : l \in NewLinks(r)}
  BY DEF Published
<1> HIDE DEF r
<1>3. \A a \in Aliases : alias[a].gen \in Nat /\ alias[a].next \in Nat
                         /\ Cardinality(NewUIDs(a, r)) \in Nat
  BY <1>1, MailboxUIDsDistinct DEF AliasType, AliasRow
<1>4. ASSUME NEW l \in NewLinks(r)
      PROVE  /\ l.alias \in Aliases /\ l.alias \in Enabled /\ l.gen = r.gen
             /\ l.uid \in NewUIDs(l.alias, r) /\ l.mailbox = MailboxUID(l.alias, r, l.uid)
             /\ l.mailbox \in Nat /\ alias[l.alias].next <= l.mailbox
             /\ l.mailbox < alias[l.alias].next + Cardinality(NewUIDs(l.alias, r))
  <2>1. /\ l.alias \in Aliases /\ l.alias \in Enabled /\ l.gen = r.gen
        /\ l.uid \in NewUIDs(l.alias, r) /\ l.mailbox = MailboxUID(l.alias, r, l.uid)
    BY NewLinksAre
  <2>2. QED
    BY <2>1, <1>1, MailboxUIDsDistinct
<1>5. \A l \in NewLinks(r) : /\ new(l).alias = l.alias /\ new(l).gen = alias[l.alias].gen
                             /\ new(l).uid = l.mailbox
                             /\ new(l).message = <<sync.from, l.gen, l.uid>>
  OBVIOUS
<1>6. \A p \in published : p.alias \in Aliases /\ p.gen \in Nat /\ p.uid \in Nat
  BY DEF HistoryType
<1> HIDE DEF new
<1>7. PublishedInv'
  <2>1. SUFFICES ASSUME NEW p \in published'
                 PROVE  /\ p.gen <= alias'[p.alias].gen
                        /\ p.gen = alias'[p.alias].gen => p.uid < alias'[p.alias].next
    BY DEF PublishedInv
  <2>2. CASE p \in published
    <3>1. /\ p.gen <= alias[p.alias].gen
          /\ p.gen = alias[p.alias].gen => p.uid < alias[p.alias].next
      BY <2>2 DEF PublishedInv
    <3>2. QED
      BY <2>2, <3>1, <1>1, <1>3, <1>6
  <2>3. CASE \E l \in NewLinks(r) : p = new(l)
    <3>1. PICK l \in NewLinks(r) : p = new(l)
      BY <2>3
    <3>2. p.alias = l.alias /\ p.gen = alias[l.alias].gen /\ p.uid = l.mailbox
      BY <3>1, <1>5
    <3>3. QED
      BY <3>2, <1>1, <1>3, <1>4
  <2>4. QED
    BY <2>2, <2>3, <1>2
<1>8. ASSUME NEW p \in published, NEW l \in NewLinks(r), p.alias = l.alias,
             p.gen = alias[l.alias].gen, p.uid = l.mailbox
      PROVE  FALSE
  <2>1. p.uid < alias[l.alias].next
    BY <1>8 DEF PublishedInv
  <2>2. QED
    BY <2>1, <1>3, <1>4, <1>6, <1>8
<1>9. ASSUME NEW k \in NewLinks(r), NEW l \in NewLinks(r), k.alias = l.alias,
             k.mailbox = l.mailbox
      PROVE  new(k).message = new(l).message
  <2>1. k.uid = l.uid
    BY <1>1, <1>4, <1>9, MailboxUIDsDistinct
  <2>2. k.gen = l.gen
    BY <1>4
  <2>3. QED
    BY <2>1, <2>2, <1>5
<1>10. PublicUIDStable'
  <2>1. SUFFICES ASSUME NEW p \in published', NEW q \in published',
                        p.alias = q.alias, p.gen = q.gen, p.uid = q.uid
                 PROVE  p.message = q.message
    BY DEF PublicUIDStable
  <2>2. CASE p \in published /\ q \in published
    BY <2>1, <2>2 DEF PublicUIDStable
  <2>3. CASE p \in published /\ \E l \in NewLinks(r) : q = new(l)
    BY <2>1, <2>3, <1>5, <1>8
  <2>4. CASE q \in published /\ \E l \in NewLinks(r) : p = new(l)
    BY <2>1, <2>4, <1>5, <1>8
  <2>5. CASE (\E l \in NewLinks(r) : p = new(l)) /\ \E l \in NewLinks(r) : q = new(l)
    BY <2>1, <2>5, <1>5, <1>9
  <2>6. QED
    BY <2>2, <2>3, <2>4, <2>5, <1>2
<1>11. QED
  BY <1>7, <1>10

LEMMA ApplyKeeps ==
    ASSUME SyncInv, ApplyMailboxSync
    PROVE  SyncInv'
<1> USE DEF SyncInv, Types
<1>1. CASE Stale(sync.version, sync.enabled, sync.result)
  <2>1. /\ UNCHANGED <<box, account, alias, cursor, link, latest, consumed, tasks, reader, seen,
                       floor, given, published>>
        /\ sync' = NoSync
    BY <1>1 DEF ApplyMailboxSync, EndSync, upstream, tables, history
  <2>2. ConfigurationStep
    BY <2>1, SourceType DEF ConfigurationStep, Enabled
  <2>3. AccountType' /\ AliasType' /\ RowsType'
    BY <2>1 DEF AccountType, AliasType, RowsType
  <2>4. QED
    BY <2>2, <2>3, ConfigurationKeeps
<1>2. CASE ~Stale(sync.version, sync.enabled, sync.result)
  <2>1. Published
    BY <1>2 DEF ApplyMailboxSync, Published, EndSync, upstream
  <2>2. /\ UNCHANGED <<box, consumed, tasks, reader, seen, given>> /\ sync' = NoSync
        /\ Source' = Source
        /\ \A a \in Aliases : alias'[a].state = alias[a].state
    BY <2>1, PublishedFacts DEF Published
  <2>3. UpstreamInv' /\ DeliveredExactly'
    BY <2>2 DEF UpstreamInv, Inbox, DeliveredExactly, DeliveredOnce, ConsumedWasDelivered,
                IsInjective
  <2>4. LoadedInv' /\ FetchedInv'
    BY <2>2 DEF LoadedInv, FetchedInv, NoSync
  <2>5. GivenInv'
    <3>1. \A i \in DOMAIN given : given[i][1] \in Aliases
      BY DEF HistoryType
    <3>2. QED
      BY <2>2, <3>1 DEF GivenInv
  <2>6. QED
    BY <2>1, <2>3, <2>4, <2>5, PublishedTypes, PublishedSafe, PublishedStable
<1>3. QED
  BY <1>1, <1>2

-----------------------------------------------------------------------------
(* The invariant, and what follows from it.                                *)
LEMMA SyncInit ==
    ASSUME Init
    PROVE  SyncInv
<1> USE SyncAssumption DEF Init
<1>1. UpstreamType
  BY DEF UpstreamType, Sources
<1>2. AccountType
  BY DEF AccountType, Sources
<1>3. AliasType /\ \A a \in Aliases : alias[a].next = 1 /\ alias[a].gen = 1
  BY DEF AliasType, AliasRow
<1>4. RowsType
  BY NoCursorType, NoMessageType DEF RowsType
<1>5. ProcsType
  <2>1. NoReader \in [alias : SUBSET Aliases, message : Message, at : Nat]
    BY NoMessageType DEF NoReader
  <2>2. QED
    BY <2>1 DEF ProcsType, NoWork
<1>6. given = <<>> /\ DOMAIN given = {} /\ published = {}
  OBVIOUS
<1>7. HistoryType
  BY <1>6 DEF HistoryType
<1>8. UpstreamInv
  BY DEF UpstreamInv, Inbox, Sources
<1>9. cursor = NoCursor /\ (\A a \in Aliases : latest[a] = NoMessage) /\ consumed = {}
      /\ reader = NoReader /\ sync = NoSync
  OBVIOUS
<1>10. /\ CursorInv /\ LatestInv /\ SnapshotOfGeneration /\ OnlyCurrentSource /\ ArchiveComplete
       /\ LoadedInv /\ FetchedInv /\ ReaderInv
  BY <1>9 DEF CursorInv, LatestInv, SnapshotOfGeneration, OnlyCurrentSource,
              ArchiveComplete,
              LoadedInv, FetchedInv, ReaderInv, NoSync
<1>11. GivenInv /\ PublishedInv /\ PublicUIDStable /\ DeliveredExactly
  BY <1>6, <1>9 DEF GivenInv, PublishedInv, PublicUIDStable, DeliveredExactly,
                    DeliveredOnce,
                    ConsumedWasDelivered, IsInjective
<1>12. QED
  BY <1>1, <1>2, <1>3, <1>4, <1>5, <1>7, <1>8, <1>10, <1>11 DEF SyncInv, Types

LEMMA NextKeeps ==
    ASSUME SyncInv, [Next]_vars
    PROVE  SyncInv'
<1>1. CASE \E s \in Sources : (\E to \in Recipients : Arrive(s, to)) \/ Expunge(s) \/ Rebuild(s)
  <2>1. PICK s \in Sources : (\E to \in Recipients : Arrive(s, to)) \/ Expunge(s) \/ Rebuild(s)
    BY <1>1
  <2>2. UpstreamStep /\ UpstreamType' /\ UpstreamInv' /\ UNCHANGED seen
    BY <2>1, ArriveIsUpstream, ExpungeIsUpstream, RebuildIsUpstream
  <2>3. ProcsType'
    BY <2>2 DEF UpstreamStep, ProcsType, SyncInv, Types
  <2>4. QED
    BY <2>2, <2>3, UpstreamKeeps
<1>2. CASE MarkSeen
  BY <1>2, MarkSeenIsUpstream, UpstreamKeeps
<1>3. CASE StartSync \/ Fetch \/ ApplyMailboxSync \/ FailSync
  BY <1>3, StartSyncKeeps, FetchKeeps, ApplyKeeps, FailSyncKeeps
<1>4. CASE ResetAccount \/ DisableAccount \/ ChangeSource
  BY <1>4, ResetAccountKeeps, DisableAccountKeeps, ChangeSourceKeeps
<1>5. CASE \E a \in Aliases : \/ EnableAlias(a) \/ DisableAlias(a) \/ DeleteAlias(a)
                              \/ ReadBinding(a) \/ Consume(a)
  BY <1>5, EnableAliasKeeps, DisableAliasKeeps, DeleteAliasKeeps, ReadBindingKeeps, ConsumeKeeps
<1>6. CASE ListTasks \/ ProcessAccount \/ DeleteSeenTasks \/ FailSeen
  BY <1>6, SeenWorkerKeeps
<1>7. CASE UNCHANGED vars
  <2>1. UNCHANGED <<box, account, alias, cursor, link, latest, consumed, tasks, sync, reader, seen,
                    floor, given, published>>
    BY <1>7 DEF vars, upstream, tables, procs, history
  <2>2. ProcsType'
    BY <2>1 DEF SyncInv, Types, ProcsType
  <2>3. QED
    BY <2>1, <2>2, WorkerKeeps
<1>8. QED
  BY <1>1, <1>2, <1>3, <1>4, <1>5, <1>6, <1>7 DEF Next, Sources

LEMMA SyncInvHolds == Spec => []SyncInv
<1>1. Init => SyncInv
  BY SyncInit
<1>2. SyncInv /\ [Next]_vars => SyncInv'
  BY NextKeeps
<1>3. QED
  BY <1>1, <1>2, PTL DEF Spec

(* No mail is skipped, for any number of aliases, any batch and window and *)
(* any order of syncs, configuration changes and upstream events:          *)
(* persistArchivedMessagesTx has archived what the cursor has passed.      *)
THEOREM ArchiveCompleteHolds == Spec => []ArchiveComplete
<1>1. SyncInv => ArchiveComplete
  BY DEF SyncInv
<1>2. QED
  BY <1>1, SyncInvHolds, PTL

(* The snapshot served for an alias is one of the cursor's UIDVALIDITY,    *)
(* whatever persistLegacyLatestMessagesTx kept and replaced.               *)
THEOREM SnapshotOfGenerationHolds == Spec => []SnapshotOfGeneration
<1>1. SyncInv => SnapshotOfGeneration
  BY DEF SyncInv
<1>2. QED
  BY <1>1, SyncInvHolds, PTL

(* Neither a sync nor a request that began before UpdateAccount changed    *)
(* the mailbox source leaves a row of the earlier source behind.           *)
THEOREM OnlyCurrentSourceHolds == Spec => []OnlyCurrentSource
<1>1. SyncInv => OnlyCurrentSource
  BY DEF SyncInv
<1>2. QED
  BY <1>1, SyncInvHolds, PTL

(* ConsumeLatestMessage gives no message of an alias twice and records     *)
(* none that it did not give.                                              *)
THEOREM DeliveredExactlyHolds == Spec => []DeliveredExactly
<1>1. SyncInv => DeliveredExactly
  BY DEF SyncInv
<1>2. QED
  BY <1>1, SyncInvHolds, PTL

(* A UID of a public alias mailbox never names two messages, across        *)
(* resets, deletions and changes of the source.                            *)
THEOREM PublicUIDStableHolds == Spec => []PublicUIDStable
<1>1. SyncInv => PublicUIDStable
  BY DEF SyncInv
<1>2. QED
  BY <1>1, SyncInvHolds, PTL

-----------------------------------------------------------------------------
(* One step of NeverBackwards.                                             *)
Forward ==
    /\ cursor # NoCursor /\ cursor'.gen = cursor.gen => cursor'.last >= cursor.last
    /\ \A a \in Aliases :
          latest[a] # NoMessage /\ latest'[a].gen = latest[a].gen
              => \/ latest'[a].uid >= latest[a].uid
                 \/ box[Source].gen # latest[a].gen
                 \/ \A m \in Inbox(Source) : m.uid # latest[a].uid

(* Only a publication writes a cursor or a snapshot; the others drop them. *)
LEMMA OnlyDropped ==
    ASSUME SyncInv, cursor' \in {cursor, NoCursor},
           \A a \in Aliases : latest'[a] \in {latest[a], NoMessage}
    PROVE  Forward
<1> USE DEF SyncInv, Types
<1>1. cursor # NoCursor /\ cursor'.gen = cursor.gen => cursor'.last >= cursor.last
  <2>1. cursor.last \in Nat
    BY DEF RowsType, Position
  <2>2. cursor # NoCursor => cursor.gen # NoCursor.gen
    BY DEF CursorInv, ReadFrom, NoCursor
  <2>3. QED
    BY <2>1, <2>2
<1>2. ASSUME NEW a \in Aliases, latest[a] # NoMessage, latest'[a].gen = latest[a].gen
      PROVE  latest'[a].uid >= latest[a].uid
  <2>1. latest[a].uid \in Nat
    BY DEF RowsType, Message
  <2>2. latest[a].gen # NoMessage.gen
    BY <1>2 DEF LatestInv, ReadFrom, NoMessage
  <2>3. QED
    BY <2>1, <2>2, <1>2
<1>3. QED
  BY <1>1, <1>2 DEF Forward

LEMMA PublishedForward ==
    ASSUME SyncInv, Published
    PROVE  Forward
<1> USE DEF SyncInv, Types
<1> DEFINE r == sync.result
<1>1. /\ r \in Result /\ sync.from = Source /\ sync.version = account.version
      /\ r.gen \in Nat /\ r.gen >= 1 /\ r.last \in Nat
      /\ ResultEmpty(Source, r)
      /\ \A m \in r.messages : 1 <= m.uid /\ m.uid <= r.last
      /\ cursor # NoCursor /\ cursor.gen = r.gen => ~(cursor.last > r.last)
      /\ cursor'.gen = r.gen /\ cursor'.last = r.last
  BY PublishedFacts
<1>2. \A a \in Aliases : latest'[a] = NewLatest(a, r, sync.from, sync.version)
  BY DEF Published
<1> HIDE DEF r
<1>3. cursor # NoCursor /\ cursor'.gen = cursor.gen => cursor'.last >= cursor.last
  <2>1. cursor.last \in Nat
    BY DEF RowsType, Position
  <2>2. QED
    BY <2>1, <1>1
<1>4. ASSUME NEW a \in Aliases, latest[a] # NoMessage, latest'[a].gen = latest[a].gen
      PROVE  \/ latest'[a].uid >= latest[a].uid
             \/ box[Source].gen # latest[a].gen
             \/ \A m \in Inbox(Source) : m.uid # latest[a].uid
  <2>1. latest[a].uid \in Nat /\ latest[a].gen \in Nat /\ latest[a].gen # NoMessage.gen
    BY <1>4 DEF LatestInv, ReadFrom, NoMessage, RowsType, Message
  <2>2. CASE latest'[a] = Kept(a, r)
    <3>1. latest'[a] = latest[a]
      BY <2>1, <2>2, <1>4, KeptIsLatest
    <3>2. QED
      BY <3>1, <2>1
  <2>3. CASE \E u \in 1 .. r.last :
                /\ latest'[a] = [gen |-> r.gen, uid |-> u, at |-> sync.version, from |-> sync.from]
                /\ ~(Kept(a, r).gen = r.gen /\ Kept(a, r).uid > u)
    <3>1. PICK u \in 1 .. r.last :
              /\ latest'[a] = [gen |-> r.gen, uid |-> u, at |-> sync.version, from |-> sync.from]
              /\ ~(Kept(a, r).gen = r.gen /\ Kept(a, r).uid > u)
      BY <2>3
    <3>2. latest'[a].gen = r.gen /\ latest'[a].uid = u /\ u \in Nat /\ latest[a].gen = r.gen
      BY <3>1, <1>1, <1>4
    <3>3. CASE Kept(a, r) = latest[a]
      BY <3>1, <3>2, <3>3, <2>1
    <3>4. CASE Kept(a, r) # latest[a]
      <4>1. a \in r.empty /\ a \in Enabled
        BY <3>2, <3>4, <1>4 DEF Kept, SnapshotOfGeneration
      <4>2. Expunged(box[Source], latest[a])
        BY <4>1, <3>2, <1>1 DEF ResultEmpty
      <4>3. QED
        BY <4>2 DEF Expunged, Inbox
    <3>5. QED
      BY <3>3, <3>4
  <2>4. QED
    BY <2>2, <2>3, <1>1, <1>2, NewLatestCases
<1>5. QED
  BY <1>3, <1>4 DEF Forward

LEMMA NextForward ==
    ASSUME SyncInv, [Next]_vars
    PROVE  Forward
<1>1. CASE Published
  BY <1>1, PublishedForward
<1>2. CASE ~Published
  <2>1. ASSUME UNCHANGED <<cursor, latest>> PROVE Forward
    BY <2>1, OnlyDropped
  <2>2. CASE \E s \in 1 .. MaxSource : \/ \E to \in Recipients : Arrive(s, to)
                                       \/ Expunge(s) \/ Rebuild(s)
    BY <2>1, <2>2 DEF Arrive, Expunge, Rebuild, tables
  <2>3. CASE StartSync \/ Fetch \/ FailSync
    BY <2>1, <2>3 DEF StartSync, Fetch, FailSync, tables
  <2>4. CASE ApplyMailboxSync
    <3>1. Stale(sync.version, sync.enabled, sync.result)
      BY <1>2, <2>4 DEF ApplyMailboxSync, Published, EndSync, upstream
    <3>2. QED
      BY <3>1, <2>1, <2>4 DEF ApplyMailboxSync, tables
  <2>5. CASE ResetAccount \/ DisableAccount
    BY <2>5, OnlyDropped DEF ResetAccount, DisableAccount
  <2>6. CASE ChangeSource
    BY <2>6, OnlyDropped DEF ChangeSource
  <2>7. CASE \E a \in Aliases : EnableAlias(a) \/ DisableAlias(a)
    BY <2>7, OnlyDropped DEF EnableAlias, DisableAlias
  <2>8. CASE \E a \in Aliases : DeleteAlias(a)
    <3>1. PICK a \in Aliases : DeleteAlias(a)
      BY <2>8
    <3>2. cursor' = cursor /\ latest' = [latest EXCEPT ![a] = NoMessage]
      BY <3>1 DEF DeleteAlias
    <3>3. \A x \in Aliases : latest'[x] \in {latest[x], NoMessage}
      BY <3>2 DEF SyncInv, Types, RowsType
    <3>4. QED
      BY <3>2, <3>3, OnlyDropped
  <2>9. CASE \E a \in Aliases : ReadBinding(a) \/ Consume(a)
    BY <2>1, <2>9 DEF ReadBinding, Consume, tables
  <2>10. CASE ListTasks \/ ProcessAccount \/ MarkSeen \/ DeleteSeenTasks \/ FailSeen
    BY <2>1, <2>10 DEF ListTasks, ProcessAccount, MarkSeen, DeleteSeenTasks, FailSeen,
                       tables
  <2>11. CASE UNCHANGED vars
    BY <2>1, <2>11 DEF vars, tables
  <2>12. QED
    BY <2>2, <2>3, <2>4, <2>5, <2>6, <2>7, <2>8, <2>9, <2>10, <2>11 DEF Next
<1>3. QED
  BY <1>1, <1>2

(* Neither the cursor nor the snapshot of an alias ever goes back to older *)
(* mail of its UIDVALIDITY, except past a message that is no longer in the *)
(* mailbox: ApplyMailboxSync drops a result that would.                    *)
THEOREM NeverBackwardsHolds == Spec => NeverBackwards
<1>1. SyncInv /\ [Next]_vars => Forward
  BY NextForward
<1>2. SyncInv /\ [Next]_vars => [Forward]_vars
  BY <1>1
<1>3. QED
  BY <1>2, SyncInvHolds, PTL DEF Spec, NeverBackwards, Forward

-----------------------------------------------------------------------------
(* The seen worker.  A task in the table is a message of the present       *)
(* source that was given; a listed one was given from some source.         *)
Delivered(x) == \E i \in DOMAIN given : Tail(given[i]) = x

SeenInv ==
    /\ \A t \in tasks : Delivered(<<Source, t.gen, t.uid>>)
    /\ \A t \in seen.batch : \E s \in Sources : Delivered(<<s, t.gen, t.uid>>)

LEMMA TailOfFour ==
    ASSUME NEW a, NEW b, NEW c, NEW d
    PROVE  Tail(<<a, b, c, d>>) = <<b, c, d>>
OBVIOUS

(* A request appends what it claimed to what was given.                    *)
LEMMA GivenGrows ==
    ASSUME SyncInv, [Next]_vars, NEW x, Delivered(x)
    PROVE  Delivered(x)'
<1>1. PICK i \in DOMAIN given : Tail(given[i]) = x
  BY DEF Delivered
<1>2. CASE \E a \in Aliases : Consume(a)
  <2>1. PICK a \in Aliases : Consume(a)
    BY <1>2
  <2> DEFINE g == <<a, reader.message.from, reader.message.gen, reader.message.uid>>
  <2>2. given' = given \/ given' = Append(given, g)
    BY <2>1 DEF Consume
  <2>3. given \in Seq(Aliases \X Nat \X Nat \X Nat) /\ g \in Aliases \X Nat \X Nat \X Nat
    BY DEF SyncInv, Types, HistoryType, ProcsType, Message
  <2> HIDE DEF g
  <2>4. CASE given' = Append(given, g)
    <3>1. /\ Len(given) \in Nat /\ i \in 1 .. Len(given)
          /\ DOMAIN given' = 1 .. Len(given) + 1 /\ given'[i] = given[i]
      <4>1. /\ DOMAIN Append(given, g) = 1 .. Len(given) + 1 /\ Len(given) \in Nat
            /\ DOMAIN given = 1 .. Len(given)
            /\ \A j \in DOMAIN given : Append(given, g)[j] = given[j]
        <5> DEFINE S == Aliases \X Nat \X Nat \X Nat
        <5>1. given \in Seq(S) /\ g \in S
          BY <2>3
        <5> HIDE DEF S
        <5>2. QED
          BY ONLY <5>1, AppendGives
      <4>2. QED
        BY <4>1, <1>1, <2>4
    <3>2. QED
      BY <1>1, <3>1 DEF Delivered
  <2>5. QED
    BY <1>1, <2>2, <2>4 DEF Delivered
<1>3. CASE ~\E a \in Aliases : Consume(a)
  <2>1. given' = given
    BY <1>3 DEF Next, Arrive, Expunge, Rebuild, StartSync, Fetch, ApplyMailboxSync,
                FailSync,
         ResetAccount, DisableAccount, ChangeSource, EnableAlias, DisableAlias, DeleteAlias,
         ReadBinding, ListTasks, ProcessAccount, MarkSeen, DeleteSeenTasks, FailSeen, vars, history
  <2>2. QED
    BY <1>1, <2>1 DEF Delivered
<1>4. QED
  BY <1>2, <1>3

LEMMA SeenInvStep ==
    ASSUME SyncInv, SeenInv, [Next]_vars
    PROVE  SeenInv'
<1> USE DEF SyncInv, Types
<1>1. \A x : Delivered(x) => Delivered(x)'
  BY GivenGrows
<1>2. Source \in Sources
  BY SourceType
<1> HIDE DEF SyncInv
<1>3. CASE ChangeSource
  <2>1. tasks' = {} /\ seen' = seen
    BY <1>3 DEF ChangeSource, procs
  <2>2. QED
    BY <1>1, <2>1 DEF SeenInv
<1>4. CASE \E a \in Aliases : Consume(a)
  <2>1. PICK a \in Aliases : Consume(a)
    BY <1>4
  <2> DEFINE t == [gen |-> latest[a].gen, uid |-> latest[a].uid]
             g == <<a, reader.message.from, reader.message.gen, reader.message.uid>>
  <2>2. /\ UNCHANGED <<account, seen>> /\ a \in reader.alias
        /\ \/ tasks' = tasks
           \/ Claimable(a) /\ tasks' = tasks \cup {t} /\ given' = Append(given, g)
    BY <2>1 DEF Consume
  <2>3. Source' = Source
    BY <2>2 DEF Source
  <2>4. CASE tasks' = tasks
    BY <1>1, <2>2, <2>3, <2>4 DEF SeenInv
  <2>5. CASE Claimable(a) /\ tasks' = tasks \cup {t} /\ given' = Append(given, g)
    <3>1. g = <<a, Source, t.gen, t.uid>>
      BY <2>2, <2>5, ClaimedIsCurrent
    <3>2. given \in Seq(Aliases \X Nat \X Nat \X Nat) /\ g \in Aliases \X Nat \X Nat \X Nat
      BY DEF SyncInv, HistoryType, ProcsType, Message
    <3> HIDE DEF g, t
    <3>3. Len(given) + 1 \in DOMAIN given' /\ given'[Len(given) + 1] = g
      BY <2>5, <3>2, AppendGives
    <3>4. Tail(g) = <<Source, t.gen, t.uid>>
      BY <3>1, TailOfFour
    <3>5. \A x : x = Tail(g) => Delivered(x)'
      BY <3>3 DEF Delivered
    <3>6. ASSUME NEW u \in tasks'
          PROVE  Delivered(<<Source, u.gen, u.uid>>)'
      <4>1. CASE u \in tasks
        BY <1>1, <2>3, <4>1 DEF SeenInv
      <4>2. CASE u = t
        BY <2>3, <3>4, <3>5, <4>2
      <4>3. QED
        BY <2>5, <4>1, <4>2
    <3>7. QED
      BY <1>1, <2>2, <3>6 DEF SeenInv
  <2>6. QED
    BY <2>2, <2>4, <2>5
<1>5. CASE ListTasks
  <2>1. UNCHANGED <<account, tasks>> /\ seen'.batch = tasks
    BY <1>5 DEF ListTasks, tables, NoWork
  <2>2. QED
    BY <1>1, <1>2, <2>1 DEF SeenInv, Source
<1>6. CASE DeleteSeenTasks
  <2>1. UNCHANGED account /\ tasks' \subseteq tasks /\ seen'.batch \subseteq seen.batch
    <3>1. /\ UNCHANGED account /\ tasks' \subseteq tasks
          /\ seen' = NoWork \/ seen' = [seen EXCEPT !.step = "mark", !.batch = @ \ Group]
      BY <1>6 DEF DeleteSeenTasks
    <3>2. seen \in [step : {"idle", "listed", "mark", "marked"}, batch : SUBSET Task, source : Nat]
      BY DEF SyncInv, ProcsType
    <3>3. seen' = NoWork => seen'.batch = {}
      BY DEF NoWork
    <3>4. seen' = [seen EXCEPT !.step = "mark", !.batch = @ \ Group]
              => seen'.batch = seen.batch \ Group
      BY <3>2
    <3>5. QED
      BY <3>1, <3>3, <3>4
  <2>2. QED
    BY <1>1, <2>1 DEF SeenInv, Source
<1>7. CASE FailSeen
  <2>1. UNCHANGED <<account, tasks>> /\ seen'.batch = {}
    BY <1>7 DEF FailSeen, tables, NoWork
  <2>2. QED
    BY <1>1, <2>1 DEF SeenInv, Source
<1>8. CASE ProcessAccount \/ MarkSeen
  <2>1. UNCHANGED <<account, tasks>> /\ seen'.batch = seen.batch
    BY <1>8 DEF ProcessAccount, MarkSeen, tables, SyncInv, ProcsType
  <2>2. QED
    BY <1>1, <2>1 DEF SeenInv, Source
<1>9. ASSUME UNCHANGED <<tasks, seen>>, Source' = Source
      PROVE  SeenInv'
  BY <1>1, <1>9 DEF SeenInv
<1>10. CASE \/ \E s \in 1 .. MaxSource : \/ \E to \in Recipients : Arrive(s, to)
                                         \/ Expunge(s) \/ Rebuild(s)
            \/ StartSync \/ Fetch \/ DisableAccount
            \/ \E a \in Aliases : ReadBinding(a) \/ DisableAlias(a) \/ EnableAlias(a) \/ DeleteAlias(a)
            \/ UNCHANGED vars
  <2>1. UNCHANGED <<tasks, seen>> /\ account'.source = account.source
    BY <1>10 DEF Arrive, Expunge, Rebuild, StartSync, Fetch, DisableAccount, ReadBinding,
                 DisableAlias,
         EnableAlias, DeleteAlias, vars, tables, procs, SyncInv, AccountType
  <2>2. QED
    BY <1>9, <2>1 DEF Source
<1>11. CASE ApplyMailboxSync \/ FailSync \/ ResetAccount
  <2>1. UNCHANGED <<tasks, seen>> /\ account'.source = account.source
    BY <1>11 DEF ApplyMailboxSync, FailSync, ResetAccount, tables, procs, SyncInv,
                 AccountType
  <2>2. QED
    BY <1>9, <2>1 DEF Source
<1>12. QED
  BY <1>3, <1>4, <1>5, <1>6, <1>7, <1>8, <1>10, <1>11 DEF Next

LEMMA SeenInvHolds == Spec => []SeenInv
<1>1. Init => SeenInv
  BY DEF Init, SeenInv, NoWork
<1>2. SyncInv /\ SeenInv /\ [Next]_vars => SeenInv'
  BY SeenInvStep
<1>3. QED
  BY <1>1, <1>2, SyncInvHolds, PTL DEF Spec

(* As long as the mailbox source of the account never changes, the seen    *)
(* worker marks only messages that a client was given.  (A batch that was  *)
(* listed before UpdateAccount changes the source is marked in the new     *)
(* mailbox: the property fails with two sources.)                          *)
THEOREM SeenOnlyDeliveredHolds ==
    ASSUME MaxSource = 1
    PROVE  Spec => []SeenOnlyDelivered
<1>1. Init => SeenOnlyDelivered
  BY DEF Init, SeenOnlyDelivered
<1>2. SyncInv /\ SeenInv /\ SeenOnlyDelivered /\ [Next]_vars => SeenOnlyDelivered'
  <2> SUFFICES ASSUME SyncInv, SeenInv, SeenOnlyDelivered, [Next]_vars
               PROVE  SeenOnlyDelivered'
    OBVIOUS
  <2>1. \A x : Delivered(x) => Delivered(x)'
    BY GivenGrows
  <2>2. \A x \in marked : Delivered(x)
    BY DEF SeenOnlyDelivered, Delivered
  <2>3. \A x \in marked' : x \in marked \/ Delivered(x)
    <3>1. CASE MarkSeen
      <4>1. SUFFICES ASSUME NEW x \in marked', x \notin marked PROVE Delivered(x)
        OBVIOUS
      <4>2. PICK m \in Inbox(seen.source) :
                /\ x = <<seen.source, box[seen.source].gen, m.uid>>
                /\ \E t \in Group : MayMark(t) /\ t.uid = m.uid
        BY <3>1, <4>1 DEF MarkSeen
      <4>3. PICK t \in seen.batch : box[seen.source].gen = t.gen /\ t.uid = m.uid
        BY <4>2 DEF Group, MayMark
      <4>4. PICK s \in Sources : Delivered(<<s, t.gen, t.uid>>)
        BY <4>3 DEF SeenInv
      <4>5. seen.source \in Sources
        BY <3>1 DEF MarkSeen, SyncInv, Types, ProcsType
      <4>6. s = seen.source
        BY <4>4, <4>5 DEF Sources
      <4>7. QED
        BY <4>2, <4>3, <4>4, <4>6
    <3>2. CASE ~MarkSeen
      <4>1. marked' = marked
        BY <3>2 DEF Next, Arrive, Expunge, Rebuild, StartSync, Fetch, ApplyMailboxSync,
                    FailSync,
             ResetAccount, DisableAccount, ChangeSource, EnableAlias, DisableAlias, DeleteAlias,
             ReadBinding, Consume, ListTasks, ProcessAccount, DeleteSeenTasks, FailSeen, vars, history
      <4>2. QED
        BY <4>1
    <3>3. QED
      BY <3>1, <3>2
  <2>4. QED
    BY <2>1, <2>2, <2>3 DEF SeenOnlyDelivered, Delivered
<1>3. QED
  BY <1>1, <1>2, SyncInvHolds, SeenInvHolds, PTL DEF Spec
=============================================================================
