-------------------------- MODULE ArchiveDiscovery --------------------------
(***************************************************************************)
(* How one IMAP session finds its batch of UIDs while other clients        *)
(* expunge messages and new mail arrives (mail/archive_fetcher_v2.go):     *)
(* discoverArchiveUIDs with its bisection over sequence numbers, and       *)
(* establishArchiveRecentCursor, which a reset uses instead.               *)
(*                                                                         *)
(* Every IMAP command is one step; between two commands the mailbox may    *)
(* change, and an EXPUNGE renumbers the messages behind it.  A definition  *)
(* Op_Flaw is a faulty Op, used only to test the properties.               *)
(***************************************************************************)
EXTENDS Integers, Sequences, FiniteSets, FiniteSetsExt, SequencesExt

CONSTANTS
    MaxUID,    \* bound on UIDs
    Limit,     \* maxIncrementalCandidates
    Window     \* maxCandidates, the recent messages of a reset

ASSUME DiscoveryAssumption == {MaxUID, Limit, Window} \subseteq Nat \ {0}

VARIABLES
    box,       \* UIDs of the mailbox by sequence number
    next,      \* UIDNEXT
    step,      \* the next command of the session
    last,      \* the committed cursor, -1 when there is none
    view,      \* the mailbox at SELECT
    upper,     \* the highest UID at SELECT
    low, high, \* findArchiveFirstSequenceAfterUID
    first,     \* its answer
    sentinel,  \* UID of the trailing sentinel or of the anchor, 0 = none
    found,     \* the UIDs of the range
    result     \* processedThrough and the discovered UIDs

mailbox == <<box, next>>
search == <<low, high, first>>
vars == <<mailbox, step, last, view, upper, search, sentinel, found, result>>

NoResult == [last |-> -1, uids |-> {}]
NumMessages == Len(view)

(* fetchArchiveSequenceRange answers only if every number still exists.    *)
Exists(i) == i \in 1 .. Len(box)

Fail == step' = "failed" /\ UNCHANGED <<search, sentinel, found, result>>
Done(through, uids) ==
    /\ step' = "done"
    /\ result' = [last |-> through, uids |-> uids]
    /\ UNCHANGED <<search, sentinel, found>>

(* A mailbox lists its messages by ascending UID.                          *)
Ascending(s) == \A i, j \in DOMAIN s : i < j => s[i] < s[j]

Init ==
    /\ \E n \in 0 .. MaxUID : box \in {s \in [1 .. n -> 1 .. MaxUID] : Ascending(s)}
    /\ next \in 1 .. MaxUID + 1
    /\ \A i \in DOMAIN box : box[i] < next
    /\ last \in -1 .. MaxUID
    /\ step = "select" /\ view = <<>> /\ upper = 0
    /\ low = 0 /\ high = 0 /\ first = 0 /\ sentinel = 0 /\ found = <<>>
    /\ result = NoResult

(* Other clients and the delivery of new mail.                             *)
Expunge(i) ==
    /\ step # "select"
    /\ box' = RemoveAt(box, i)
    /\ UNCHANGED <<next, step, last, view, upper, search, sentinel, found, result>>

Arrive ==
    /\ step # "select" /\ next <= MaxUID
    /\ box' = Append(box, next) /\ next' = next + 1
    /\ UNCHANGED <<step, last, view, upper, search, sentinel, found, result>>

-----------------------------------------------------------------------------
(* upperUID, the highest UID the mailbox can hold when it is selected.     *)
UpperUID == next - 1

(* SELECT, and the ways out of fetchArchiveIncremental, discoverArchiveUIDs*)
(* and establishArchiveRecentCursor that need no sequence numbers.         *)
Select ==
    /\ step = "select"
    /\ view' = box /\ upper' = UpperUID
    /\ \/ /\ last = -1
          /\ IF Len(box) > Window
             THEN step' = "anchor" /\ UNCHANGED result
             ELSE /\ step' = "done"
                  /\ result' = [last |-> IF box = <<>> THEN UpperUID ELSE 0, uids |-> {}]
       \/ /\ last > UpperUID
          /\ step' = "failed" /\ UNCHANGED result
       \/ /\ last \in 0 .. UpperUID
          /\ IF last = UpperUID \/ box = <<>>
             THEN step' = "done" /\ result' = [last |-> UpperUID, uids |-> {}]
             ELSE /\ step' = IF UpperUID - last <= Limit THEN "search" ELSE "guess"
                  /\ UNCHANGED result
    /\ UNCHANGED <<mailbox, last, search, sentinel, found>>

(* A small interval is asked for with one UID SEARCH.                      *)
Search ==
    /\ step = "search"
    /\ Done(upper, {box[i] : i \in {j \in DOMAIN box : box[j] > last /\ box[j] <= upper}})
    /\ UNCHANGED <<mailbox, last, view, upper>>

-----------------------------------------------------------------------------
(* findArchiveFirstSequenceAfterUID: a first guess, then bisection.        *)
Guess_Unclamped == last + 1
Guess == IF last + 1 > NumMessages THEN NumMessages ELSE last + 1

Probe(i, uid) == Exists(i) /\ box[i] <= upper /\ uid = box[i]

FirstGuess ==
    /\ step = "guess"
    /\ \/ (~\E uid \in 1 .. upper : Probe(Guess, uid)) /\ Fail
       \/ \E uid \in 1 .. upper :
             /\ Probe(Guess, uid)
             /\ low' = IF uid <= last THEN Guess + 1 ELSE 1
             /\ high' = IF uid <= last THEN NumMessages + 1 ELSE Guess
             /\ first' = IF uid = last + 1 THEN Guess ELSE 0
             /\ step' = IF uid = last + 1 THEN "trailing" ELSE "bisect"
             /\ UNCHANGED <<sentinel, found, result>>
    /\ UNCHANGED <<mailbox, last, view, upper>>

Middle == low + ((high - low) \div 2)

(* The half of low .. high that can hold the first UID after the cursor.   *)
Half_Stuck(uid) == IF uid <= last THEN <<Middle, high>> ELSE <<low, Middle>>
Half(uid) == IF uid <= last THEN <<Middle + 1, high>> ELSE <<low, Middle>>

Bisect ==
    /\ step = "bisect"
    /\ \/ /\ low >= high
          /\ first' = low /\ step' = "trailing"
          /\ UNCHANGED <<low, high, sentinel, found, result>>
       \/ low < high /\ (~\E uid \in 1 .. upper : Probe(Middle, uid)) /\ Fail
       \/ \E uid \in 1 .. upper :
             /\ low < high /\ Probe(Middle, uid)
             /\ low' = Half(uid)[1] /\ high' = Half(uid)[2]
             /\ UNCHANGED <<step, first, sentinel, found, result>>
    /\ UNCHANGED <<mailbox, last, view, upper>>

-----------------------------------------------------------------------------
(* discoverArchiveUIDs: the trailing sentinel, the range with its leading  *)
(* sentinel, and both again.                                               *)
RangeFirst == IF first > 1 THEN first - 1 ELSE first
RangeLast == IF first + Limit - 1 < NumMessages THEN first + Limit - 1 ELSE NumMessages
HasMore == RangeLast < NumMessages

Trailing ==
    /\ step = "trailing"
    /\ \/ first > NumMessages /\ Done(upper, {})
       \/ /\ first <= NumMessages /\ ~HasMore
          /\ step' = "range"
          /\ UNCHANGED <<search, sentinel, found, result>>
       \/ /\ first <= NumMessages /\ HasMore /\ Exists(RangeLast + 1)
          /\ step' = "range" /\ sentinel' = box[RangeLast + 1]
          /\ UNCHANGED <<search, found, result>>
       \/ first <= NumMessages /\ HasMore /\ ~Exists(RangeLast + 1) /\ Fail
    /\ UNCHANGED <<mailbox, last, view, upper>>

FetchRange ==
    /\ step = "range"
    /\ \/ ~Exists(RangeLast) /\ Fail
       \/ /\ Exists(RangeLast)
          /\ found' = SubSeq(box, RangeFirst, RangeLast)
          /\ step' = IF HasMore THEN "retrailing" ELSE "releading"
          /\ UNCHANGED <<search, sentinel, result>>
    /\ UNCHANGED <<mailbox, last, view, upper>>

CheckTrailing ==
    /\ step = "retrailing"
    /\ IF Exists(RangeLast + 1) /\ box[RangeLast + 1] = sentinel
       THEN step' = "releading" /\ UNCHANGED <<search, sentinel, found, result>>
       ELSE Fail
    /\ UNCHANGED <<mailbox, last, view, upper>>

(* What the range must satisfy; its first UID is only a sentinel when      *)
(* there are messages before it.                                           *)
New == IF first > 1 THEN Tail(found) ELSE found

Consistent_NoLeading ==
    /\ New # <<>>
    /\ \A i \in DOMAIN New : last < New[i] /\ New[i] <= upper
Consistent ==
    /\ first > 1 => Head(found) <= last
    /\ Exists(RangeFirst) /\ box[RangeFirst] = Head(found)
    /\ New # <<>>
    /\ \A i \in DOMAIN New : last < New[i] /\ New[i] <= upper

CheckLeading ==
    /\ step = "releading"
    /\ IF Consistent THEN Done(IF HasMore THEN Last(New) ELSE upper, ToSet(New)) ELSE Fail
    /\ UNCHANGED <<mailbox, last, view, upper>>

-----------------------------------------------------------------------------
(* establishArchiveRecentCursor, for more than Window messages: the tail   *)
(* is an anchor around the read of the boundary.                           *)
Anchor ==
    /\ step = "anchor"
    /\ \/ /\ Exists(NumMessages) /\ box[NumMessages] <= upper
          /\ sentinel' = box[NumMessages] /\ step' = "boundary"
          /\ UNCHANGED <<search, found, result>>
       \/ ~(Exists(NumMessages) /\ box[NumMessages] <= upper) /\ Fail
    /\ UNCHANGED <<mailbox, last, view, upper>>

Boundary ==
    LET i == NumMessages - Window IN
    /\ step = "boundary"
    /\ IF Exists(i) /\ box[i] < sentinel
       THEN found' = <<box[i]>> /\ step' = "reanchor" /\ UNCHANGED <<search, sentinel, result>>
       ELSE Fail
    /\ UNCHANGED <<mailbox, last, view, upper>>

Anchored_Present == Exists(1)
Anchored == Exists(NumMessages) /\ box[NumMessages] = sentinel

CheckAnchor ==
    /\ step = "reanchor"
    /\ IF Anchored THEN Done(Head(found), {}) ELSE Fail
    /\ UNCHANGED <<mailbox, last, view, upper>>

-----------------------------------------------------------------------------
Session ==
    \/ Select \/ Search \/ FirstGuess \/ Bisect
    \/ Trailing \/ FetchRange \/ CheckTrailing \/ CheckLeading
    \/ Anchor \/ Boundary \/ CheckAnchor

Next ==
    \/ Session \/ Arrive
    \/ \E i \in DOMAIN box : Expunge(i)

Spec == Init /\ [][Next]_vars

FairSpec == Spec /\ WF_vars(Session)

-----------------------------------------------------------------------------
(* Types of the session.                                                   *)
TypeOK ==
    /\ box \in Seq(1 .. MaxUID) /\ next \in 1 .. MaxUID + 1
    /\ step \in {"select", "search", "guess", "bisect", "trailing", "range", "retrailing",
                 "releading", "anchor", "boundary", "reanchor", "done", "failed"}
    /\ last \in -1 .. MaxUID /\ upper \in 0 .. MaxUID
    /\ low \in 0 .. NumMessages + 1 /\ high \in 0 .. NumMessages + 1
    /\ first \in 0 .. NumMessages + 1
    /\ found \in Seq(1 .. MaxUID)
    /\ result.last \in -1 .. MaxUID /\ result.uids \subseteq 1 .. MaxUID

(* "The leading/trailing sentinels detect EXPUNGE races": a batch that the *)
(* cursor is advanced over contains every message that is still there,     *)
(* wherever expunges and arrivals fell between the commands.               *)
SkipsNothing ==
    step = "done" /\ last # -1 =>
        \A i \in DOMAIN box : last < box[i] /\ box[i] <= result.last => box[i] \in result.uids

(* The cursor moves forward, never past the selected mailbox, and never by *)
(* more than a batch.                                                      *)
AdvancesByABatch ==
    step = "done" /\ last # -1 =>
        /\ result.last \in last .. upper
        /\ result.last = last => last = upper
        /\ result.uids \subseteq last + 1 .. result.last
        /\ Cardinality(result.uids) <= Limit

(* A session that ends with a batch took the next mail, all of it, and     *)
(* nothing else.                                                           *)
BatchExact == SkipsNothing /\ AdvancesByABatch

(* A reset keeps exactly the Window most recent messages of the selected   *)
(* mailbox: more would be an unbounded backfill, fewer would lose mail.    *)
WindowExact ==
    step = "done" /\ last = -1 /\ view # <<>> =>
        Cardinality({i \in DOMAIN view : view[i] > result.last})
            = IF NumMessages < Window THEN NumMessages ELSE Window

(* Only an expunge (or a cursor beyond the mailbox) makes an attempt fail: *)
(* new mail alone never does, so a retry is not wasted on it.              *)
FailsOnlyWhenDisturbed ==
    step = "failed" => last > upper \/ \E i \in DOMAIN view : view[i] \notin ToSet(box)

(* The bisection always ends: an attempt succeeds or fails.                *)
SessionEnds == <>(step \in {"done", "failed"})
=============================================================================
