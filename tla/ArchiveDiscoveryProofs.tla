----------------------- MODULE ArchiveDiscoveryProofs -----------------------
(***************************************************************************)
(* Proofs about one discovery session, for every mailbox, cursor, batch    *)
(* and window, and every interleaving of expunges and arrivals.            *)
(*                                                                         *)
(* The argument: an expunge moves messages towards the front only, and no  *)
(* message by less than one before it (Shifted).  So a number answers with *)
(* its message of the SELECT or a later one, the tail of the mailbox shows *)
(* whether anything moved, and a range keeps covering the UIDs between its *)
(* ends (RangeCovers) whatever happens after it was read.                  *)
(***************************************************************************)
EXTENDS ArchiveDiscovery, FiniteSetTheorems, TLAPS

UIDs == 1 .. MaxUID
SearchSteps == {"guess", "bisect"}
RangeSteps == {"trailing", "range", "retrailing", "releading"}
AnchorSteps == {"anchor", "boundary", "reanchor"}
Steps == {"select", "search", "done", "failed"} \cup SearchSteps \cup RangeSteps \cup AnchorSteps

SessionType ==
    /\ box \in Seq(UIDs) /\ next \in 1 .. MaxUID + 1
    /\ step \in Steps
    /\ last \in -1 .. MaxUID /\ upper \in 0 .. MaxUID
    /\ view \in Seq(UIDs)
    /\ low \in Int /\ high \in Int /\ first \in Int
    /\ sentinel \in 0 .. MaxUID
    /\ found \in Seq(UIDs)
    /\ result \in [last : -1 .. MaxUID, uids : SUBSET UIDs]

-----------------------------------------------------------------------------
\* The mailbox and what it was at SELECT.
Sorted ==
    /\ Ascending(box) /\ \A i \in DOMAIN box : box[i] < next
    /\ Ascending(view) /\ \A i \in DOMAIN view : view[i] <= upper
    /\ step # "select" => upper < next

\* A message of the SELECT is where it was or before it, and nothing in front of
\* it has moved further.
Shifted ==
    step # "select" =>
        /\ \A i \in DOMAIN box : box[i] <= upper => \E k \in DOMAIN view : box[i] = view[k]
        /\ \A j \in DOMAIN box, k \in DOMAIN view : box[j] = view[k] =>
              \A i \in 1 .. j : \E m \in DOMAIN view :
                  box[i] = view[m] /\ i <= m /\ m - i <= k - j

Disturbed == \E i \in DOMAIN view : view[i] \notin ToSet(box)
InPlace(i) == i \in DOMAIN box /\ box[i] = view[i]
Undisturbed == step # "select" => Disturbed \/ \A i \in DOMAIN view : InPlace(i)

-----------------------------------------------------------------------------
\* Which way the session took.
Route ==
    /\ step \in {"search"} \cup SearchSteps \cup RangeSteps =>
          last \in 0 .. upper - 1 /\ view # <<>>
    /\ step = "search" => upper - last <= Limit
    /\ step \in AnchorSteps => last = -1 /\ NumMessages > Window

NothingNew == \A i \in DOMAIN box : ~(last < box[i] /\ box[i] <= upper)

\* Where the bisection has got to: beyond the end only if there is nothing new.
Between(from, to) ==
    /\ 1 <= from /\ from <= to /\ to <= NumMessages + 1
    /\ from = NumMessages + 1 => NothingNew
    /\ \/ Disturbed
       \/ \A i \in DOMAIN view : (i < from => view[i] <= last) /\ (to <= i => last < view[i])

Bisected ==
    /\ step = "bisect" => Between(low, high)
    /\ step \in RangeSteps => Between(first, first)
    /\ step \in RangeSteps \ {"trailing"} => first <= NumMessages

SentinelInView ==
    /\ step \in {"range", "retrailing"} /\ HasMore => Disturbed \/ sentinel = view[RangeLast + 1]
    /\ step = "retrailing" => HasMore

\* The range covers the UIDs between its ends; the last range, up to upper; the
\* first, from the beginning.
Covered(uid) ==
    /\ found[1] <= uid
    /\ uid <= Last(found) \/ (~HasMore /\ uid <= upper)
RangeCovers ==
    step \in {"retrailing", "releading"} =>
        /\ Len(found) = RangeLast - RangeFirst + 1
        /\ Ascending(found) /\ \A i \in DOMAIN found : found[i] < next
        /\ \A i \in DOMAIN box : Covered(box[i]) => box[i] \in ToSet(found)
        /\ first = 1 => \A i \in DOMAIN box : found[1] <= box[i]
        /\ Disturbed \/ \A i \in DOMAIN found : found[i] = view[RangeFirst + i - 1]

\* The anchor is the last message of the SELECT.  The boundary has moved by less
\* than anything behind it.
Cut == NumMessages - Window
BoundaryAt(m) ==
    /\ found = <<view[m]>> /\ Cut <= m
    /\ \A j \in DOMAIN box, k \in DOMAIN view :
          Cut <= j /\ box[j] = view[k] => m - Cut <= k - j
AnchorInv ==
    /\ step \in {"boundary", "reanchor"} => sentinel = view[NumMessages]
    /\ step = "reanchor" => \E m \in DOMAIN view : BoundaryAt(m)

DiscoveryInv ==
    /\ SessionType /\ Sorted /\ Shifted /\ Undisturbed
    /\ Route /\ Bisected /\ SentinelInView /\ RangeCovers /\ AnchorInv
    /\ BatchExact /\ WindowExact /\ FailsOnlyWhenDisturbed

-----------------------------------------------------------------------------
\* What the types say of the numbers.
LEMMA SessionFacts ==
    SessionType =>
        /\ Len(box) \in Nat /\ DOMAIN box = 1 .. Len(box)
        /\ Len(view) \in Nat /\ DOMAIN view = 1 .. Len(view)
        /\ Len(found) \in Nat /\ DOMAIN found = 1 .. Len(found)
        /\ \A i \in DOMAIN box : box[i] \in UIDs
        /\ \A i \in DOMAIN view : view[i] \in UIDs
        /\ \A i \in DOMAIN found : found[i] \in UIDs
        /\ UIDs \subseteq Int /\ \A uid \in UIDs : 1 <= uid
        /\ next \in Int /\ upper \in Nat /\ last \in Int /\ sentinel \in Int
        /\ Limit \in Nat \ {0} /\ Window \in Nat \ {0} /\ MaxUID \in Nat \ {0}
        /\ NumMessages = Len(view) /\ Cut \in Int /\ Cut < NumMessages
        /\ (view = <<>> <=> Len(view) = 0)
<1> SUFFICES ASSUME SessionType
             PROVE  SessionFacts!2
  OBVIOUS
<1>1. Limit \in Nat \ {0} /\ Window \in Nat \ {0} /\ MaxUID \in Nat \ {0}
  BY DiscoveryAssumption
<1>2. UIDs \subseteq Int /\ \A uid \in UIDs : 1 <= uid
  BY <1>1 DEF UIDs
<1>3. box \in Seq(UIDs) /\ view \in Seq(UIDs) /\ found \in Seq(UIDs)
  BY DEF SessionType
<1>4. next \in Int /\ upper \in Nat /\ last \in Int /\ sentinel \in Int
  BY <1>1 DEF SessionType
<1>5. NumMessages = Len(view) /\ Cut \in Int /\ Cut < NumMessages
  BY <1>1, <1>3 DEF NumMessages, Cut
<1> QED
  BY <1>1, <1>2, <1>3, <1>4, <1>5

\* The same of the mailbox after a step.
LEMMA NextBox ==
    SessionType' =>
        /\ box' \in Seq(UIDs) /\ Len(box') \in Nat /\ DOMAIN box' = 1 .. Len(box')
        /\ \A i \in DOMAIN box' : box'[i] \in Int
        /\ next' \in Int
<1> SUFFICES ASSUME SessionType'
             PROVE  NextBox!2
  OBVIOUS
<1>1. MaxUID \in Nat
  BY DiscoveryAssumption
<1>2. box' \in Seq(UIDs)
  BY DEF SessionType, UIDs
<1>3. next' \in Int
  BY <1>1 DEF SessionType
<1>4. UIDs \subseteq Int
  BY <1>1 DEF UIDs
<1>5. Len(box') \in Nat /\ DOMAIN box' = 1 .. Len(box')
  BY <1>2
<1>6. \A i \in DOMAIN box' : box'[i] \in UIDs
  BY <1>2
<1> QED
  BY <1>2, <1>3, <1>4, <1>5, <1>6

LEMMA DiscoveryInitially == Init => DiscoveryInv
<1> SUFFICES ASSUME Init PROVE DiscoveryInv
  OBVIOUS
<1>1. PICK n \in 0 .. MaxUID : box \in [1 .. n -> UIDs] /\ Ascending(box)
  BY DEF Init, UIDs
<1>2. box \in Seq(UIDs)
  BY <1>1
<1>3. SessionType
  BY <1>2, DiscoveryAssumption DEF Init, SessionType, UIDs, Steps, NoResult
<1>4. Sorted
  BY <1>1, <1>2 DEF Init, Sorted, Ascending
<1>5. step = "select" /\ view = <<>>
  BY DEF Init
<1>6. Shifted /\ Undisturbed /\ Route /\ Bisected /\ SentinelInView /\ RangeCovers /\ AnchorInv
  BY <1>5 DEF Shifted, Undisturbed, Route, Bisected, SentinelInView, RangeCovers, AnchorInv,
              SearchSteps, RangeSteps, AnchorSteps
<1>7. BatchExact /\ WindowExact /\ FailsOnlyWhenDisturbed
  BY <1>5 DEF BatchExact, SkipsNothing, AdvancesByABatch, WindowExact, FailsOnlyWhenDisturbed
<1> QED
  BY <1>3, <1>4, <1>6, <1>7 DEF DiscoveryInv

-----------------------------------------------------------------------------
(* The mailbox changes, the session does not move.                         *)

\* What an expunge leaves: everything behind it moves up by one.
LEMMA Removed ==
    ASSUME SessionType, NEW r \in DOMAIN box, box' = RemoveAt(box, r)
    PROVE  /\ box' \in Seq(UIDs)
           /\ Len(box') = Len(box) - 1 /\ DOMAIN box' = 1 .. Len(box) - 1
           /\ \A j \in DOMAIN box' : box'[j] = IF j < r THEN box[j] ELSE box[j + 1]
<1> DEFINE front == SubSeq(box, 1, r - 1)
           back == SubSeq(box, r + 1, Len(box))
<1>1. box \in Seq(UIDs) /\ r \in 1 .. Len(box) /\ Len(box) \in Nat
  BY DEF SessionType
<1>2. /\ front \in Seq(UIDs) /\ Len(front) = r - 1
      /\ \A j \in 1 .. r - 1 : front[j] = box[j]
  BY <1>1
<1>3. /\ back \in Seq(UIDs) /\ Len(back) = Len(box) - r
      /\ \A j \in 1 .. Len(box) - r : back[j] = box[r + j]
  BY <1>1
<1>4. box' = front \o back
  BY DEF RemoveAt
<1> HIDE DEF front, back
<1>5. box' \in Seq(UIDs) /\ Len(box') = Len(box) - 1
  BY <1>1, <1>2, <1>3, <1>4
<1>6. ASSUME NEW j \in DOMAIN box'
      PROVE  box'[j] = IF j < r THEN box[j] ELSE box[j + 1]
  <2>1. j \in 1 .. Len(box) - 1
    BY <1>5
  <2>2. CASE j < r
    BY <1>1, <1>2, <1>3, <1>4, <2>1, <2>2
  <2>3. CASE ~(j < r)
    <3>1. j - (r - 1) \in 1 .. Len(box) - r /\ r + (j - (r - 1)) = j + 1
      BY <1>1, <2>1, <2>3
    <3>2. box'[j] = back[j - (r - 1)]
      BY <1>1, <1>2, <1>3, <1>4, <2>1, <2>3
    <3> QED
      BY <3>1, <3>2, <1>3, <2>3
  <2> QED
    BY <2>2, <2>3
<1> QED
  BY <1>5, <1>6 DEF SessionType

\* A message of the mailbox was in it before the change.
LEMMA StillThere ==
    ASSUME SessionType, NEW r \in DOMAIN box, box' = RemoveAt(box, r)
    PROVE  \A j \in DOMAIN box' : \E i \in DOMAIN box :
              box'[j] = box[i] /\ j <= i /\ i <= j + 1 /\ (i = j <=> j < r)
<1> SUFFICES ASSUME NEW j \in DOMAIN box'
             PROVE  \E i \in DOMAIN box :
                       box'[j] = box[i] /\ j <= i /\ i <= j + 1 /\ (i = j <=> j < r)
  OBVIOUS
<1>1. j \in 1 .. Len(box) - 1 /\ r \in 1 .. Len(box) /\ Len(box) \in Nat
  BY Removed, SMTT(30) DEF SessionType
<1>2. box'[j] = IF j < r THEN box[j] ELSE box[j + 1]
  BY Removed
<1>3. CASE j < r
  BY <1>1, <1>2, <1>3
<1>4. CASE ~(j < r)
  <2>1. j + 1 \in DOMAIN box
    BY <1>1, <1>4 DEF SessionType
  <2> QED
    BY <1>1, <1>2, <1>4, <2>1
<1> QED
  BY <1>3, <1>4

\* What a change of the mailbox leaves of the session.
Idle == UNCHANGED <<step, last, view, upper, search, sentinel, found, result>>

LEMMA ExpungeSorted ==
    ASSUME DiscoveryInv, NEW r \in DOMAIN box, Expunge(r)
    PROVE  SessionType' /\ Sorted' /\ Idle
<1>1. SessionType /\ Sorted /\ Idle /\ UNCHANGED next /\ box' = RemoveAt(box, r)
  BY DEF Expunge, Idle, DiscoveryInv
<1>2. SessionType'
  BY <1>1, Removed DEF SessionType, Idle, search
<1>3. \A i \in DOMAIN box' : box'[i] < next
  BY <1>1, StillThere DEF Sorted
<1>4. ASSUME NEW i \in DOMAIN box', NEW j \in DOMAIN box', i < j
      PROVE  box'[i] < box'[j]
  <2>1. Len(box) \in Nat /\ i \in 1 .. Len(box) - 1 /\ j \in 1 .. Len(box) - 1 /\ r \in 1 .. Len(box)
    <3>1. DOMAIN box' = 1 .. Len(box) - 1
      BY <1>1, Removed
    <3> QED
      BY <1>1, <1>4, <3>1, SessionFacts
  <2>2. DOMAIN box = 1 .. Len(box)
    BY <1>1 DEF SessionType
  <2> DEFINE p == IF i < r THEN i ELSE i + 1
             q == IF j < r THEN j ELSE j + 1
  <2>3. p \in DOMAIN box /\ q \in DOMAIN box /\ p < q
    BY <2>1, <2>2, <1>4
  <2>4. box'[i] = box[p] /\ box'[j] = box[q]
    BY <1>1, <1>4, Removed
  <2> QED
    BY <2>3, <2>4, <1>1 DEF Sorted, Ascending
<1> QED
  BY <1>1, <1>2, <1>3, <1>4 DEF Sorted, Ascending, Idle

LEMMA ExpungeShifted ==
    ASSUME DiscoveryInv, NEW r \in DOMAIN box, Expunge(r)
    PROVE  Shifted'
<1>1. SessionType /\ Sorted /\ Idle /\ box' = RemoveAt(box, r) /\ step # "select"
  BY DEF Expunge, Idle, DiscoveryInv
<1>2. Shifted /\ UNCHANGED <<upper, view, step>>
  BY <1>1 DEF Idle, DiscoveryInv
<1>3. Len(box) \in Nat /\ DOMAIN box = 1 .. Len(box) /\ DOMAIN box' = 1 .. Len(box) - 1
      /\ r \in 1 .. Len(box) /\ Len(view) \in Nat /\ DOMAIN view = 1 .. Len(view)
  BY <1>1, Removed, SMTT(30) DEF SessionType
<1>4. \A i \in DOMAIN box' : box'[i] <= upper => \E k \in DOMAIN view : box'[i] = view[k]
  BY <1>1, <1>2, StillThere DEF Shifted
<1>5. ASSUME NEW j \in DOMAIN box', NEW k \in DOMAIN view, box'[j] = view[k], NEW i \in 1 .. j
      PROVE  \E m \in DOMAIN view : box'[i] = view[m] /\ i <= m /\ m - i <= k - j
  <2> DEFINE p == IF i < r THEN i ELSE i + 1
             q == IF j < r THEN j ELSE j + 1
  <2>1. p \in 1 .. q /\ q \in DOMAIN box /\ i <= p /\ p - i <= q - j /\ i \in DOMAIN box'
    BY <1>3, <1>5
  <2>2. box'[i] = box[p] /\ box'[j] = box[q]
    BY <1>1, <2>1, <1>5, Removed
  <2>3. PICK m \in DOMAIN view : box[p] = view[m] /\ p <= m /\ m - p <= k - q
    BY <1>1, <1>2, <2>1, <2>2, <1>5 DEF Shifted
  <2>4. i \in Int /\ j \in Int /\ k \in Int /\ m \in Int /\ p \in Int /\ q \in Int
    BY <1>3, <1>5
  <2>5. i <= m /\ m - i <= k - j
    <3> HIDE DEF p, q
    <3> QED
      BY <2>1, <2>3, <2>4
  <2> QED
    BY <2>2, <2>3, <2>5
<1> QED
  BY <1>2, <1>4, <1>5 DEF Shifted

LEMMA ExpungeUndisturbed ==
    ASSUME DiscoveryInv, NEW r \in DOMAIN box, Expunge(r)
    PROVE  Undisturbed'
<1>1. SessionType /\ Sorted /\ box' = RemoveAt(box, r) /\ UNCHANGED <<step, view>>
      /\ step # "select" /\ Undisturbed
  BY DEF Expunge, DiscoveryInv
<1>2. Len(box) \in Nat /\ DOMAIN box = 1 .. Len(box) /\ DOMAIN box' = 1 .. Len(box) - 1
      /\ Len(view) \in Nat /\ DOMAIN view = 1 .. Len(view)
  BY <1>1, Removed DEF SessionType
<1>3. CASE Disturbed
  <2>1. \A j \in DOMAIN box' : box'[j] \in ToSet(box)
    BY <1>1, StillThere DEF ToSet
  <2>2. Disturbed'
    BY <1>1, <1>3, <2>1 DEF Disturbed, ToSet
  <2> QED
    BY <2>2 DEF Undisturbed
<1>4. CASE (\A i \in DOMAIN view : InPlace(i)) /\ r \in DOMAIN view
  <2>1. ASSUME NEW j \in DOMAIN box'
        PROVE  box'[j] # view[r]
    <3>1. PICK i \in DOMAIN box :
             box'[j] = box[i] /\ j <= i /\ i <= j + 1 /\ (i = j <=> j < r)
      BY <1>1, StillThere
    <3>4. i # r
      <4>1. j \in Int /\ i \in Int /\ r \in Int
        BY <1>2
      <4> QED
        BY <3>1, <4>1
    <3>2. box[i] \in Int /\ box[r] \in Int /\ (i < r \/ r < i)
      BY <1>1, <1>2, <3>4, SessionFacts, SMTT(30)
    <3>3. box[i] # box[r]
      BY <1>1, <3>2 DEF Sorted, Ascending
    <3> QED
      BY <1>4, <3>1, <3>3 DEF InPlace
  <2>2. Disturbed'
    BY <1>1, <1>4, <2>1 DEF Disturbed, ToSet
  <2> QED
    BY <2>2 DEF Undisturbed
<1>5. CASE (\A i \in DOMAIN view : InPlace(i)) /\ r \notin DOMAIN view
  <2>1. ASSUME NEW i \in DOMAIN view
        PROVE  InPlace(i)'
    <3>1. i < r /\ i \in DOMAIN box' /\ box[i] = view[i]
      BY <1>2, <1>5 DEF InPlace
    <3>2. box'[i] = box[i]
      BY <1>1, <3>1, Removed
    <3> QED
      BY <1>1, <3>1, <3>2 DEF InPlace
  <2> QED
    BY <1>1, <2>1 DEF Undisturbed
<1> QED
  BY <1>1, <1>3, <1>4, <1>5 DEF Undisturbed

LEMMA ExpungeAnchor ==
    ASSUME DiscoveryInv, NEW r \in DOMAIN box, Expunge(r)
    PROVE  AnchorInv'
<1>1. SessionType /\ Idle /\ box' = RemoveAt(box, r) /\ AnchorInv
  BY DEF Expunge, Idle, DiscoveryInv
<1>2. UNCHANGED <<step, view, sentinel, found>> /\ Cut' = Cut /\ NumMessages' = NumMessages
  BY <1>1 DEF Idle, Cut, NumMessages
<1>3. CASE step = "reanchor"
  <2>1. PICK m \in DOMAIN view : BoundaryAt(m)
    BY <1>1, <1>3 DEF AnchorInv
  <2>2. ASSUME NEW j \in DOMAIN box', NEW k \in DOMAIN view, Cut <= j, box'[j] = view[k]
        PROVE  m - Cut <= k - j
    <3>1. PICK i \in DOMAIN box : box'[j] = box[i] /\ j <= i
      BY <1>1, <2>2, StillThere
    <3>2. Cut \in Int /\ i \in Int /\ j \in Int /\ k \in Int /\ m \in Int
      <4>1. Len(view) \in Nat /\ DOMAIN view = 1 .. Len(view) /\ DOMAIN box = 1 .. Len(box)
            /\ DOMAIN box' = 1 .. Len(box) - 1 /\ Len(box) \in Nat
        BY <1>1, Removed, SessionFacts
      <4>2. Cut \in Int
        BY <1>1, SessionFacts
      <4> QED
        BY <2>1, <2>2, <3>1, <4>1, <4>2
    <3>3. Cut <= i /\ box[i] = view[k]
      BY <2>2, <3>1, <3>2
    <3>4. m - Cut <= k - i
      BY <2>1, <3>3 DEF BoundaryAt
    <3> QED
      BY <3>1, <3>2, <3>4
  <2>3. BoundaryAt(m)'
    BY <1>2, <2>1, <2>2 DEF BoundaryAt
  <2> QED
    BY <1>1, <1>2, <1>3, <2>3 DEF AnchorInv
<1>4. CASE step # "reanchor"
  BY <1>1, <1>2, <1>4 DEF AnchorInv
<1> QED
  BY <1>3, <1>4

-----------------------------------------------------------------------------
(* What an expunge and an arrival have in common: the messages up to upper *)
(* can only get fewer.                                                     *)
OnlyNewer ==
    /\ Idle /\ next <= next' /\ step # "select"
    /\ \A j \in DOMAIN box' : next <= box'[j] \/ \E i \in DOMAIN box : box'[j] = box[i]

LEMMA StaysDisturbed ==
    ASSUME DiscoveryInv, OnlyNewer, SessionType'
    PROVE  /\ Disturbed => Disturbed'
           /\ NothingNew => NothingNew'
           /\ \A i \in DOMAIN box' : box'[i] <= upper => box'[i] \in ToSet(box)
<1>1. SessionType /\ Sorted /\ UNCHANGED <<step, view, upper, last>> /\ step # "select"
  BY DEF OnlyNewer, Idle, DiscoveryInv
<1>2. upper < next /\ upper \in Int /\ next \in Int
  BY <1>1 DEF Sorted, SessionType
<1>3. ASSUME NEW i \in DOMAIN box', box'[i] <= upper
      PROVE  box'[i] \in ToSet(box)
  <2>1. box'[i] \in Int
    BY NextBox
  <2> QED
    BY <1>2, <1>3, <2>1 DEF OnlyNewer, ToSet
<1>4. NothingNew => NothingNew'
  BY <1>1, <1>3 DEF NothingNew, ToSet
<1>5. Disturbed => Disturbed'
  BY <1>1, <1>3 DEF Disturbed, Sorted, ToSet
<1> QED
  BY <1>3, <1>4, <1>5

LEMMA SearchUndisturbed ==
    ASSUME DiscoveryInv, OnlyNewer, SessionType'
    PROVE  Route' /\ Bisected' /\ SentinelInView'
<1>1. Route /\ Bisected /\ SentinelInView
      /\ UNCHANGED <<step, view, upper, last, low, high, first, sentinel>>
      /\ (Disturbed => Disturbed') /\ (NothingNew => NothingNew')
  BY StaysDisturbed DEF OnlyNewer, Idle, search, DiscoveryInv
<1>2. Route'
  BY <1>1 DEF Route, NumMessages
<1>3. \A from, to : Between(from, to) => Between(from, to)'
  BY <1>1 DEF Between, NumMessages
<1>4. Bisected'
  BY <1>1, <1>3 DEF Bisected, NumMessages
<1>5. SentinelInView'
  BY <1>1 DEF SentinelInView, HasMore, RangeLast, NumMessages
<1> QED
  BY <1>2, <1>4, <1>5

\* A range that was read keeps covering its UIDs: what is still between its ends
\* was there when it was read.
LEMMA RangeUndisturbed ==
    ASSUME DiscoveryInv, OnlyNewer, SessionType'
    PROVE  RangeCovers'
<1>1. SessionType /\ Sorted /\ Route /\ Bisected /\ RangeCovers
  BY DEF DiscoveryInv
<1>2. UNCHANGED <<step, view, upper, last, first, found>> /\ next <= next'
      /\ (Disturbed => Disturbed') /\ upper < next
      /\ \A i \in DOMAIN box' : next <= box'[i] \/ box'[i] \in ToSet(box)
  BY <1>1, StaysDisturbed DEF OnlyNewer, Idle, search, Sorted, ToSet
<1>3. UNCHANGED <<NumMessages, RangeFirst, RangeLast, HasMore>>
  BY <1>2 DEF NumMessages, RangeFirst, RangeLast, HasMore
<1> SUFFICES ASSUME step \in {"retrailing", "releading"}
             PROVE  RangeCovers'
  BY <1>2 DEF RangeCovers
<1>4. /\ Len(found) = RangeLast - RangeFirst + 1
      /\ Ascending(found) /\ \A i \in DOMAIN found : found[i] < next
      /\ \A i \in DOMAIN box : Covered(box[i]) => box[i] \in ToSet(found)
      /\ first = 1 => \A i \in DOMAIN box : found[1] <= box[i]
      /\ Disturbed \/ \A i \in DOMAIN found : found[i] = view[RangeFirst + i - 1]
  BY <1>1 DEF RangeCovers
<1>5. 1 <= first /\ first <= NumMessages /\ first \in Int
  BY <1>1 DEF Bisected, Between, RangeSteps, SessionType
<1>6. 1 \in DOMAIN found /\ Len(found) \in DOMAIN found
  <2>1. RangeLast - RangeFirst + 1 >= 1
    BY <1>1, <1>5, SessionFacts, SMTT(30) DEF RangeLast, RangeFirst
  <2> QED
    BY <1>1, <1>4, <2>1, SessionFacts
<1>7. found[1] < next /\ Last(found) < next /\ found[1] \in Int /\ Last(found) \in Int
  BY <1>1, <1>4, <1>6, SessionFacts DEF Last
<1>8. \A i \in DOMAIN box' : box'[i] \in Int
  BY NextBox
<1>9. next \in Int /\ next' \in Int /\ upper \in Int /\ \A i \in DOMAIN found : found[i] \in Int
  <2>1. \A i \in DOMAIN found : found[i] \in Int
    BY <1>1, SessionFacts
  <2> QED
    BY <1>1, <2>1, SessionFacts, NextBox
<1>10. ASSUME NEW i \in DOMAIN box', Covered(box'[i])
       PROVE  box'[i] \in ToSet(found)
  <2>1. box'[i] < next
    BY <1>2, <1>7, <1>8, <1>9, <1>10 DEF Covered
  <2>2. box'[i] \in ToSet(box)
    BY <1>2, <1>8, <1>9, <2>1
  <2> QED
    BY <1>4, <1>10, <2>2 DEF ToSet
<1>11. ToSet(found)' = ToSet(found) /\ \A uid : Covered(uid)' <=> Covered(uid)
  BY <1>2, <1>3 DEF Covered, ToSet, Last
<1>12. first = 1 => \A i \in DOMAIN box' : found[1] <= box'[i]
  BY <1>2, <1>4, <1>7, <1>8, <1>9 DEF ToSet
<1>13. \A i \in DOMAIN found : found[i] < next'
  BY <1>2, <1>4, <1>9
<1>14. \A i \in DOMAIN box' : Covered(box[i])' => (box[i] \in ToSet(found))'
  BY <1>10, <1>11
<1>15. Ascending(found)'
  BY <1>2, <1>4 DEF Ascending
<1>16. (Disturbed \/ \A i \in DOMAIN found : found[i] = view[RangeFirst + i - 1])'
  BY <1>2, <1>3, <1>4
<1> QED
  BY <1>2, <1>3, <1>4, <1>12, <1>13, <1>14, <1>15, <1>16 DEF RangeCovers

LEMMA ResultUndisturbed ==
    ASSUME DiscoveryInv, OnlyNewer, SessionType'
    PROVE  BatchExact' /\ WindowExact' /\ FailsOnlyWhenDisturbed'
<1>1. SessionType /\ Sorted /\ BatchExact /\ WindowExact /\ FailsOnlyWhenDisturbed
  BY DEF DiscoveryInv
<1>2. UNCHANGED <<step, view, upper, last, result>> /\ (Disturbed => Disturbed')
      /\ \A i \in DOMAIN box' : box'[i] <= upper => box'[i] \in ToSet(box)
  BY StaysDisturbed DEF OnlyNewer, Idle
<1>3. AdvancesByABatch' /\ WindowExact'
  BY <1>1, <1>2 DEF BatchExact, AdvancesByABatch, WindowExact, NumMessages
<1>4. SkipsNothing'
  <2> SUFFICES ASSUME step = "done", last # -1, NEW i \in DOMAIN box',
                      last < box'[i], box'[i] <= result.last
               PROVE  box'[i] \in result.uids
    BY <1>2 DEF SkipsNothing
  <2>1. result.last <= upper /\ result.last \in Int /\ upper \in Int
    BY <1>1, SessionFacts DEF BatchExact, AdvancesByABatch
  <2>2. box'[i] \in Int
    BY NextBox
  <2>3. box'[i] \in ToSet(box)
    BY <1>2, <2>1, <2>2
  <2> QED
    BY <1>1, <2>3 DEF BatchExact, SkipsNothing, ToSet
<1>5. FailsOnlyWhenDisturbed'
  BY <1>1, <1>2 DEF FailsOnlyWhenDisturbed, Disturbed
<1> QED
  BY <1>3, <1>4, <1>5 DEF BatchExact

-----------------------------------------------------------------------------
LEMMA ExpungeStep ==
    ASSUME DiscoveryInv, NEW r \in DOMAIN box, Expunge(r)
    PROVE  DiscoveryInv'
<1>1. SessionType' /\ Sorted' /\ Idle
  BY ExpungeSorted
<1>2. OnlyNewer
  <2>1. SessionType /\ box' = RemoveAt(box, r) /\ next' = next /\ step # "select"
    BY DEF DiscoveryInv, Expunge
  <2> QED
    BY <1>1, <2>1, StillThere, SessionFacts DEF OnlyNewer
<1>3. Shifted' /\ Undisturbed' /\ AnchorInv'
  BY ExpungeShifted, ExpungeUndisturbed, ExpungeAnchor
<1> QED
  BY <1>1, <1>2, <1>3, SearchUndisturbed, RangeUndisturbed, ResultUndisturbed DEF DiscoveryInv

LEMMA ArriveStep ==
    ASSUME DiscoveryInv, Arrive
    PROVE  DiscoveryInv'
<1>1. SessionType /\ Sorted /\ Shifted /\ Undisturbed /\ AnchorInv
      /\ Idle /\ box' = Append(box, next) /\ next' = next + 1 /\ next \in UIDs
      /\ step # "select"
  BY DEF DiscoveryInv, Arrive, Idle, SessionType, UIDs
<1>2. UNCHANGED <<step, view, upper, sentinel, found>>
  BY <1>1 DEF Idle
<1>3. /\ box' \in Seq(UIDs) /\ DOMAIN box' = 1 .. Len(box) + 1
      /\ box'[Len(box) + 1] = next
      /\ \A i \in DOMAIN box : box'[i] = box[i] /\ i \in DOMAIN box'
  BY <1>1 DEF SessionType
<1>4. SessionType'
  <2>1. next' \in 1 .. MaxUID + 1
    BY <1>1, SessionFacts DEF UIDs
  <2> QED
    BY <1>1, <1>3, <2>1 DEF SessionType, Idle, search, UIDs
<1>5. \A i \in DOMAIN box' : i \in DOMAIN box \/ (i = Len(box) + 1 /\ box'[i] = next)
  BY <1>1, <1>3, SessionFacts, SMTT(30)
<1>6. Sorted'
  <2>1. \A i \in DOMAIN box' : box'[i] < next'
    BY <1>1, <1>3, <1>5, SessionFacts, SMTT(30) DEF Sorted
  <2>2. ASSUME NEW i \in DOMAIN box', NEW j \in DOMAIN box', i < j
        PROVE  box'[i] < box'[j]
    <3>1. i \in DOMAIN box
      BY <1>1, <1>3, <2>2, SessionFacts, SMTT(30)
    <3>2. CASE j \in DOMAIN box
      BY <1>1, <1>3, <2>2, <3>1, <3>2 DEF Sorted, Ascending
    <3>3. CASE box'[j] = next
      BY <1>1, <1>3, <3>1, <3>3 DEF Sorted
    <3> QED
      BY <1>5, <3>2, <3>3
  <2>3. upper < next'
    BY <1>1, SessionFacts DEF Sorted
  <2> QED
    BY <1>1, <1>2, <2>1, <2>2, <2>3 DEF Sorted, Ascending
<1>7. OnlyNewer
  BY <1>1, <1>3, <1>5, SessionFacts, SMTT(30) DEF OnlyNewer
<1>8. \A k \in DOMAIN view : view[k] < next /\ view[k] # next
  BY <1>1, SessionFacts, SMTT(30) DEF Sorted
<1>9. Shifted'
  <2>1. \A i \in DOMAIN box' : box'[i] <= upper => \E k \in DOMAIN view : box'[i] = view[k]
    BY <1>1, <1>3, <1>5, SessionFacts, SMTT(30) DEF Sorted, Shifted
  <2>2. ASSUME NEW j \in DOMAIN box', NEW k \in DOMAIN view, box'[j] = view[k], NEW i \in 1 .. j
        PROVE  \E m \in DOMAIN view : box'[i] = view[m] /\ i <= m /\ m - i <= k - j
    <3>1. j \in DOMAIN box
      BY <1>5, <1>8, <2>2
    <3>2. i \in DOMAIN box
      <4>1. DOMAIN box = 1 .. Len(box) /\ Len(box) \in Nat
        BY <1>1, SessionFacts
      <4> QED
        BY <2>2, <3>1, <4>1
    <3>3. box'[i] = box[i] /\ box'[j] = box[j]
      BY <1>3, <3>1, <3>2
    <3> QED
      BY <1>1, <2>2, <3>1, <3>3 DEF Shifted
  <2> QED
    BY <1>2, <2>1, <2>2 DEF Shifted
<1>10. Undisturbed'
  <2>1. (\A i \in DOMAIN view : InPlace(i)) => \A i \in DOMAIN view : InPlace(i)'
    BY <1>2, <1>3 DEF InPlace
  <2>2. Disturbed => Disturbed'
    BY <1>4, <1>7, StaysDisturbed
  <2> QED
    BY <1>1, <1>2, <2>1, <2>2 DEF Undisturbed
<1>11. AnchorInv'
  <2>1. UNCHANGED <<NumMessages, Cut>>
    BY <1>2 DEF NumMessages, Cut
  <2>2. ASSUME NEW m \in DOMAIN view, BoundaryAt(m)
        PROVE  BoundaryAt(m)'
    BY <1>2, <1>3, <1>5, <1>8, <2>1, <2>2 DEF BoundaryAt
  <2> QED
    BY <1>1, <1>2, <2>1, <2>2 DEF AnchorInv
<1> QED
  BY <1>4, <1>6, <1>7, <1>9, <1>10, <1>11, SearchUndisturbed, RangeUndisturbed,
     ResultUndisturbed DEF DiscoveryInv

-----------------------------------------------------------------------------
(* The session moves, the mailbox does not change.                         *)
Quiet == UNCHANGED <<mailbox, last, view, upper>> /\ step # "select" /\ step' # "select"

LEMMA QuietMailbox ==
    ASSUME DiscoveryInv, Quiet
    PROVE  Sorted' /\ Shifted' /\ Undisturbed'
<1>1. Sorted /\ Shifted /\ Undisturbed
  BY DEF DiscoveryInv
<1>2. UNCHANGED <<box, next, last, view, upper>> /\ step # "select" /\ step' # "select"
  BY DEF Quiet, mailbox
<1> QED
  BY <1>1, <1>2 DEF Sorted, Shifted, Undisturbed, Ascending, InPlace, Disturbed, ToSet

\* A session that has not ended has no result to be judged.
LEMMA NotEnded ==
    ASSUME step' \notin {"done", "failed"}
    PROVE  BatchExact' /\ WindowExact' /\ FailsOnlyWhenDisturbed'
  BY DEF BatchExact, SkipsNothing, AdvancesByABatch, WindowExact, FailsOnlyWhenDisturbed

LEMMA Fails ==
    ASSUME DiscoveryInv, Quiet, Fail, Disturbed
    PROVE  DiscoveryInv'
<1>1. SessionType /\ step' = "failed"
      /\ UNCHANGED <<box, next, last, view, upper, low, high, first, sentinel, found, result>>
  BY DEF DiscoveryInv, Fail, Quiet, mailbox, search
<1>2. SessionType'
  BY <1>1 DEF SessionType, Steps
<1>3. (Route /\ Bisected /\ SentinelInView /\ RangeCovers /\ AnchorInv)'
  BY <1>1 DEF Route, Bisected, SentinelInView, RangeCovers, AnchorInv, SearchSteps, RangeSteps,
              AnchorSteps
<1>4. FailsOnlyWhenDisturbed'
  BY <1>1 DEF FailsOnlyWhenDisturbed, Disturbed
<1>5. BatchExact' /\ WindowExact'
  BY <1>1 DEF BatchExact, SkipsNothing, AdvancesByABatch, WindowExact
<1> QED
  BY <1>2, <1>3, <1>4, <1>5, QuietMailbox DEF DiscoveryInv

LEMMA Ends ==
    ASSUME DiscoveryInv, Quiet, NEW through \in -1 .. MaxUID, NEW uids \in SUBSET UIDs,
           Done(through, uids), BatchExact', WindowExact'
    PROVE  DiscoveryInv'
<1>1. SessionType /\ step' = "done" /\ result' = [last |-> through, uids |-> uids]
      /\ UNCHANGED <<box, next, last, view, upper, low, high, first, sentinel, found>>
  BY DEF DiscoveryInv, Done, Quiet, mailbox, search
<1>2. SessionType'
  BY <1>1 DEF SessionType, Steps, UIDs
<1>3. (Route /\ Bisected /\ SentinelInView /\ RangeCovers /\ AnchorInv)'
  BY <1>1 DEF Route, Bisected, SentinelInView, RangeCovers, AnchorInv, SearchSteps, RangeSteps,
              AnchorSteps
<1>4. FailsOnlyWhenDisturbed'
  BY <1>1 DEF FailsOnlyWhenDisturbed
<1> QED
  BY <1>2, <1>3, <1>4, QuietMailbox DEF DiscoveryInv

\* A number that the SELECT knew answers with its own message, or something is gone.
LEMMA Answers ==
    ASSUME DiscoveryInv, step # "select", ~Disturbed, NEW i \in DOMAIN view
    PROVE  Exists(i) /\ box[i] = view[i] /\ box[i] \in 1 .. upper
<1>1. SessionType /\ Sorted /\ InPlace(i)
  BY DEF DiscoveryInv, Undisturbed
<1>2. box[i] = view[i] /\ i \in DOMAIN box /\ view[i] <= upper
  BY <1>1 DEF InPlace, Sorted
<1>3. view[i] \in Int /\ 1 <= view[i] /\ upper \in Int
  BY <1>1, SessionFacts
<1> QED
  BY <1>1, <1>2, <1>3, SessionFacts DEF Exists

\* Messages up to upper are not behind the last number of the SELECT.
LEMMA NotBehind ==
    ASSUME DiscoveryInv, step # "select", NEW i \in DOMAIN box, box[i] <= upper
    PROVE  i <= NumMessages
<1>1. SessionType /\ Shifted
  BY DEF DiscoveryInv
<1>2. PICK k \in DOMAIN view : box[i] = view[k]
  BY <1>1 DEF Shifted
<1>3. i \in 1 .. i /\ Len(view) \in Nat /\ DOMAIN view = 1 .. Len(view) /\ NumMessages = Len(view)
  BY <1>1, SessionFacts
<1>4. PICK m \in DOMAIN view : i <= m
  BY <1>1, <1>2, <1>3 DEF Shifted
<1> QED
  BY <1>1, <1>3, <1>4, SessionFacts

\* Nor is there anything new when the last number answers with an old message.
LEMMA TailRead ==
    ASSUME DiscoveryInv, step # "select", Exists(NumMessages), box[NumMessages] <= last
    PROVE  NothingNew
<1>1. SessionType /\ Ascending(box)
  BY DEF DiscoveryInv, Sorted
<1> SUFFICES ASSUME NEW i \in DOMAIN box, last < box[i], box[i] <= upper
             PROVE  FALSE
  BY DEF NothingNew
<1>2. i <= NumMessages
  BY NotBehind
<1>3. NumMessages \in DOMAIN box
  BY <1>1, SessionFacts DEF Exists
<1>4. i \in Int /\ NumMessages \in Int /\ box[i] \in Int /\ box[NumMessages] \in Int /\ last \in Int
  BY <1>1, <1>3, SessionFacts
<1>5. i = NumMessages \/ box[i] < box[NumMessages]
  BY <1>1, <1>2, <1>3, <1>4 DEF Ascending
<1> QED
  BY <1>4, <1>5

-----------------------------------------------------------------------------
LEMMA SelectStep ==
    ASSUME DiscoveryInv, Select
    PROVE  DiscoveryInv'
<1>1. SessionType /\ Sorted
  BY DEF DiscoveryInv
<1>2. /\ view' = box /\ upper' = next - 1
      /\ UNCHANGED <<box, next, last, low, high, first, sentinel, found>>
  BY DEF Select, mailbox, search, UpperUID
<1>3. step' \in {"anchor", "search", "guess"} \/ (step' = "failed" /\ last > next - 1)
      \/ /\ step' = "done" /\ last = -1 /\ Len(box) <= Window
         /\ result' = [last |-> IF box = <<>> THEN next - 1 ELSE 0, uids |-> {}]
      \/ /\ step' = "done" /\ last # -1 /\ last <= next - 1 /\ (last = next - 1 \/ box = <<>>)
         /\ result' = [last |-> next - 1, uids |-> {}]
  BY <1>1, SessionFacts DEF Select, UpperUID
<1>4. SessionType'
  <2>1. upper' \in 0 .. MaxUID /\ next - 1 \in -1 .. MaxUID /\ 0 \in -1 .. MaxUID
    BY <1>1, <1>2, SessionFacts, SMTT(30) DEF SessionType
  <2>2. step' \in Steps
    BY <1>3 DEF Steps, SearchSteps, AnchorSteps
  <2>3. result' \in [last : -1 .. MaxUID, uids : SUBSET UIDs]
    <3>1. result' = result \/ \E t \in -1 .. MaxUID : result' = [last |-> t, uids |-> {}]
      BY <1>1, <2>1 DEF Select, UpperUID
    <3> QED
      BY <1>1, <3>1 DEF SessionType
  <2> QED
    BY <1>1, <1>2, <2>1, <2>2, <2>3 DEF SessionType, UIDs
<1>5. Sorted'
  BY <1>1, <1>2, SessionFacts DEF Sorted, Ascending
<1>6. Shifted'
  <2>1. ASSUME NEW j \in DOMAIN box, NEW k \in DOMAIN box, box[j] = box[k], NEW i \in 1 .. j
        PROVE  \E m \in DOMAIN box : box[i] = box[m] /\ i <= m /\ m - i <= k - j
    <3>1. i \in DOMAIN box /\ i \in Int /\ j \in Int /\ k \in Int
      BY <1>1, SessionFacts
    <3>2. j = k
      <4>1. box[j] \in Int /\ ~(j < k) /\ ~(k < j)
        BY <1>1, <2>1, SessionFacts, SMTT(30) DEF Sorted, Ascending
      <4> QED
        BY <3>1, <4>1
    <3> QED
      BY <3>1, <3>2
  <2> QED
    BY <1>2, <2>1 DEF Shifted
<1>7. Undisturbed'
  BY <1>2 DEF Undisturbed, InPlace
<1>8. Route'
  <2>1. step' = "anchor" => last = -1 /\ Len(box) > Window
    BY <1>1 DEF Select
  <2>2. step' \in {"search", "guess"} => last \in 0 .. next - 1 /\ last # next - 1 /\ box # <<>>
    BY <1>1 DEF Select, UpperUID
  <2>3. step' = "search" => next - 1 - last <= Limit
    BY <1>1 DEF Select, UpperUID
  <2> QED
    BY <1>1, <1>2, <1>3, <2>1, <2>2, <2>3, SessionFacts
       DEF Route, SearchSteps, RangeSteps, AnchorSteps, NumMessages
<1>9. (Bisected /\ SentinelInView /\ RangeCovers /\ AnchorInv)'
  BY <1>3 DEF Bisected, SentinelInView, RangeCovers, AnchorInv, RangeSteps
<1>10. BatchExact'
  <2> SUFFICES ASSUME step' = "done", last # -1
               PROVE  BatchExact'
    BY <1>2 DEF BatchExact, SkipsNothing, AdvancesByABatch
  <2>1. last <= upper' /\ (last = upper' \/ box = <<>>) /\ upper' = next - 1
        /\ result'.last = upper' /\ result'.uids = {}
    BY <1>2, <1>3
  <2>2. SkipsNothing'
    BY <1>1, <1>2, <2>1, SessionFacts, SMTT(30) DEF SkipsNothing
  <2>3. AdvancesByABatch'
    BY <1>1, <1>2, <2>1, SessionFacts, FS_EmptySet, SMTT(30) DEF AdvancesByABatch
  <2> QED
    BY <2>2, <2>3 DEF BatchExact
<1>11. WindowExact'
  <2> SUFFICES ASSUME step' = "done", last = -1, box # <<>>
               PROVE  WindowExact'
    BY <1>2 DEF WindowExact
  <2>1. Len(box) <= Window /\ result'.last = 0
    BY <1>3
  <2>2. {i \in DOMAIN box : box[i] > 0} = 1 .. Len(box)
    BY <1>1, SessionFacts
  <2>3. Cardinality(1 .. Len(box)) = Len(box)
    <3>1. Len(box) \in Nat /\ 1 \in Int /\ Len(box) \in Int
      BY <1>1, SessionFacts
    <3>2. Cardinality(1 .. Len(box)) = IF 1 > Len(box) THEN 0 ELSE Len(box) - 1 + 1
      BY <3>1, FS_Interval
    <3> QED
      BY <3>1, <3>2
  <2>4. Cardinality({i \in DOMAIN view' : view'[i] > result'.last}) = Len(box)
    BY <1>2, <2>1, <2>2, <2>3
  <2>5. Len(box) \in Nat /\ Window \in Nat /\ NumMessages' = Len(box)
    BY <1>1, <1>2, SessionFacts DEF NumMessages
  <2> QED
    BY <2>1, <2>4, <2>5 DEF WindowExact
<1>12. FailsOnlyWhenDisturbed'
  BY <1>2, <1>3 DEF FailsOnlyWhenDisturbed
<1> QED
  BY <1>4, <1>5, <1>6, <1>7, <1>8, <1>9, <1>10, <1>11, <1>12 DEF DiscoveryInv

LEMMA SearchStep ==
    ASSUME DiscoveryInv, Search
    PROVE  DiscoveryInv'
<1> DEFINE uids == {box[i] : i \in {j \in DOMAIN box : box[j] > last /\ box[j] <= upper}}
<1>1. SessionType /\ Route /\ step = "search" /\ Done(upper, uids) /\ Quiet
  BY DEF DiscoveryInv, Search, Quiet, Done
<1>2. step' = "done" /\ result' = [last |-> upper, uids |-> uids]
      /\ UNCHANGED <<box, last, view, upper>>
  BY <1>1 DEF Done, Quiet, mailbox
<1>3. last \in Int /\ upper \in Int /\ 0 <= last /\ last < upper /\ upper - last <= Limit
  BY <1>1, SessionFacts DEF Route
<1>4. uids \subseteq last + 1 .. upper /\ uids \subseteq UIDs
  BY <1>1, <1>3, SessionFacts, SMTT(30)
<1>5. Cardinality(uids) <= Limit
  <2>1. IsFiniteSet(last + 1 .. upper) /\ Cardinality(last + 1 .. upper) = upper - last
    BY <1>3, FS_Interval
  <2>2. Cardinality(uids) <= upper - last /\ IsFiniteSet(uids)
    BY <1>4, <2>1, FS_Subset
  <2> QED
    BY <1>1, <1>3, <2>2, FS_CardinalityType, SessionFacts
<1>6. SkipsNothing'
  BY <1>2 DEF SkipsNothing
<1> HIDE DEF uids
<1>7. AdvancesByABatch'
  BY <1>2, <1>3, <1>4, <1>5 DEF AdvancesByABatch
<1>8. WindowExact'
  BY <1>2, <1>3 DEF WindowExact
<1>9. upper \in -1 .. MaxUID
  BY <1>1, SessionFacts DEF SessionType
<1> QED
  BY <1>1, <1>4, <1>6, <1>7, <1>8, <1>9, Ends DEF BatchExact

-----------------------------------------------------------------------------
(* The bisection.                                                          *)

\* A step that only continues.
Onward == Quiet /\ step' \notin {"done", "failed"} /\ UNCHANGED result

LEMMA Continues ==
    ASSUME DiscoveryInv, Onward, SessionType', Route', Bisected', SentinelInView', RangeCovers',
           AnchorInv'
    PROVE  DiscoveryInv'
  BY QuietMailbox, NotEnded DEF DiscoveryInv, Onward

\* Between two probes nothing but the bounds, and the step, is different.
LEMMA Bisects ==
    ASSUME DiscoveryInv, Onward, UNCHANGED <<sentinel, found>>, step \in SearchSteps,
           step' \in {"bisect", "trailing"}, {low', high', first'} \subseteq Int,
           step' = "bisect" => Between(low', high'),
           step' = "trailing" => Between(first', first')
    PROVE  DiscoveryInv'
<1>1. SessionType /\ Route
  BY DEF DiscoveryInv
<1>2. UNCHANGED <<box, next, last, view, upper, result, NumMessages>>
  BY DEF Onward, Quiet, mailbox, NumMessages
<1>3. SessionType'
  BY <1>1, <1>2 DEF SessionType, Steps, SearchSteps, RangeSteps
<1>4. Route'
  BY <1>1, <1>2 DEF Route, SearchSteps, RangeSteps, AnchorSteps
<1>5. Bisected'
  BY <1>2 DEF Bisected, Between, NothingNew, Disturbed, ToSet, RangeSteps
<1>6. SentinelInView' /\ RangeCovers' /\ AnchorInv'
  BY DEF SentinelInView, RangeCovers, AnchorInv
<1> QED
  BY <1>3, <1>4, <1>5, <1>6, Continues

\* What a probe shows: everything before it, or everything behind it.
LEMMA ProbeSplits ==
    ASSUME DiscoveryInv, step # "select", NEW p \in DOMAIN view, Exists(p), box[p] <= upper
    PROVE  /\ box[p] <= last => \/ Disturbed
                                \/ \A i \in DOMAIN view : i < p + 1 => view[i] <= last
           /\ last < box[p] => \/ Disturbed
                               \/ \A i \in DOMAIN view : p <= i => last < view[i]
           /\ box[p] = last + 1 => \/ Disturbed
                                   \/ \A i \in DOMAIN view : i < p => view[i] <= last
           /\ box[p] <= last /\ p = NumMessages => NothingNew
<1>1. SessionType /\ Sorted
  BY DEF DiscoveryInv
<1>2. Disturbed \/ box[p] = view[p]
  BY Answers
<1>3. ASSUME NEW i \in DOMAIN view
      PROVE  /\ i \in Int /\ p \in Int /\ view[i] \in Int /\ view[p] \in Int /\ last \in Int
             /\ i < p => view[i] < view[p]
             /\ p <= i => view[p] <= view[i]
  <2>1. i \in Int /\ p \in Int /\ view[i] \in Int /\ view[p] \in Int /\ last \in Int
    BY <1>1, SessionFacts
  <2>2. i < p => view[i] < view[p]
    BY <1>1 DEF Sorted, Ascending
  <2>3. p < i => view[p] < view[i]
    BY <1>1 DEF Sorted, Ascending
  <2> QED
    BY <2>1, <2>2, <2>3
<1>4. box[p] <= last => Disturbed \/ \A i \in DOMAIN view : i < p + 1 => view[i] <= last
  BY <1>2, <1>3
<1>5. last < box[p] => Disturbed \/ \A i \in DOMAIN view : p <= i => last < view[i]
  BY <1>2, <1>3
<1>6. box[p] = last + 1 => Disturbed \/ \A i \in DOMAIN view : i < p => view[i] <= last
  BY <1>2, <1>3
<1> QED
  BY <1>4, <1>5, <1>6, TailRead

LEMMA GuessInRange ==
    ASSUME DiscoveryInv, step = "guess"
    PROVE  Guess \in DOMAIN view /\ Guess \in Int /\ 1 <= Guess /\ Guess <= NumMessages
<1>1. SessionType /\ Route
  BY DEF DiscoveryInv
<1>2. last \in Int /\ 0 <= last /\ NumMessages \in Nat /\ NumMessages # 0
      /\ DOMAIN view = 1 .. NumMessages
  BY <1>1, SessionFacts DEF Route, SearchSteps
<1> QED
  BY <1>2 DEF Guess

LEMMA FirstGuessStep ==
    ASSUME DiscoveryInv, FirstGuess
    PROVE  DiscoveryInv'
<1>1. SessionType /\ Route /\ step = "guess" /\ UNCHANGED <<mailbox, last, view, upper>>
  BY DEF DiscoveryInv, FirstGuess
<1>2. Guess \in DOMAIN view /\ Guess \in Int /\ 1 <= Guess /\ Guess <= NumMessages
      /\ NumMessages \in Nat /\ DOMAIN view = 1 .. NumMessages /\ last \in Int
  BY <1>1, GuessInRange, SessionFacts
<1>3. CASE (~\E uid \in 1 .. upper : Probe(Guess, uid)) /\ Fail
  <2>1. Disturbed
    <3> SUFFICES ASSUME ~Disturbed
                 PROVE  FALSE
      OBVIOUS
    <3>1. Exists(Guess) /\ box[Guess] \in 1 .. upper /\ box[Guess] <= upper
      BY <1>1, <1>2, Answers, SessionFacts
    <3> QED
      BY <1>3, <3>1 DEF Probe
  <2>2. Quiet
    BY <1>1, <1>3 DEF Quiet, Fail
  <2> QED
    BY <1>3, <2>1, <2>2, Fails
<1>4. ASSUME NEW uid \in 1 .. upper, Probe(Guess, uid),
             low' = IF uid <= last THEN Guess + 1 ELSE 1,
             high' = IF uid <= last THEN NumMessages + 1 ELSE Guess,
             first' = IF uid = last + 1 THEN Guess ELSE 0,
             step' = IF uid = last + 1 THEN "trailing" ELSE "bisect",
             UNCHANGED <<sentinel, found, result>>
      PROVE  DiscoveryInv'
  <2>1. Exists(Guess) /\ box[Guess] <= upper /\ uid = box[Guess] /\ uid \in Int
    BY <1>1, <1>4 DEF Probe
  <2>2. Onward
    BY <1>1, <1>4 DEF Onward, Quiet
  <2>3. step' = "trailing" => Between(first', first')
    BY <1>1, <1>2, <1>4, <2>1, ProbeSplits DEF Between
  <2>4. step' = "bisect" => Between(low', high')
    <3>1. CASE uid <= last
      BY <1>1, <1>2, <1>4, <2>1, <3>1, ProbeSplits DEF Between
    <3>2. CASE ~(uid <= last)
      BY <1>1, <1>2, <1>4, <2>1, <3>2, ProbeSplits DEF Between
    <3> QED
      BY <3>1, <3>2
  <2>5. {low', high', first'} \subseteq Int
    BY <1>2, <1>4
  <2> QED
    BY <1>1, <1>4, <2>2, <2>3, <2>4, <2>5, Bisects DEF SearchSteps
<1> QED
  BY <1>3, <1>4 DEF FirstGuess

LEMMA BisectStep ==
    ASSUME DiscoveryInv, Bisect
    PROVE  DiscoveryInv'
<1>1. SessionType /\ step = "bisect" /\ Between(low, high) /\ UNCHANGED <<mailbox, last, view, upper>>
  BY DEF DiscoveryInv, Bisect, Bisected
<1>2. low \in Int /\ high \in Int /\ first \in Int /\ 1 <= low /\ low <= high
      /\ high <= NumMessages + 1 /\ NumMessages \in Nat /\ DOMAIN view = 1 .. NumMessages
      /\ last \in Int
  BY <1>1, SessionFacts DEF Between, SessionType
<1>3. CASE /\ low >= high /\ first' = low /\ step' = "trailing"
           /\ UNCHANGED <<low, high, sentinel, found, result>>
  <2>1. low = high /\ Onward
    BY <1>1, <1>2, <1>3 DEF Onward, Quiet
  <2> QED
    BY <1>1, <1>2, <1>3, <2>1, Bisects DEF SearchSteps
<1>4. low < high => Middle \in Int /\ low <= Middle /\ Middle < high /\ Middle \in DOMAIN view
  BY <1>2 DEF Middle
<1>5. CASE low < high /\ (~\E uid \in 1 .. upper : Probe(Middle, uid)) /\ Fail
  <2>1. Disturbed
    <3> SUFFICES ASSUME ~Disturbed
                 PROVE  FALSE
      OBVIOUS
    <3>1. Exists(Middle) /\ box[Middle] \in 1 .. upper /\ box[Middle] <= upper
      BY <1>1, <1>4, <1>5, Answers, SessionFacts
    <3> QED
      BY <1>5, <3>1 DEF Probe
  <2>2. Quiet
    BY <1>1, <1>5 DEF Quiet, Fail
  <2> QED
    BY <1>5, <2>1, <2>2, Fails
<1>6. ASSUME NEW uid \in 1 .. upper, low < high, Probe(Middle, uid),
             low' = Half(uid)[1], high' = Half(uid)[2],
             UNCHANGED <<step, first, sentinel, found, result>>
      PROVE  DiscoveryInv'
  <2>1. Exists(Middle) /\ box[Middle] <= upper /\ uid = box[Middle] /\ uid \in Int
    BY <1>1, <1>6 DEF Probe
  <2>2. Onward
    BY <1>1, <1>6 DEF Onward, Quiet
  <2>3. Between(low', high')
    <3>1. CASE uid <= last
      <4>1. low' = Middle + 1 /\ high' = high
        BY <1>6, <3>1 DEF Half
      <4> QED
        BY <1>1, <1>2, <1>4, <1>6, <2>1, <3>1, <4>1, ProbeSplits DEF Between
    <3>2. CASE ~(uid <= last)
      <4>1. low' = low /\ high' = Middle
        BY <1>6, <3>2 DEF Half
      <4> QED
        BY <1>1, <1>2, <1>4, <1>6, <2>1, <3>2, <4>1, ProbeSplits DEF Between
    <3> QED
      BY <3>1, <3>2
  <2>4. {low', high', first'} \subseteq Int
    BY <1>2, <1>4, <1>6 DEF Half
  <2> QED
    BY <1>1, <1>6, <2>2, <2>3, <2>4, Bisects DEF SearchSteps
<1> QED
  BY <1>3, <1>5, <1>6 DEF Bisect

-----------------------------------------------------------------------------
(* The range and its sentinels.                                            *)

\* The numbers of the range.
LEMMA RangeNumbers ==
    ASSUME DiscoveryInv, step \in RangeSteps, first <= NumMessages
    PROVE  /\ 1 <= first /\ first \in Int /\ RangeFirst \in Int /\ RangeLast \in Int /\ NumMessages \in Int /\ Limit \in Int
           /\ 1 <= RangeFirst /\ RangeFirst <= first /\ first <= RangeLast
           /\ RangeLast <= NumMessages /\ RangeLast <= first + Limit - 1
           /\ RangeFirst = IF first > 1 THEN first - 1 ELSE first
           /\ HasMore <=> RangeLast < NumMessages
           /\ DOMAIN view = 1 .. NumMessages
           /\ last \in 0 .. upper - 1 /\ upper \in 0 .. MaxUID
<1>1. SessionType /\ Route /\ Between(first, first)
  BY DEF DiscoveryInv, Bisected
<1>2. first \in Int /\ 1 <= first /\ NumMessages \in Int /\ Limit \in Int /\ 1 <= Limit
      /\ DOMAIN view = 1 .. NumMessages
  BY <1>1, SessionFacts, SMTT(30) DEF SessionType, Between
<1>3. last \in 0 .. upper - 1 /\ upper \in 0 .. MaxUID
  BY <1>1 DEF Route, SessionType
<1> QED
  BY <1>2, <1>3 DEF RangeFirst, RangeLast, HasMore

\* The step of a range keeps the way and the place.
LEMMA RangeContinues ==
    ASSUME DiscoveryInv, Onward, step \in RangeSteps, step' \in RangeSteps \ {"trailing"},
           UNCHANGED search, first <= NumMessages
    PROVE  Route' /\ Bisected'
           /\ UNCHANGED <<box, next, last, view, upper, low, high, first, result, NumMessages,
                          RangeFirst, RangeLast, HasMore>>
           /\ (Disturbed' <=> Disturbed)
<1>1. Route /\ Between(first, first)
  BY DEF DiscoveryInv, Bisected
<1>2. UNCHANGED <<box, next, last, view, upper, low, high, first, result, NumMessages,
                  RangeFirst, RangeLast, HasMore>>
  BY DEF Onward, Quiet, mailbox, search, NumMessages, RangeFirst, RangeLast, HasMore
<1>3. Disturbed' <=> Disturbed
  BY <1>2 DEF Disturbed, ToSet
<1>4. Route'
  BY <1>1, <1>2 DEF Route, SearchSteps, RangeSteps, AnchorSteps
<1>5. Bisected'
  BY <1>1, <1>2, <1>3 DEF Bisected, Between, NothingNew, RangeSteps
<1> QED
  BY <1>2, <1>3, <1>4, <1>5

LEMMA TrailingStep ==
    ASSUME DiscoveryInv, Trailing
    PROVE  DiscoveryInv'
<1>1. SessionType /\ Sorted /\ Route /\ step = "trailing" /\ Between(first, first)
      /\ UNCHANGED <<mailbox, last, view, upper>> /\ step \in RangeSteps
  BY DEF DiscoveryInv, Trailing, Bisected, RangeSteps
<1>2. CASE first > NumMessages /\ Done(upper, {})
  <2>1. first = NumMessages + 1
    <3>1. first \in Int /\ NumMessages \in Int
      BY <1>1, SessionFacts DEF SessionType
    <3> QED
      BY <1>1, <1>2, <3>1 DEF Between
  <2>2. NothingNew
    BY <1>1, <2>1 DEF Between
  <2>3. step' = "done" /\ result' = [last |-> upper, uids |-> {}] /\ Quiet
        /\ UNCHANGED <<box, last, view, upper>>
    BY <1>1, <1>2 DEF Done, Quiet, mailbox
  <2>4. last \in 0 .. upper - 1 /\ upper \in -1 .. MaxUID /\ upper \in Int /\ Limit \in Nat
    BY <1>1, SessionFacts DEF Route, SessionType
  <2>5. SkipsNothing'
    BY <2>2, <2>3 DEF SkipsNothing, NothingNew
  <2>6. AdvancesByABatch' /\ WindowExact'
    BY <2>3, <2>4, FS_EmptySet DEF AdvancesByABatch, WindowExact
  <2> QED
    BY <1>2, <2>3, <2>4, <2>5, <2>6, Ends DEF BatchExact
<1>3. CASE first <= NumMessages /\ HasMore /\ ~Exists(RangeLast + 1) /\ Fail
  <2>1. RangeLast + 1 \in DOMAIN view
    BY <1>1, <1>3, RangeNumbers
  <2>2. Disturbed
    BY <1>1, <1>3, <2>1, Answers
  <2>3. Quiet
    BY <1>1, <1>3 DEF Quiet, Fail
  <2> QED
    BY <1>3, <2>2, <2>3, Fails
<1>4. CASE /\ first <= NumMessages /\ step' = "range" /\ UNCHANGED <<search, found, result>>
           /\ sentinel' \in 0 .. MaxUID
           /\ HasMore => Exists(RangeLast + 1) /\ sentinel' = box[RangeLast + 1]
  <2>1. Onward
    BY <1>1, <1>4 DEF Onward, Quiet
  <2>2. /\ Route' /\ Bisected' /\ (Disturbed' <=> Disturbed)
        /\ UNCHANGED <<box, next, last, view, upper, low, high, first, result, NumMessages,
                       RangeFirst, RangeLast, HasMore>>
    BY <1>1, <1>4, <2>1, RangeContinues DEF RangeSteps
  <2>3. SessionType'
    BY <1>1, <1>4, <2>2 DEF SessionType, Steps, RangeSteps
  <2>4. SentinelInView'
    <3>1. HasMore => Disturbed \/ sentinel' = view[RangeLast + 1]
      <4>1. HasMore => RangeLast + 1 \in DOMAIN view
        BY <1>1, <1>4, RangeNumbers
      <4> QED
        BY <1>1, <1>4, <4>1, Answers
    <3> QED
      BY <1>4, <2>2, <3>1 DEF SentinelInView
  <2>5. RangeCovers' /\ AnchorInv'
    BY <1>4 DEF RangeCovers, AnchorInv
  <2> QED
    BY <2>1, <2>2, <2>3, <2>4, <2>5, Continues
<1>5. ASSUME Exists(RangeLast + 1), sentinel' = box[RangeLast + 1]
      PROVE  sentinel' \in 0 .. MaxUID
  BY <1>1, <1>5, SessionFacts DEF Exists, UIDs
<1> QED
  BY <1>1, <1>2, <1>3, <1>4, <1>5 DEF Trailing, SessionType

\* What the range is when it is read.
LEMMA RangeIsRead ==
    ASSUME DiscoveryInv, step \in RangeSteps, first <= NumMessages, Exists(RangeLast),
           NEW range, range = SubSeq(box, RangeFirst, RangeLast)
    PROVE  /\ range \in Seq(UIDs) /\ Len(range) = RangeLast - RangeFirst + 1
           /\ DOMAIN range = 1 .. RangeLast - RangeFirst + 1
           /\ \A i \in DOMAIN range : range[i] = box[RangeFirst + i - 1]
                                      /\ RangeFirst + i - 1 \in DOMAIN box
<1>1. SessionType
  BY DEF DiscoveryInv
<1>2. RangeFirst \in Int /\ RangeLast \in Int /\ 1 <= RangeFirst /\ RangeFirst <= RangeLast
      /\ RangeLast \in 1 .. Len(box)
  BY RangeNumbers DEF Exists
<1>3. box \in Seq(UIDs) /\ Len(box) \in Nat /\ DOMAIN box = 1 .. Len(box)
  BY <1>1, SessionFacts DEF SessionType
<1> HIDE DEF RangeFirst, RangeLast
<1> QED
  BY <1>2, <1>3

LEMMA FetchRangeStep ==
    ASSUME DiscoveryInv, FetchRange
    PROVE  DiscoveryInv'
<1>1. SessionType /\ Sorted /\ SentinelInView /\ step = "range" /\ step \in RangeSteps
      /\ first <= NumMessages /\ UNCHANGED <<mailbox, last, view, upper>> /\ step # "select"
  BY DEF DiscoveryInv, FetchRange, Bisected, RangeSteps
<1>2. CASE ~Exists(RangeLast) /\ Fail
  <2>1. RangeLast \in DOMAIN view
    BY <1>1, RangeNumbers
  <2>2. Disturbed /\ Quiet
    BY <1>1, <1>2, <2>1, Answers DEF Quiet, Fail
  <2> QED
    BY <1>2, <2>2, Fails
<1>3. CASE /\ Exists(RangeLast) /\ found' = SubSeq(box, RangeFirst, RangeLast)
           /\ step' = IF HasMore THEN "retrailing" ELSE "releading"
           /\ UNCHANGED <<search, sentinel, result>>
  <2>1. Onward /\ step' \in {"retrailing", "releading"}
    BY <1>1, <1>3 DEF Onward, Quiet
  <2>2. /\ Route' /\ Bisected' /\ (Disturbed' <=> Disturbed)
        /\ UNCHANGED <<box, next, last, view, upper, low, high, first, result, NumMessages,
                       RangeFirst, RangeLast, HasMore>>
    BY <1>1, <1>3, <2>1, RangeContinues DEF RangeSteps
  <2>3. /\ found' \in Seq(UIDs) /\ Len(found') = RangeLast - RangeFirst + 1
        /\ DOMAIN found' = 1 .. RangeLast - RangeFirst + 1
        /\ \A i \in DOMAIN found' : found'[i] = box[RangeFirst + i - 1]
                                    /\ RangeFirst + i - 1 \in DOMAIN box
    BY <1>1, <1>3, RangeIsRead
  <2>4. SessionType'
    BY <1>1, <1>3, <2>1, <2>2, <2>3 DEF SessionType, Steps, RangeSteps, UIDs
  <2>5. SentinelInView'
    BY <1>1, <1>3, <2>1, <2>2 DEF SentinelInView
  <2>6. AnchorInv'
    BY <2>1 DEF AnchorInv
  <2>7. /\ 1 <= first /\ first \in Int /\ RangeFirst \in Int /\ RangeLast \in Int /\ NumMessages \in Int
        /\ 1 <= RangeFirst /\ RangeFirst <= RangeLast /\ RangeLast <= NumMessages
        /\ first = 1 => RangeFirst = 1
        /\ HasMore <=> RangeLast < NumMessages
        /\ DOMAIN view = 1 .. NumMessages
    BY <1>1, RangeNumbers
  <2>8. 1 \in DOMAIN found' /\ Len(found') \in DOMAIN found'
        /\ found'[1] = box[RangeFirst] /\ Last(found') = box[RangeLast]
        /\ RangeFirst \in DOMAIN box /\ RangeLast \in DOMAIN box
    <3>1. 1 \in DOMAIN found' /\ Len(found') \in DOMAIN found'
      BY <2>3, <2>7
    <3>2. RangeFirst + 1 - 1 = RangeFirst /\ RangeFirst + Len(found') - 1 = RangeLast
      <4>1. RangeFirst \in Int /\ RangeLast \in Int
        BY <2>7
      <4>2. Len(found') = RangeLast - RangeFirst + 1
        BY <2>3
      <4> QED
        BY <4>1, <4>2
    <3> QED
      BY <2>3, <3>1, <3>2 DEF Last
  <2>9. ASSUME NEW i \in DOMAIN box, NEW j \in DOMAIN box, box[i] <= box[j]
        PROVE  i <= j /\ i \in Int /\ j \in Int
    <3>1. i \in Int /\ j \in Int /\ box[i] \in Int /\ box[j] \in Int
      BY <1>1, SessionFacts
    <3>2. ~(j < i)
      BY <1>1, <2>9, <3>1 DEF Sorted, Ascending
    <3> QED
      BY <3>1, <3>2
  <2>10. ASSUME NEW i \in DOMAIN box, found'[1] <= box[i],
                box[i] <= Last(found') \/ (~HasMore /\ box[i] <= upper)
         PROVE  box[i] \in ToSet(found')
    <3>1. RangeFirst <= i /\ i \in Int
      BY <2>8, <2>9, <2>10
    <3>2. i <= RangeLast
      <4>1. CASE box[i] <= Last(found')
        BY <2>8, <2>9, <4>1
      <4>2. CASE ~HasMore /\ box[i] <= upper
        BY <1>1, <2>7, <3>1, <4>2, NotBehind
      <4> QED
        BY <2>10, <4>1, <4>2
    <3> DEFINE p == i - RangeFirst + 1
    <3>3. p \in DOMAIN found' /\ RangeFirst + p - 1 = i
      BY <2>3, <2>7, <3>1, <3>2
    <3> HIDE DEF p
    <3>4. found'[p] = box[i]
      BY <2>3, <3>3
    <3> QED
      BY <3>3, <3>4 DEF ToSet
  <2>11. Ascending(found')
    <3> SUFFICES ASSUME NEW i \in DOMAIN found', NEW j \in DOMAIN found', i < j
                 PROVE  found'[i] < found'[j]
      BY DEF Ascending
    <3>1. RangeFirst + i - 1 < RangeFirst + j - 1
      BY <2>3, <2>7
    <3> QED
      BY <1>1, <2>3, <3>1 DEF Sorted, Ascending
  <2>12. \A i \in DOMAIN found' : found'[i] < next
    BY <1>1, <2>3 DEF Sorted
  <2>13. first = 1 => \A i \in DOMAIN box : found'[1] <= box[i]
    <3> SUFFICES ASSUME first = 1, NEW i \in DOMAIN box
                 PROVE  found'[1] <= box[i]
      OBVIOUS
    <3>1. i \in Int /\ 1 <= i /\ found'[1] = box[1] /\ 1 \in DOMAIN box
          /\ box[i] \in Int /\ box[1] \in Int
      <4>1. found'[1] = box[1] /\ 1 \in DOMAIN box
        BY <2>7, <2>8
      <4>2. i \in Int /\ 1 <= i
        BY <1>1, SessionFacts
      <4> QED
        BY <1>1, <4>1, <4>2, SessionFacts
    <3>2. i = 1 \/ box[1] < box[i]
      BY <1>1, <3>1 DEF Sorted, Ascending
    <3> QED
      BY <3>1, <3>2
  <2>14. Disturbed \/ \A i \in DOMAIN found' : found'[i] = view[RangeFirst + i - 1]
    <3>1. \A i \in DOMAIN found' : RangeFirst + i - 1 \in DOMAIN view
      BY <2>3, <2>7
    <3> QED
      BY <1>1, <2>3, <3>1, Answers
  <2>15. \A i \in DOMAIN box' : Covered(box[i])' => (box[i] \in ToSet(found))'
    BY <2>2, <2>10 DEF Covered, ToSet, Last
  <2> QED
    <3>1. RangeCovers'
      BY <2>2, <2>3, <2>11, <2>12, <2>13, <2>14, <2>15 DEF RangeCovers, Ascending
    <3> QED
      BY <2>1, <2>2, <2>4, <2>5, <2>6, <3>1, Continues
<1> QED
  BY <1>2, <1>3 DEF FetchRange

LEMMA CheckTrailingStep ==
    ASSUME DiscoveryInv, CheckTrailing
    PROVE  DiscoveryInv'
<1>1. SessionType /\ SentinelInView /\ RangeCovers /\ step = "retrailing" /\ step \in RangeSteps
      /\ first <= NumMessages /\ UNCHANGED <<mailbox, last, view, upper>> /\ step # "select"
  BY DEF DiscoveryInv, CheckTrailing, Bisected, RangeSteps
<1>2. CASE Fail /\ ~(Exists(RangeLast + 1) /\ box[RangeLast + 1] = sentinel)
  <2>1. RangeLast + 1 \in DOMAIN view
    BY <1>1, RangeNumbers DEF SentinelInView
  <2>2. Disturbed
    BY <1>1, <1>2, <2>1, Answers DEF SentinelInView
  <2>3. Quiet
    BY <1>1, <1>2 DEF Quiet, Fail
  <2> QED
    BY <1>2, <2>2, <2>3, Fails
<1>3. CASE step' = "releading" /\ UNCHANGED <<search, sentinel, found, result>>
  <2>1. Onward
    BY <1>1, <1>3 DEF Onward, Quiet
  <2>2. /\ Route' /\ Bisected' /\ (Disturbed' <=> Disturbed)
        /\ UNCHANGED <<box, next, last, view, upper, low, high, first, result, NumMessages,
                       RangeFirst, RangeLast, HasMore>>
    BY <1>1, <1>3, <2>1, RangeContinues DEF RangeSteps
  <2>3. SessionType'
    BY <1>1, <1>3, <2>2 DEF SessionType, Steps, RangeSteps
  <2>4. SentinelInView' /\ AnchorInv'
    BY <1>3 DEF SentinelInView, AnchorInv
  <2>5. \A uid : Covered(uid)' <=> Covered(uid)
    BY <1>3, <2>2 DEF Covered, Last
  <2>6. RangeCovers'
    BY <1>1, <1>3, <2>2, <2>5 DEF RangeCovers, Ascending, ToSet
  <2> QED
    BY <2>1, <2>2, <2>3, <2>4, <2>6, Continues
<1> QED
  BY <1>1, <1>2, <1>3 DEF CheckTrailing

\* The new part of the range: without its leading sentinel.
LEMMA NewPart ==
    ASSUME DiscoveryInv, step = "releading"
    PROVE  /\ New \in Seq(UIDs) /\ Len(New) = RangeLast - first + 1
           /\ DOMAIN New = 1 .. RangeLast - first + 1
           /\ New # <<>> /\ Len(New) \in DOMAIN New /\ Last(New) = Last(found)
           /\ Ascending(New)
           /\ \A i \in DOMAIN New : New[i] = found[i + (first - RangeFirst)]
                                    /\ i + (first - RangeFirst) \in DOMAIN found
           /\ Head(found) = found[1] /\ 1 \in DOMAIN found
<1>1. SessionType /\ RangeCovers /\ step \in RangeSteps /\ first <= NumMessages
  BY DEF DiscoveryInv, Bisected, RangeSteps
<1>2. /\ 1 <= first /\ first \in Int /\ RangeFirst \in Int /\ RangeLast \in Int
      /\ RangeFirst = IF first > 1 THEN first - 1 ELSE first
      /\ first <= RangeLast
  BY <1>1, RangeNumbers
<1>3. found \in Seq(UIDs) /\ Len(found) = RangeLast - RangeFirst + 1 /\ Ascending(found)
      /\ DOMAIN found = 1 .. RangeLast - RangeFirst + 1
  BY <1>1, SessionFacts DEF SessionType, RangeCovers
<1>4. found # <<>> /\ Head(found) = found[1] /\ 1 \in DOMAIN found
  BY <1>2, <1>3
<1> HIDE DEF RangeFirst, RangeLast
<1>5. /\ New \in Seq(UIDs) /\ Len(New) = RangeLast - first + 1
      /\ DOMAIN New = 1 .. RangeLast - first + 1
      /\ \A i \in DOMAIN New : New[i] = found[i + (first - RangeFirst)]
  <2>1. CASE first > 1
    <3>1. New = Tail(found) /\ first - RangeFirst = 1
      BY <1>2, <2>1 DEF New
    <3>2. /\ Tail(found) \in Seq(UIDs) /\ Len(Tail(found)) = Len(found) - 1
          /\ \A i \in 1 .. Len(found) - 1 : Tail(found)[i] = found[i + 1]
      BY <1>3, <1>4
    <3>3. Len(found) - 1 = RangeLast - first + 1
      BY <1>2, <1>3, <2>1
    <3> QED
      BY <3>1, <3>2, <3>3
  <2>2. CASE ~(first > 1)
    <3>1. New = found /\ first = RangeFirst
      BY <1>2, <2>2 DEF New
    <3>2. \A i \in DOMAIN found : i + (first - RangeFirst) = i
      BY <1>2, <1>3, <3>1
    <3> QED
      BY <1>3, <3>1, <3>2
  <2> QED
    BY <2>1, <2>2
<1>6. ASSUME NEW i \in DOMAIN New
      PROVE  i + (first - RangeFirst) \in DOMAIN found
  BY <1>2, <1>3, <1>5
<1>7. New # <<>> /\ Len(New) \in DOMAIN New
  BY <1>2, <1>5
<1>8. Last(New) = Last(found)
  <2>1. Len(New) + (first - RangeFirst) = Len(found)
    BY <1>2, <1>3, <1>5
  <2> QED
    BY <1>5, <1>7, <2>1 DEF Last
<1>9. Ascending(New)
  <2> SUFFICES ASSUME NEW i \in DOMAIN New, NEW j \in DOMAIN New, i < j
               PROVE  New[i] < New[j]
    BY DEF Ascending
  <2>1. i + (first - RangeFirst) < j + (first - RangeFirst)
    BY <1>2, <1>5
  <2> QED
    BY <1>3, <1>5, <1>6, <2>1 DEF Ascending
<1> QED
  BY <1>4, <1>5, <1>6, <1>7, <1>8, <1>9

\* As many UIDs as the sequence is long, at most.
LEMMA ToSetBounded ==
    ASSUME NEW S, NEW s \in Seq(S)
    PROVE  Cardinality(ToSet(s)) <= Len(s)
<1>1. Len(s) \in Nat /\ DOMAIN s = 1 .. Len(s)
  OBVIOUS
<1>2. s \in [1 .. Len(s) -> ToSet(s)]
  BY <1>1 DEF ToSet
<1>3. s \in Surjection(1 .. Len(s), ToSet(s))
  BY <1>1, <1>2 DEF Surjection, ToSet
<1>4. ExistsSurjection(1 .. Len(s), ToSet(s))
  BY <1>3 DEF ExistsSurjection
<1> QED
  BY <1>1, <1>4, FS_SurjCardinalityBound

LEMMA CheckLeadingStep ==
    ASSUME DiscoveryInv, CheckLeading
    PROVE  DiscoveryInv'
<1>1. SessionType /\ Sorted /\ RangeCovers /\ step = "releading" /\ step \in RangeSteps
      /\ first <= NumMessages /\ UNCHANGED <<mailbox, last, view, upper>> /\ step # "select"
      /\ Between(first, first)
  BY DEF DiscoveryInv, CheckLeading, Bisected, RangeSteps
<1>2. /\ 1 <= first /\ first \in Int /\ RangeFirst \in Int /\ RangeLast \in Int /\ NumMessages \in Int /\ Limit \in Int
      /\ 1 <= RangeFirst /\ RangeFirst <= first /\ first <= RangeLast
      /\ RangeLast <= NumMessages /\ RangeLast <= first + Limit - 1
      /\ RangeFirst = IF first > 1 THEN first - 1 ELSE first
      /\ DOMAIN view = 1 .. NumMessages
      /\ last \in 0 .. upper - 1 /\ upper \in 0 .. MaxUID /\ upper \in Int /\ last \in Int
  BY <1>1, RangeNumbers
<1>3. /\ New \in Seq(UIDs) /\ Len(New) = RangeLast - first + 1
      /\ DOMAIN New = 1 .. RangeLast - first + 1
      /\ New # <<>> /\ Len(New) \in DOMAIN New /\ Last(New) = Last(found)
      /\ Ascending(New)
      /\ \A i \in DOMAIN New : New[i] = found[i + (first - RangeFirst)]
                               /\ i + (first - RangeFirst) \in DOMAIN found
      /\ Head(found) = found[1] /\ 1 \in DOMAIN found
  BY <1>1, NewPart
<1>4. CASE Fail /\ ~Consistent
  <2> SUFFICES ASSUME ~Disturbed
               PROVE  Consistent
    BY <1>1, <1>4, Fails DEF Quiet, Fail
  <2>1. \A i \in DOMAIN found : found[i] = view[RangeFirst + i - 1]
    BY <1>1 DEF RangeCovers
  <2>2. \A i \in DOMAIN view : (i < first => view[i] <= last) /\ (first <= i => last < view[i])
    BY <1>1 DEF Between
  <2>3. RangeFirst \in DOMAIN view /\ RangeFirst + 1 - 1 = RangeFirst
    BY <1>2
  <2>4. Head(found) = view[RangeFirst]
    BY <1>3, <2>1, <2>3
  <2>5. Exists(RangeFirst) /\ box[RangeFirst] = Head(found)
    BY <1>1, <2>3, <2>4, Answers
  <2>6. first > 1 => Head(found) <= last
    BY <1>2, <2>2, <2>3, <2>4
  <2>7. ASSUME NEW i \in DOMAIN New
        PROVE  last < New[i] /\ New[i] <= upper
    <3>1. RangeFirst + (i + (first - RangeFirst)) - 1 = first + i - 1
          /\ first + i - 1 \in DOMAIN view /\ first <= first + i - 1
      <4>1. i \in 1 .. RangeLast - first + 1
        BY <1>3, <2>7
      <4> QED
        BY <1>2, <4>1
    <3>2. New[i] = view[first + i - 1]
      BY <1>3, <2>1, <3>1
    <3> QED
      BY <1>1, <2>2, <3>1, <3>2 DEF Sorted
  <2> QED
    BY <1>3, <2>5, <2>6, <2>7 DEF Consistent
<1>5. CASE Consistent /\ Done(IF HasMore THEN Last(New) ELSE upper, ToSet(New))
  <2> DEFINE through == IF HasMore THEN Last(New) ELSE upper
  <2>1. step' = "done" /\ result' = [last |-> through, uids |-> ToSet(New)] /\ Quiet
        /\ UNCHANGED <<box, last, view, upper>>
    BY <1>1, <1>5 DEF Done, Quiet, mailbox
  <2>2. \A i \in DOMAIN New : last < New[i] /\ New[i] <= upper /\ New[i] \in UIDs /\ New[i] \in Int
    <3>1. \A i \in DOMAIN New : New[i] \in UIDs
      BY <1>3
    <3> QED
      BY <1>1, <1>5, <3>1, SessionFacts DEF Consistent
  <2>3. last < Last(New) /\ Last(New) <= upper /\ Last(New) \in UIDs /\ Last(New) \in Int
    BY <1>3, <2>2 DEF Last
  <2>4. through \in UIDs \cup {upper} /\ through \in Int /\ last < through /\ through <= upper
    BY <1>2, <2>3
  <2>5. ASSUME NEW i \in DOMAIN New
        PROVE  New[i] <= through
    <3>1. i \in Int /\ i <= Len(New) /\ Len(New) \in Int
      BY <1>2, <1>3
    <3>2. i = Len(New) \/ New[i] < Last(New)
      BY <1>3, <3>1 DEF Ascending, Last
    <3>3. New[i] <= Last(New)
      BY <2>2, <2>3, <3>2 DEF Last
    <3> QED
      BY <2>2, <3>3
  <2> HIDE DEF through
  <2>6. ToSet(New) \subseteq last + 1 .. through /\ ToSet(New) \subseteq UIDs
    BY <1>2, <2>2, <2>4, <2>5 DEF ToSet
  <2>7. Cardinality(ToSet(New)) <= Limit
    <3>1. Cardinality(ToSet(New)) <= Len(New)
      BY <1>3, ToSetBounded
    <3>2. IsFiniteSet(ToSet(New))
      <4>1. last + 1 \in Int /\ through \in Int
        BY <1>2, <2>4
      <4>2. IsFiniteSet(last + 1 .. through)
        BY <4>1, FS_Interval
      <4> QED
        BY <2>6, <4>2, FS_Subset
    <3>3. Cardinality(ToSet(New)) \in Nat
      BY <3>2, FS_CardinalityType
    <3>4. Len(New) \in Int /\ Len(New) <= Limit /\ Limit \in Int
      BY <1>2, <1>3
    <3> QED
      BY <3>1, <3>3, <3>4
  <2>8. AdvancesByABatch'
    <3>1. through \in last .. upper /\ through # last
      BY <1>2, <2>4
    <3> QED
      BY <2>1, <2>6, <2>7, <3>1 DEF AdvancesByABatch
  <2>9. SkipsNothing'
    <3> SUFFICES ASSUME NEW i \in DOMAIN box, last < box[i], box[i] <= through
                 PROVE  box[i] \in ToSet(New)
      BY <2>1 DEF SkipsNothing
    <3>1. box[i] \in Int /\ found[1] \in Int
      BY <1>1, <1>3, SessionFacts
    <3>2. found[1] <= box[i] /\ (first > 1 => found[1] # box[i])
      <4>1. CASE first > 1
        <5>1. found[1] <= last
          BY <1>3, <1>5, <4>1 DEF Consistent
        <5> QED
          BY <1>2, <3>1, <5>1
      <4>2. CASE ~(first > 1)
        BY <1>1, <1>2, <4>2 DEF RangeCovers
      <4> QED
        BY <4>1, <4>2
    <3>3. box[i] <= Last(found) \/ (~HasMore /\ box[i] <= upper)
      BY <1>3 DEF through
    <3>4. box[i] \in ToSet(found)
      BY <1>1, <3>2, <3>3 DEF RangeCovers, Covered
    <3>5. PICK p \in DOMAIN found : found[p] = box[i]
      BY <3>4 DEF ToSet
    <3>6. DOMAIN found = 1 .. RangeLast - RangeFirst + 1
      BY <1>1, SessionFacts DEF RangeCovers
    <3> DEFINE q == p - (first - RangeFirst)
    <3>7. q \in DOMAIN New /\ q + (first - RangeFirst) = p
      <4>1. p \in 1 .. RangeLast - RangeFirst + 1 /\ (first > 1 => p # 1)
        BY <3>2, <3>5, <3>6
      <4>2. DOMAIN New = 1 .. RangeLast - first + 1
        BY <1>3
      <4>3. CASE first > 1
        BY <1>2, <4>1, <4>2, <4>3
      <4>4. CASE ~(first > 1)
        BY <1>2, <4>1, <4>2, <4>4
      <4> QED
        BY <4>3, <4>4
    <3> HIDE DEF q
    <3>8. New[q] = box[i]
      BY <1>3, <3>5, <3>7
    <3> QED
      BY <3>7, <3>8 DEF ToSet
  <2>10. WindowExact'
    BY <1>2, <2>1 DEF WindowExact
  <2>11. through \in -1 .. MaxUID
    BY <1>2, <2>4 DEF UIDs
  <2>12. Done(through, ToSet(New))
    BY <1>5 DEF through
  <2> QED
    BY <2>1, <2>6, <2>8, <2>9, <2>10, <2>11, <2>12, Ends DEF BatchExact
<1> QED
  BY <1>4, <1>5 DEF CheckLeading

-----------------------------------------------------------------------------
(* The anchor of a reset.                                                  *)

LEMMA AnchorNumbers ==
    ASSUME DiscoveryInv, step \in AnchorSteps
    PROVE  /\ NumMessages \in DOMAIN view /\ Cut \in DOMAIN view /\ Cut < NumMessages
           /\ NumMessages \in Int /\ Cut \in Int /\ Cut = NumMessages - Window
           /\ Window \in Nat /\ DOMAIN view = 1 .. NumMessages /\ last = -1 /\ step # "select"
<1>1. SessionType /\ Route
  BY DEF DiscoveryInv
<1>2. NumMessages \in Nat /\ Window \in Nat \ {0} /\ DOMAIN view = 1 .. NumMessages
  BY <1>1, SessionFacts
<1>3. last = -1 /\ NumMessages > Window /\ step # "select"
  BY <1>1 DEF Route, AnchorSteps
<1> QED
  BY <1>2, <1>3 DEF Cut

LEMMA AnchorContinues ==
    ASSUME DiscoveryInv, Onward, step \in AnchorSteps, step' \in AnchorSteps \ {"anchor"},
           UNCHANGED search, sentinel' \in 0 .. MaxUID, found' \in Seq(UIDs), AnchorInv'
    PROVE  DiscoveryInv'
<1>1. SessionType /\ Route
  BY DEF DiscoveryInv
<1>2. UNCHANGED <<box, next, last, view, upper, low, high, first, result, NumMessages>>
  BY DEF Onward, Quiet, mailbox, search, NumMessages
<1>3. SessionType'
  BY <1>1, <1>2 DEF SessionType, Steps, AnchorSteps, UIDs
<1>4. Route'
  BY <1>1, <1>2 DEF Route, SearchSteps, RangeSteps, AnchorSteps
<1>5. Bisected' /\ SentinelInView' /\ RangeCovers'
  BY DEF Bisected, SentinelInView, RangeCovers, RangeSteps, AnchorSteps
<1> QED
  BY <1>3, <1>4, <1>5, Continues

LEMMA AnchorStep ==
    ASSUME DiscoveryInv, Anchor
    PROVE  DiscoveryInv'
<1>1. SessionType /\ Shifted /\ step = "anchor" /\ step \in AnchorSteps
      /\ UNCHANGED <<mailbox, last, view, upper>>
  BY DEF DiscoveryInv, Anchor, AnchorSteps
<1>2. /\ NumMessages \in DOMAIN view /\ NumMessages \in Int /\ DOMAIN view = 1 .. NumMessages
      /\ step # "select"
  BY <1>1, AnchorNumbers
<1>3. CASE ~(Exists(NumMessages) /\ box[NumMessages] <= upper) /\ Fail
  <2>1. Disturbed
    <3> SUFFICES ASSUME ~Disturbed
                 PROVE  Exists(NumMessages) /\ box[NumMessages] <= upper
      BY <1>3
    <3>1. Exists(NumMessages) /\ box[NumMessages] \in 1 .. upper
      BY <1>2, Answers
    <3> QED
      BY <1>1, <3>1, SessionFacts
  <2>2. Quiet
    BY <1>1, <1>3 DEF Quiet, Fail
  <2> QED
    BY <1>3, <2>1, <2>2, Fails
<1>4. CASE /\ Exists(NumMessages) /\ box[NumMessages] <= upper
           /\ sentinel' = box[NumMessages] /\ step' = "boundary"
           /\ UNCHANGED <<search, found, result>>
  <2>1. Onward /\ NumMessages' = NumMessages /\ view' = view
    BY <1>1, <1>4 DEF Onward, Quiet, NumMessages
  <2>2. NumMessages \in DOMAIN box
    BY <1>1, <1>4, SessionFacts DEF Exists
  <2>3. PICK k \in DOMAIN view : box[NumMessages] = view[k]
    BY <1>1, <1>4, <2>2 DEF Shifted
  <2>4. PICK m \in DOMAIN view : box[NumMessages] = view[m] /\ NumMessages <= m
    <3>1. NumMessages \in 1 .. NumMessages
      BY <1>2
    <3> QED
      BY <1>1, <2>2, <2>3, <3>1 DEF Shifted
  <2>5. m = NumMessages
    BY <1>2, <2>4
  <2>6. AnchorInv'
    BY <1>4, <2>1, <2>4, <2>5 DEF AnchorInv
  <2>7. sentinel' \in 0 .. MaxUID /\ found' \in Seq(UIDs)
    <3>1. box[NumMessages] \in UIDs
      BY <1>1, <2>2, SessionFacts
    <3>2. sentinel' \in 0 .. MaxUID
      BY <1>4, <3>1 DEF UIDs
    <3> QED
      BY <1>1, <1>4, <3>2 DEF SessionType
  <2> QED
    BY <1>1, <1>4, <2>1, <2>6, <2>7, AnchorContinues DEF AnchorSteps
<1> QED
  BY <1>3, <1>4 DEF Anchor

LEMMA BoundaryStep ==
    ASSUME DiscoveryInv, Boundary
    PROVE  DiscoveryInv'
<1>1. SessionType /\ Sorted /\ Shifted /\ AnchorInv /\ step = "boundary" /\ step \in AnchorSteps
      /\ UNCHANGED <<mailbox, last, view, upper>>
  BY DEF DiscoveryInv, Boundary, AnchorSteps
<1>2. /\ NumMessages \in DOMAIN view /\ Cut \in DOMAIN view /\ Cut < NumMessages
      /\ NumMessages \in Int /\ Cut \in Int /\ Cut = NumMessages - Window /\ step # "select"
      /\ DOMAIN view = 1 .. NumMessages
  BY <1>1, AnchorNumbers
<1>3. sentinel = view[NumMessages] /\ view[Cut] < view[NumMessages]
  BY <1>1, <1>2 DEF AnchorInv, Sorted, Ascending
<1>4. CASE ~(Exists(Cut) /\ box[Cut] < sentinel) /\ Fail
  <2>1. Disturbed
    BY <1>2, <1>3, <1>4, Answers
  <2>2. Quiet
    BY <1>1, <1>4 DEF Quiet, Fail
  <2> QED
    BY <1>4, <2>1, <2>2, Fails
<1>5. CASE /\ Exists(Cut) /\ box[Cut] < sentinel /\ found' = <<box[Cut]>>
           /\ step' = "reanchor" /\ UNCHANGED <<search, sentinel, result>>
  <2>1. Onward /\ NumMessages' = NumMessages /\ Cut' = Cut /\ UNCHANGED <<box, view>>
    BY <1>1, <1>5 DEF Onward, Quiet, NumMessages, Cut, mailbox
  <2>2. Cut \in DOMAIN box /\ box[Cut] \in UIDs /\ sentinel \in 0 .. MaxUID
    BY <1>1, <1>5, SessionFacts DEF Exists, SessionType
  <2>3. box[Cut] <= upper
    <3>1. box[Cut] \in Int /\ view[NumMessages] \in Int /\ upper \in Int
          /\ view[NumMessages] <= upper
      BY <1>1, <1>2, <2>2, SessionFacts DEF Sorted
    <3> QED
      BY <1>3, <1>5, <3>1
  <2>4. Cut \in 1 .. Cut
    BY <1>2
  <2>5. PICK m \in DOMAIN view : box[Cut] = view[m] /\ Cut <= m
    <3>1. PICK k \in DOMAIN view : box[Cut] = view[k]
      BY <1>1, <1>2, <2>2, <2>3 DEF Shifted
    <3> QED
      BY <1>1, <1>2, <2>2, <2>4, <3>1 DEF Shifted
  <2>6. ASSUME NEW j \in DOMAIN box, NEW k \in DOMAIN view, Cut <= j, box[j] = view[k]
        PROVE  m - Cut <= k - j
    <3>1. Cut \in 1 .. j
      BY <1>1, <1>2, <2>6, SessionFacts
    <3>2. PICK n \in DOMAIN view : box[Cut] = view[n] /\ n - Cut <= k - j
      BY <1>1, <1>2, <2>6, <3>1 DEF Shifted
    <3>3. n \in Int /\ m \in Int /\ view[n] = view[m] /\ view[n] \in Int
      BY <1>1, <1>2, <2>5, <3>2, SessionFacts
    <3>4. ~(n < m) /\ ~(m < n)
      BY <1>1, <3>3 DEF Sorted, Ascending
    <3> QED
      BY <3>2, <3>3, <3>4
  <2>7. BoundaryAt(m)'
    BY <1>5, <2>1, <2>5, <2>6 DEF BoundaryAt
  <2>8. AnchorInv'
    BY <1>3, <1>5, <2>1, <2>7 DEF AnchorInv
  <2>9. found' \in Seq(UIDs) /\ sentinel' \in 0 .. MaxUID
    BY <1>5, <2>2
  <2> QED
    BY <1>1, <1>5, <2>1, <2>8, <2>9, AnchorContinues DEF AnchorSteps
<1> QED
  BY <1>2, <1>4, <1>5 DEF Boundary

LEMMA CheckAnchorStep ==
    ASSUME DiscoveryInv, CheckAnchor
    PROVE  DiscoveryInv'
<1>1. SessionType /\ Sorted /\ AnchorInv /\ step = "reanchor" /\ step \in AnchorSteps
      /\ UNCHANGED <<mailbox, last, view, upper>>
  BY DEF DiscoveryInv, CheckAnchor, AnchorSteps
<1>2. /\ NumMessages \in DOMAIN view /\ Cut \in DOMAIN view /\ Cut < NumMessages
      /\ NumMessages \in Int /\ Cut \in Int /\ Cut = NumMessages - Window /\ step # "select"
      /\ Window \in Nat /\ DOMAIN view = 1 .. NumMessages /\ last = -1
  BY <1>1, AnchorNumbers
<1>3. sentinel = view[NumMessages]
  BY <1>1 DEF AnchorInv
<1>4. CASE Fail /\ ~Anchored
  <2>1. Disturbed
    BY <1>2, <1>3, <1>4, Answers DEF Anchored
  <2>2. Quiet
    BY <1>1, <1>4 DEF Quiet, Fail
  <2> QED
    BY <1>4, <2>1, <2>2, Fails
<1>5. CASE Anchored /\ Done(Head(found), {})
  <2>1. PICK m \in DOMAIN view : BoundaryAt(m)
    BY <1>1 DEF AnchorInv
  <2>2. NumMessages \in DOMAIN box /\ box[NumMessages] = view[NumMessages]
    BY <1>1, <1>3, <1>5, SessionFacts DEF Anchored, Exists
  <2>3. m - Cut <= NumMessages - NumMessages /\ Cut <= m
    BY <1>2, <2>1, <2>2 DEF BoundaryAt
  <2>4. m = Cut
    BY <1>2, <2>3
  <2>5. Head(found) = view[Cut] /\ view[Cut] \in UIDs
    BY <1>1, <1>2, <2>1, <2>4, SessionFacts DEF BoundaryAt
  <2>6. step' = "done" /\ result' = [last |-> view[Cut], uids |-> {}] /\ Quiet
        /\ UNCHANGED <<view, last>> /\ NumMessages' = NumMessages
    BY <1>1, <1>5, <2>5 DEF Done, Quiet, NumMessages
  <2>7. ASSUME NEW i \in DOMAIN view
        PROVE  view[i] > view[Cut] <=> i \in Cut + 1 .. NumMessages
    <3>1. i \in Int /\ 1 <= i /\ i <= NumMessages /\ view[i] \in Int /\ view[Cut] \in Int
      BY <1>1, <1>2, SessionFacts
    <3>2. (i < Cut => view[i] < view[Cut]) /\ (Cut < i => view[Cut] < view[i])
      BY <1>1, <1>2 DEF Sorted, Ascending
    <3> QED
      BY <1>2, <3>1, <3>2
  <2>8. {i \in DOMAIN view : view[i] > view[Cut]} = Cut + 1 .. NumMessages
    BY <1>2, <2>7
  <2>9. Cardinality(Cut + 1 .. NumMessages) = Window
    <3>1. Cut + 1 \in Int /\ ~(Cut + 1 > NumMessages) /\ NumMessages - (Cut + 1) + 1 = Window
      BY <1>2
    <3> QED
      BY <1>2, <3>1, FS_Interval
  <2>10. WindowExact'
    <3>1. Cardinality({i \in DOMAIN view' : view'[i] > result'.last}) = Window
      BY <2>6, <2>8, <2>9
    <3>2. ~(NumMessages < Window)
      BY <1>1, <1>2 DEF Cut
    <3> QED
      BY <2>6, <3>1, <3>2 DEF WindowExact
  <2>11. BatchExact'
    BY <1>2, <2>6 DEF BatchExact, SkipsNothing, AdvancesByABatch
  <2>12. Head(found) \in -1 .. MaxUID
    BY <2>5 DEF UIDs
  <2> QED
    BY <1>5, <2>6, <2>10, <2>11, <2>12, Ends
<1> QED
  BY <1>4, <1>5 DEF CheckAnchor

-----------------------------------------------------------------------------
LEMMA DiscoveryStep == DiscoveryInv /\ [Next]_vars => DiscoveryInv'
<1> SUFFICES ASSUME DiscoveryInv, [Next]_vars PROVE DiscoveryInv'
  OBVIOUS
<1>1. CASE Session
  BY <1>1, SelectStep, SearchStep, FirstGuessStep, BisectStep, TrailingStep, FetchRangeStep,
     CheckTrailingStep, CheckLeadingStep, AnchorStep, BoundaryStep, CheckAnchorStep DEF Session
<1>2. CASE Arrive
  BY <1>2, ArriveStep
<1>3. ASSUME NEW i \in DOMAIN box, Expunge(i) PROVE DiscoveryInv'
  BY <1>3, ExpungeStep
<1>4. CASE UNCHANGED vars
  <2>1. UNCHANGED <<box, next, step, last, view, upper, low, high, first, sentinel, found, result>>
    BY <1>4 DEF vars, mailbox, search
  <2> USE DEF NumMessages, RangeFirst, RangeLast, HasMore, Disturbed, ToSet
  <2>2. SessionType' /\ Sorted' /\ Shifted' /\ Undisturbed'
    BY <2>1 DEF DiscoveryInv, SessionType, Sorted, Ascending, Shifted, Undisturbed, InPlace
  <2>3. Route' /\ Bisected' /\ SentinelInView'
    BY <2>1 DEF DiscoveryInv, Route, Bisected, Between, NothingNew, SentinelInView
  <2>4. RangeCovers' /\ AnchorInv'
    BY <2>1 DEF DiscoveryInv, RangeCovers, Covered, Ascending, Last, AnchorInv, BoundaryAt, Cut
  <2>5. BatchExact' /\ WindowExact' /\ FailsOnlyWhenDisturbed'
    BY <2>1 DEF DiscoveryInv, BatchExact, SkipsNothing, AdvancesByABatch, WindowExact,
                FailsOnlyWhenDisturbed
  <2> QED
    BY <2>2, <2>3, <2>4, <2>5 DEF DiscoveryInv
<1> QED
  BY <1>1, <1>2, <1>3, <1>4 DEF Next

LEMMA Discovery == Spec => []DiscoveryInv
  BY DiscoveryInitially, DiscoveryStep, PTL DEF Spec

\* A batch is the next mail after the cursor, all of it that is still there,
\* and no more than a batch.
THEOREM BatchExactHolds == Spec => []BatchExact
<1>1. DiscoveryInv => BatchExact
  BY DEF DiscoveryInv
<1> QED
  BY <1>1, Discovery, PTL

\* A reset leaves exactly the window of most recent messages above its cursor.
THEOREM WindowExactHolds == Spec => []WindowExact
<1>1. DiscoveryInv => WindowExact
  BY DEF DiscoveryInv
<1> QED
  BY <1>1, Discovery, PTL

\* An attempt fails only if a message of the SELECT is gone, or the cursor was
\* beyond the mailbox.
THEOREM FailsOnlyWhenDisturbedHolds == Spec => []FailsOnlyWhenDisturbed
<1>1. DiscoveryInv => FailsOnlyWhenDisturbed
  BY DEF DiscoveryInv
<1> QED
  BY <1>1, Discovery, PTL
=============================================================================
