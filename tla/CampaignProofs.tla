--------------------------- MODULE CampaignProofs ---------------------------
(***************************************************************************)
(* What holds of every campaign: its pages reach every contact, no contact *)
(* twice, and one of them is the last (CampaignPaging); however the        *)
(* trigger, the workers, the tracker and the operator get in each other's  *)
(* way, a page goes out as often as it should and not after a stop         *)
(* (CampaignRun); and a recurring campaign keeps to its limit, has one job *)
(* for its next day, and is sent on the days of its settings               *)
(* (RecurringSchedule).  The three share no state: each part has its own   *)
(* constants and variables.                                                *)
(***************************************************************************)
EXTENDS CampaignPaging, Sequences, FiniteSetTheorems, TLAPS

\* A finite set of integers that is not empty has a greatest element.  (No
\* minimal subset has none: take an element away.)
LEMMA HasMax ==
    ASSUME NEW S \in SUBSET Int, IsFiniteSet(S), S # {}
    PROVE  \E x \in S : \A y \in S : x >= y
<1> DEFINE NoMax == {T \in SUBSET S : T # {} /\ ~\E x \in T : \A y \in T : x >= y}
<1> SUFFICES ASSUME NoMax # {} PROVE FALSE
    OBVIOUS
<1>1. IsWellFoundedOn(StrictSubsetOrdering(S), SUBSET S)
    BY FS_StrictSubsetOrderingWellFounded, FS_FiniteSubsetsOfFinite
<1>2. PICK T \in NoMax : \A U \in NoMax : <<U, T>> \notin StrictSubsetOrdering(S)
    <2> HIDE DEF NoMax
    <2>1. NoMax \subseteq SUBSET S
        BY DEF NoMax
    <2> QED
        BY <1>1, <2>1, WFMin
<1>3. PICK x : x \in T
    OBVIOUS
<1>4. T \ {x} # {}
    BY <1>3
<1>5. <<T \ {x}, T>> \in StrictSubsetOrdering(S)
    BY <1>3 DEF StrictSubsetOrdering
<1>6. PICK m \in T \ {x} : \A y \in T \ {x} : m >= y
    BY <1>2, <1>4, <1>5
<1>7. x \in Int /\ m \in Int /\ T \subseteq Int
    BY <1>3
<1>8. CASE x >= m
    <2>1. \A y \in T : x >= y
        BY <1>6, <1>7, <1>8
    <2> QED
        BY <1>3, <2>1
<1>9. CASE m >= x
    <2>1. \A y \in T : m >= y
        BY <1>6, <1>7, <1>9
    <2> QED
        BY <1>6, <2>1
<1> QED
    BY <1>7, <1>8, <1>9

\* What Max of a set of order numbers is.
LEMMA MaxIs ==
    ASSUME NEW S \in SUBSET Nat, NEW n \in Nat, \A x \in S : x <= n, S # {}
    PROVE  Max(S) \in S /\ \A x \in S : x <= Max(S)
<1>1. IsFiniteSet(S)
    BY FS_BoundedSetOfNaturals
<1>2. S \in SUBSET Int
    OBVIOUS
<1>3. \E x \in S : \A y \in S : x >= y
    BY <1>1, <1>2, HasMax
<1>4. Max(S) \in S /\ \A y \in S : Max(S) >= y
    BY <1>3 DEF Max
<1> QED
    BY <1>2, <1>4

\* The least element of a set of order numbers from n on.
LEMMA LeastFrom ==
    ASSUME NEW S \in SUBSET Nat, NEW n \in Nat, \A x \in S : x <= n, S # {}
    PROVE  \E x \in S : \A y \in S : x <= y
<1> DEFINE D == {n - x : x \in S}
<1>1. D \in SUBSET Nat /\ D # {} /\ \A d \in D : d <= n
    <2>1. \A x \in S : n - x \in Nat /\ n - x <= n
        OBVIOUS
    <2> QED
        BY <2>1
<1>2. IsFiniteSet(D)
    BY <1>1, FS_BoundedSetOfNaturals
<1>3. PICK d \in D : \A e \in D : d >= e
    <2> HIDE DEF D
    <2>1. D \in SUBSET Int
        BY <1>1
    <2> QED
        BY <1>1, <1>2, <2>1, HasMax
<1>4. PICK x \in S : d = n - x
    OBVIOUS
<1>5. \A y \in S : n - x >= n - y
    BY <1>3, <1>4
<1>6. \A y \in S : x <= y
    BY <1>5
<1> QED
    BY <1>6

\* A set of days that is not empty has a first one.
LEMMA FirstOf ==
    ASSUME NEW S \in SUBSET Nat, S # {}
    PROVE  \E x \in S : \A y \in S : x <= y
<1>1. PICK n \in S : TRUE
    OBVIOUS
<1> DEFINE T == {x \in S : x <= n}
<1>2. T \in SUBSET Nat /\ n \in T /\ n \in Nat /\ \A x \in T : x <= n
    <2>1. n \in Nat /\ n <= n
        BY <1>1
    <2> QED
        BY <1>1, <2>1
<1>3. PICK x \in T : \A y \in T : x <= y
    <2> HIDE DEF T
    <2> QED
        BY <1>2, LeastFrom
<1>4. \A y \in S : x <= y
    BY <1>1, <1>3
<1> QED
    BY <1>3, <1>4

\* At most one element, when any two are the same.
LEMMA AtMostOne ==
    ASSUME NEW S, \A x, y \in S : x = y
    PROVE  Cardinality(S) <= 1
<1>1. CASE S = {}
    BY <1>1, FS_EmptySet
<1>2. CASE S # {}
    <2>1. PICK x : S = {x}
        BY <1>2
    <2> QED
        BY <2>1, FS_Singleton
<1> QED
    BY <1>1, <1>2

(***************************************************************************)
(* One batch: the boundaries of an interval, and the pages between them.   *)
(***************************************************************************)

\* What countByTags is asked for: the order numbers above lo, up to hi.
IntervalEnd(contacts, hi) == IF hi = 0 THEN contacts ELSE hi

\* The boundaries are order numbers of the interval, and its end is one.
LEMMA BoundariesAre ==
    ASSUME NEW contacts \in Nat, NEW limit, NEW lo \in Nat, NEW hi \in 0..contacts
    PROVE  /\ Boundaries(contacts, limit, lo, hi) \subseteq (lo + 1)..IntervalEnd(contacts, hi)
           /\ lo < IntervalEnd(contacts, hi) =>
                 IntervalEnd(contacts, hi) \in Boundaries(contacts, limit, lo, hi)
<1> DEFINE top  == IntervalEnd(contacts, hi)
           rows == {n \in 1..contacts : n > lo /\ (hi = 0 \/ n <= hi)}
<1>1. top \in Nat /\ top <= contacts
    BY DEF IntervalEnd
<1>2. rows = (lo + 1)..top
    BY DEF IntervalEnd
<1>3. ASSUME lo < top PROVE Max(rows) = top
    <2>1. top \in rows /\ rows \in SUBSET Nat /\ \A n \in rows : n <= top
        BY <1>1, <1>2, <1>3
    <2>2. Max(rows) \in rows /\ \A n \in rows : n <= Max(rows)
        <3> HIDE DEF rows, top
        <3> QED
            BY <1>1, <2>1, MaxIs
    <2> HIDE DEF rows, top
    <2>3. Max(rows) \in Nat /\ Max(rows) <= top /\ top <= Max(rows)
        BY <2>1, <2>2
    <2> QED
        BY <1>1, <2>3
<1>4. Boundaries(contacts, limit, lo, hi) = {n \in rows : (n - lo) % limit = 0 \/ n = Max(rows)}
    BY DEF Boundaries
<1>5. lo < top => top \in rows
    BY <1>1, <1>2
<1> HIDE DEF rows, top
<1>6. Boundaries(contacts, limit, lo, hi) \subseteq (lo + 1)..top
    BY <1>2, <1>4
<1>7. lo < top => top \in Boundaries(contacts, limit, lo, hi)
    BY <1>3, <1>4, <1>5
<1> QED
    BY <1>6, <1>7 DEF top

\* A page starts above the boundaries below its own, and above lo, unless lo is
\* zero or it is the only page of an A/B batch; and at or below the first contact
\* above the boundaries below its own.
LEMMA PageStarts ==
    ASSUME NEW type, NEW lo \in Nat, NEW top \in Nat,
           NEW bounds \in SUBSET ((lo + 1)..top), NEW b \in bounds,
           type \notin {"split", "testab"} => lo = 0
    PROVE  LET first == PageFirst(type, bounds, b, lo) IN
           /\ first \in Nat /\ first <= b
           /\ \A c \in bounds : c < b => c < first
           /\ \A n \in (lo + 1)..b : (\A c \in bounds : c < b => c < n) => first <= n
           /\ \/ lo = 0 \/ lo < first
              \/ type = "testab" /\ ~(Cardinality(bounds) > 1)
<1> DEFINE lower == {x \in bounds : x < b}
           first == PageFirst(type, bounds, b, lo)
<1>1. bounds \in SUBSET Nat /\ b \in Nat /\ lo < b /\ \A c \in bounds : c \in Nat /\ lo < c
    OBVIOUS
<1>2. lower \in SUBSET Nat /\ \A c \in bounds : c \in lower <=> c < b
    BY <1>1
<1>3. lower \subseteq bounds /\ \A c \in lower : c <= b /\ c < b
    BY <1>1
<1>4. first = IF lower # {} THEN Max(lower) + 1
              ELSE IF Cardinality(bounds) > 1 THEN IF lo > 0 THEN lo + 1 ELSE 0
              ELSE OnlyPageFirst(type, lo)
    BY DEF PageFirst
<1> SUFFICES /\ first \in Nat /\ first <= b
             /\ \A c \in bounds : c < b => c < first
             /\ \A n \in (lo + 1)..b : (\A c \in bounds : c < b => c < n) => first <= n
             /\ \/ lo = 0 \/ lo < first
                \/ type = "testab" /\ ~(Cardinality(bounds) > 1)
    OBVIOUS
<1> HIDE DEF lower, first
<1>5. CASE lower # {}
    <2>1. Max(lower) \in lower /\ \A x \in lower : x <= Max(lower)
        BY <1>1, <1>2, <1>3, <1>5, MaxIs
    <2>2. Max(lower) \in bounds /\ Max(lower) < b /\ Max(lower) \in Nat /\ lo < Max(lower)
        BY <1>1, <1>3, <2>1
    <2>3. first = Max(lower) + 1
        BY <1>4, <1>5
    <2>4. \A c \in bounds : c < b => c <= Max(lower)
        BY <1>2, <2>1
    <2> QED
        BY <1>1, <2>2, <2>3, <2>4
<1>6. CASE lower = {}
    <2>1. \A c \in bounds : ~(c < b)
        BY <1>2, <1>6
    <2>2. first = IF Cardinality(bounds) > 1 THEN IF lo > 0 THEN lo + 1 ELSE 0
                  ELSE IF type = "split" THEN lo + 1 ELSE IF type = "testab" THEN lo ELSE 0
        BY <1>4, <1>6 DEF OnlyPageFirst
    <2>3. first \in Nat /\ first <= lo + 1
        BY <2>2
    <2>4. lo = 0 \/ lo < first \/ (type = "testab" /\ ~(Cardinality(bounds) > 1))
        BY <2>2
    <2> QED
        BY <1>1, <2>1, <2>3, <2>4
<1> QED
    BY <1>5, <1>6

\* The pages of a batch: records whose ranges do not meet, above lo unless it is
\* zero, and together hold every contact of the interval.
LEMMA BatchIs ==
    ASSUME campaign.contacts \in Nat, NEW message, NEW spread,
           NEW lo \in Nat, NEW hi \in 0..campaign.contacts,
           campaign.type \notin {"split", "testab"} => lo = 0
    PROVE  LET top == IntervalEnd(campaign.contacts, hi)
               pages == Batch(message, spread, lo, hi)
           IN  /\ \A j \in pages : /\ j.first \in Nat /\ j.last \in Nat
                                   /\ j.first <= j.last /\ j.last <= top
                                   /\ lo = 0 \/ lo < j.first \/ SeamPage(j)
               /\ \A j, k \in pages : j = k \/ j.last < k.first \/ k.last < j.first
               /\ \A n \in (lo + 1)..top : \E j \in pages : j.first <= n /\ n <= j.last
<1> DEFINE top    == IntervalEnd(campaign.contacts, hi)
           limit  == GetLimit(campaign.contacts, spread)
           bounds == Boundaries(campaign.contacts, limit, lo, hi)
           pages  == Batch(message, spread, lo, hi)
           first(b) == PageFirst(campaign.type, bounds, b, lo)
           page(b) == [message |-> message,
                       page    |-> Cardinality({x \in bounds : x >= b}),
                       total   |-> Cardinality(bounds),
                       first   |-> first(b),
                       last    |-> b]
<1>1. pages = {page(b) : b \in bounds}
    BY DEF Batch
<1>2. \A b : page(b).first = first(b) /\ page(b).last = b /\ page(b).total = Cardinality(bounds)
    OBVIOUS
<1>3. top \in Nat /\ bounds \in SUBSET ((lo + 1)..top) /\ (lo < top => top \in bounds)
    <2>1. top \in Nat
        BY DEF IntervalEnd
    <2> HIDE DEF limit
    <2> QED
        BY <2>1, BoundariesAre
<1> HIDE DEF top, bounds, pages, page
<1>4. ASSUME NEW b \in bounds
      PROVE  /\ first(b) \in Nat /\ first(b) <= b
             /\ \A c \in bounds : c < b => c < first(b)
             /\ \A n \in (lo + 1)..b : (\A c \in bounds : c < b => c < n) => first(b) <= n
             /\ \/ lo = 0 \/ lo < first(b)
                \/ campaign.type = "testab" /\ ~(Cardinality(bounds) > 1)
    BY <1>3, PageStarts
<1> HIDE DEF first
<1>5. bounds \subseteq Nat /\ IsFiniteSet(bounds) /\ \A b \in bounds : b \in Nat /\ lo < b /\ b <= top
    <2>1. bounds \in SUBSET Nat /\ \A b \in bounds : b \in Nat /\ lo < b /\ b <= top
        BY <1>3
    <2> QED
        BY <1>3, <2>1, FS_BoundedSetOfNaturals
<1>6. bounds # {} /\ ~(Cardinality(bounds) > 1) => Cardinality(bounds) = 1
    <2>1. Cardinality(bounds) \in Nat /\ (Cardinality(bounds) = 0 <=> bounds = {})
        BY <1>5, FS_CardinalityType, FS_EmptySet
    <2> QED
        BY <2>1
<1>7. ASSUME NEW j \in pages
      PROVE  /\ j.first \in Nat /\ j.last \in Nat
             /\ j.first <= j.last /\ j.last <= top
             /\ lo = 0 \/ lo < j.first \/ SeamPage(j)
    <2>1. PICK b \in bounds : j = page(b)
        BY <1>1
    <2>2. j.first = first(b) /\ j.last = b /\ j.total = Cardinality(bounds)
        BY <1>2, <2>1
    <2>3. j.first \in Nat /\ j.first <= j.last /\ j.last \in Nat /\ j.last <= top
        BY <1>4, <1>5, <2>2
    <2>4. campaign.type = "testab" /\ ~(Cardinality(bounds) > 1) => SeamPage(j)
        BY <1>6, <2>2 DEF SeamPage
    <2> QED
        BY <1>4, <2>2, <2>3, <2>4
<1>8. ASSUME NEW j \in pages, NEW k \in pages
      PROVE  j = k \/ j.last < k.first \/ k.last < j.first
    <2>1. PICK b \in bounds : j = page(b)
        BY <1>1
    <2>2. PICK c \in bounds : k = page(c)
        BY <1>1
    <2>3. j.first = first(b) /\ j.last = b /\ k.first = first(c) /\ k.last = c
        BY <1>2, <2>1, <2>2
    <2>4. b = c \/ b < c \/ c < b
        BY <1>5
    <2> QED
        BY <1>4, <2>1, <2>2, <2>3, <2>4
<1>9. ASSUME NEW n \in (lo + 1)..top
      PROVE  \E j \in pages : j.first <= n /\ n <= j.last
    <2> DEFINE above == {x \in bounds : n <= x}
    <2>1. n \in Nat /\ lo < n /\ n <= top /\ top \in above
        BY <1>3
    <2>2. above \in SUBSET Nat /\ \A x \in above : x <= top
        BY <1>5
    <2>3. PICK b \in above : \A y \in above : b <= y
        <3> HIDE DEF above
        <3> QED
            BY <1>3, <2>1, <2>2, LeastFrom
    <2>4. b \in bounds /\ n <= b /\ \A c \in bounds : c < b => c < n
        BY <1>5, <2>1, <2>3
    <2>5. n \in (lo + 1)..b
        BY <1>5, <2>1, <2>4
    <2>6. first(b) <= n
        BY <1>4, <2>4, <2>5
    <2> QED
        BY <1>1, <1>2, <2>4, <2>6
<1> QED
    BY <1>7, <1>8, <1>9 DEF top, pages

(***************************************************************************)
(* The inductive invariant: the pages queued so far lie apart, those of    *)
(* the test groups above the groups still to come, and leave no gap.       *)
(***************************************************************************)

Share == TestedShare(campaign.contacts, campaign.percent)

Reached(n) == \E j \in jobs : n \in Addressed(j)

TypesOK ==
    /\ campaign \in Campaigns
    /\ stage \in {"test", "groups", "result", "trigger", "batches", "sent", "over", "failed"}
    /\ ends \subseteq 1..Share
    /\ processed \subseteq jobs
    /\ \A j \in jobs : j.first \in Nat /\ j.last \in Nat /\ j.first <= j.last

Apart ==
    \A j, k \in jobs : \/ j = k \/ SeamPage(j) \/ SeamPage(k)
                       \/ j.last < k.first \/ k.last < j.first

Plan ==
    /\ stage \in {"test", "groups"} => campaign.type # "simple"
    /\ stage \in {"result", "trigger", "batches"} => campaign.type # "split"
    /\ stage = "test" => jobs = {}
    /\ stage = "groups" =>
          /\ ends # {}
          /\ \A j \in jobs : j.last <= Share /\ \A e \in ends : SeamPage(j) \/ e < j.first
    /\ stage \in {"result", "trigger", "batches"} =>
          IF campaign.type = "simple" THEN jobs = {}
          ELSE testabLastId = Share /\ \A j \in jobs : j.last <= Share

NoGap ==
    /\ stage = "groups" => \A n \in 1..Share : (\A e \in ends : e < n) => Reached(n)
    /\ stage \in {"result", "trigger", "batches"} /\ campaign.type # "simple" =>
          \A n \in 1..Share : Reached(n)
    /\ stage = "sent" => \A n \in 1..campaign.contacts : Reached(n)

PagingInv == TypesOK /\ Apart /\ Plan /\ NoGap

\* What is known of a campaign's row.
LEMMA CampaignIs ==
    ASSUME campaign \in Campaigns
    PROVE  /\ campaign.type \in {"simple", "split", "testab"}
           /\ campaign.type = "split" => campaign.percent = 100
           /\ campaign.contacts \in Nat /\ campaign.contacts >= 1
           /\ campaign.percent \in Nat
<1>1. /\ campaign.type \in Types
      /\ campaign.type = "split" => campaign.percent = 100
      /\ campaign.contacts \in 1..MaxContacts
      /\ campaign.percent \in Percents
    BY DEF Campaigns
<1>2. campaign.contacts \in Nat /\ campaign.contacts >= 1
    BY <1>1, PagingAssumption
<1>3. campaign.percent \in Nat
    <2>1. Percents \subseteq 1..100
        BY PagingAssumption
    <2>2. campaign.percent \in 1..100
        BY <1>1, <2>1
    <2> QED
        BY <2>2
<1> QED
    BY <1>1, <1>2, <1>3, PagingAssumption

\* The tested share is at least one contact, and for a split campaign everyone.
LEMMA ShareIs ==
    ASSUME campaign \in Campaigns
    PROVE  /\ campaign.contacts \in Nat \ {0}
           /\ Share \in 1..campaign.contacts
           /\ campaign.percent = 100 => Share = campaign.contacts
<1> DEFINE C == campaign.contacts
           P == campaign.percent
           tested == {n \in 1..C : 100 * (n - 1) <= P * (C - 1)}
<1>1. C \in Nat /\ C >= 1 /\ P \in Nat
    BY CampaignIs
<1>2. Share = Cardinality(tested)
    BY DEF Share, TestedShare
<1>3. 1 \in tested
    <2>1. P * (C - 1) \in Nat
        <3> HIDE DEF C, P
        <3>1. C - 1 \in Nat
            BY <1>1
        <3> QED
            BY <1>1, <3>1
    <2> QED
        BY <1>1, <2>1
<1>4. tested \subseteq 1..C
    OBVIOUS
<1>5. P = 100 => tested = 1..C
    BY <1>1
<1> HIDE DEF C, P, tested
<1>6. IsFiniteSet(1..C) /\ Cardinality(1..C) = C
    BY <1>1, FS_Interval
<1>7. IsFiniteSet(tested) /\ Cardinality(tested) \in Nat /\ Cardinality(tested) <= C
    BY <1>4, <1>6, FS_Subset, FS_CardinalityType
<1>8. Cardinality(tested) # 0
    BY <1>3, <1>7, FS_EmptySet
<1> QED
    BY <1>1, <1>2, <1>5, <1>6, <1>7, <1>8 DEF C, P

\* The pages a createBatches call adds, above lo and up to hi: apart from each
\* other, and with no gap.
LEMMA NewPages ==
    ASSUME campaign \in Campaigns, NEW message, NEW spread,
           NEW lo \in Nat, NEW hi \in 0..campaign.contacts,
           campaign.type = "simple" => lo = 0
    PROVE  LET top == IntervalEnd(campaign.contacts, hi)
               pages == Batch(message, spread, lo, hi)
           IN  /\ \A j \in pages : /\ j.first \in Nat /\ j.last \in Nat
                                   /\ j.first <= j.last /\ j.last <= top
                                   /\ lo = 0 \/ lo < j.first \/ SeamPage(j)
               /\ \A j, k \in pages : j = k \/ j.last < k.first \/ k.last < j.first
               /\ \A n \in (lo + 1)..top : \E j \in pages : n \in Addressed(j)
<1>1. campaign.contacts \in Nat /\ (campaign.type \notin {"split", "testab"} => lo = 0)
    BY CampaignIs
<1> DEFINE top == IntervalEnd(campaign.contacts, hi)
           pages == Batch(message, spread, lo, hi)
<1>2. /\ \A j \in pages : /\ j.first \in Nat /\ j.last \in Nat
                          /\ j.first <= j.last /\ j.last <= top
                          /\ lo = 0 \/ lo < j.first \/ SeamPage(j)
      /\ \A j, k \in pages : j = k \/ j.last < k.first \/ k.last < j.first
      /\ \A n \in (lo + 1)..top : \E j \in pages : j.first <= n /\ n <= j.last
    BY <1>1, BatchIs
<1>3. (lo + 1)..top \subseteq 1..campaign.contacts
    BY <1>1 DEF IntervalEnd
<1> HIDE DEF top, pages
<1>4. \A n \in (lo + 1)..top : \E j \in pages : n \in Addressed(j)
    BY <1>2, <1>3 DEF Addressed
<1> QED
    BY <1>2, <1>4 DEF top, pages

\* The groups end within the tested share, the last of them with it.
LEMMA GroupEndsAre ==
    ASSUME NEW share \in Nat, share >= 1, NEW messages
    PROVE  GroupEnds(share, messages) \subseteq 1..share /\ share \in GroupEnds(share, messages)
<1> DEFINE size == GroupSize(share, messages)
<1> HIDE DEF size
<1>1. GroupEnds(share, messages) =
          {n \in 1..share : (n % size = 0 /\ n < messages * size) \/ n = share}
    BY DEF GroupEnds, size
<1> QED
    BY <1>1

\* The group BatchGroup takes ends at the highest end left, and starts above the
\* next one.
LEMMA TopGroup ==
    ASSUME NEW share \in Nat, NEW S \in SUBSET (1..share), S # {}
    PROVE  LET top == Max(S)
               next == IF S = {top} THEN 0 ELSE Max(S \ {top})
           IN  /\ top \in S /\ next \in Nat
               /\ \A e \in S : e <= top
               /\ \A e \in S \ {top} : 0 < next /\ next \in S \ {top} /\ e <= next
               /\ S \ {top} = {} => next = 0
<1> DEFINE top == Max(S)
           rest == S \ {top}
           next == IF S = {top} THEN 0 ELSE Max(rest)
<1>1. S \in SUBSET Nat /\ \A e \in S : e \in Nat /\ 0 < e /\ e <= share
    OBVIOUS
<1>2. top \in S /\ \A e \in S : e <= top
    BY <1>1, MaxIs
<1> HIDE DEF top
<1>3. rest = {} <=> S = {top}
    BY <1>2
<1>4. ASSUME rest # {} PROVE next \in rest /\ \A e \in rest : e <= next
    <2>1. rest \in SUBSET Nat /\ \A e \in rest : e <= share
        BY <1>1
    <2>2. next = Max(rest)
        BY <1>3, <1>4
    <2> HIDE DEF rest, next
    <2> QED
        BY <1>4, <2>1, <2>2, MaxIs
<1>5. rest = {} => next = 0
    BY <1>3
<1>6. rest \subseteq S
    OBVIOUS
<1> HIDE DEF next, rest
<1>7. /\ next \in Nat
      /\ \A e \in rest : 0 < next /\ next \in rest /\ e <= next
    <2>1. CASE rest = {}
        BY <1>5, <2>1
    <2>2. CASE rest # {}
        <3>1. next \in rest /\ \A e \in rest : e <= next
            BY <1>4, <2>2
        <3>2. next \in S
            BY <1>6, <3>1
        <3>3. next \in Nat /\ 0 < next
            BY <1>1, <3>2
        <3> QED
            BY <3>1, <3>2, <3>3
    <2> QED
        BY <2>1, <2>2
<1> QED
    BY <1>2, <1>5, <1>7 DEF top, next, rest

\* What a step leaves alone, and what that means for the invariant's parts.
LEMMA SameCampaign ==
    ASSUME campaign' = campaign
    PROVE  /\ Share' = Share
           /\ \A j : SeamPage(j)' = SeamPage(j) /\ Addressed(j)' = Addressed(j)
           /\ \A n : Reached(n)' <=> \E j \in jobs' : n \in Addressed(j)
BY DEF Share, SeamPage, Addressed, Reached

\* At first no page has been planned.
LEMMA PagingInit == Init => PagingInv
<1> SUFFICES ASSUME Init PROVE PagingInv
    OBVIOUS
<1>1. TypesOK
    BY DEF Init, TypesOK
<1>2. Apart
    BY DEF Init, Apart
<1>3. Plan
    BY CampaignIs DEF Init, Plan
<1>4. NoGap
    BY DEF Init, NoGap
<1> QED
    BY <1>1, <1>2, <1>3, <1>4 DEF PagingInv

\* The steps that queue no page.
LEMMA QuietStep ==
    ASSUME PagingInv,
           \/ Trigger \/ StartTest \/ ProcessResult
           \/ \E j \in jobs : ProcessPage(j)
           \/ UNCHANGED vars
    PROVE  PagingInv'
<1>1. campaign' = campaign /\ jobs' = jobs
    BY DEF Trigger, StartTest, ProcessResult, ProcessPage, vars
<1>2. /\ Share' = Share
      /\ \A j : SeamPage(j)' = SeamPage(j)
      /\ \A n : Reached(n)' <=> Reached(n)
    BY <1>1, SameCampaign DEF Reached
<1>3. Apart'
    BY <1>1, <1>2 DEF PagingInv, Apart
<1>4. CASE Trigger
    <2>1. TypesOK' /\ Plan' /\ NoGap'
        BY <1>1, <1>2, <1>4 DEF Trigger, PagingInv, TypesOK, Plan, NoGap
    <2> QED
        BY <1>3, <2>1 DEF PagingInv
<1>5. CASE StartTest
    <2>1. CASE stage' = "failed" /\ UNCHANGED <<ends, testabLastId, processed>>
        BY <1>1, <1>2, <1>3, <2>1 DEF PagingInv, TypesOK, Plan, NoGap
    <2>2. CASE /\ stage' = "groups" /\ UNCHANGED <<testabLastId, processed>>
               /\ ends' = GroupEnds(Share, campaign.messages)
        <3>1. Share \in Nat /\ Share >= 1
            BY ShareIs DEF PagingInv, TypesOK
        <3>2. ends' \subseteq 1..Share /\ Share \in ends'
            BY <2>2, <3>1, GroupEndsAre
        <3>3. jobs = {} /\ campaign.type # "simple"
            BY <1>5 DEF StartTest, PagingInv, Plan
        <3>4. TypesOK'
            BY <1>1, <1>2, <2>2, <3>2 DEF PagingInv, TypesOK
        <3>5. Plan'
            BY <1>1, <2>2, <3>2, <3>3 DEF Plan
        <3>6. NoGap'
            <4>1. ASSUME NEW n \in 1..Share, \A e \in ends' : e < n PROVE FALSE
                BY <3>1, <3>2, <4>1
            <4> QED
                BY <1>2, <2>2, <4>1 DEF NoGap
        <3> QED
            BY <1>3, <3>4, <3>5, <3>6 DEF PagingInv
    <2> QED
        BY <1>5, <2>1, <2>2 DEF StartTest, Share
<1>6. CASE ProcessResult
    <2>1. TypesOK' /\ Plan' /\ NoGap'
        BY <1>1, <1>2, <1>6 DEF ProcessResult, PagingInv, TypesOK, Plan, NoGap
    <2> QED
        BY <1>3, <2>1 DEF PagingInv
<1>7. CASE \E j \in jobs : ProcessPage(j)
    <2>1. TypesOK' /\ Plan' /\ NoGap'
        BY <1>1, <1>2, <1>7 DEF ProcessPage, PagingInv, TypesOK, Plan, NoGap
    <2> QED
        BY <1>3, <2>1 DEF PagingInv
<1>8. CASE UNCHANGED vars
    <2>1. TypesOK' /\ Plan' /\ NoGap'
        BY <1>1, <1>2, <1>8 DEF vars, PagingInv, TypesOK, Plan, NoGap
    <2> QED
        BY <1>3, <2>1 DEF PagingInv
<1> QED
    BY <1>4, <1>5, <1>6, <1>7, <1>8

\* BatchGroup: the pages of the top group lie below those queued before and above
\* the groups to come.
LEMMA BatchGroupStep ==
    ASSUME PagingInv, BatchGroup
    PROVE  PagingInv'
<1> DEFINE top   == Max(ends)
           rest  == ends \ {top}
           next  == IF ends = {top} THEN 0 ELSE Max(rest)
           message == Cardinality({j.message : j \in jobs}) + 1
           pages == Batch(message, campaign.testSpread, next, top)
<1>1. /\ stage = "groups" /\ jobs' = jobs \cup pages /\ ends' = rest
      /\ campaign' = campaign /\ processed' = processed
      /\ \/ ends' # {} /\ UNCHANGED <<stage, testabLastId>>
         \/ /\ ends' = {} /\ testabLastId' = Share
            /\ stage' = IF campaign.type = "split" THEN "sent" ELSE "result"
    BY DEF BatchGroup, Share
<1>2. /\ Share' = Share
      /\ \A j : SeamPage(j)' = SeamPage(j)
      /\ \A n : Reached(n)' <=> \E j \in jobs' : n \in Addressed(j)
    BY <1>1, SameCampaign
<1>3. /\ campaign \in Campaigns /\ campaign.contacts \in Nat
      /\ Share \in Nat /\ Share >= 1 /\ Share <= campaign.contacts
      /\ campaign.type = "split" => Share = campaign.contacts
      /\ campaign.type \in {"simple", "split", "testab"} /\ campaign.type # "simple"
    BY <1>1, ShareIs, CampaignIs DEF PagingInv, TypesOK, Plan
<1>4. ends \in SUBSET (1..Share) /\ ends # {}
    BY <1>1 DEF PagingInv, TypesOK, Plan
<1>5. /\ top \in ends /\ next \in Nat
      /\ \A e \in ends : e <= top
      /\ \A e \in rest : 0 < next /\ next \in rest /\ e <= next
      /\ rest = {} => next = 0
    BY <1>3, <1>4, TopGroup
<1> HIDE DEF top, next, message
<1>6. top \in Nat /\ 1 <= top /\ top <= Share /\ top \in 0..campaign.contacts
      /\ IntervalEnd(campaign.contacts, top) = top
    BY <1>3, <1>4, <1>5 DEF IntervalEnd
<1>7. /\ \A j \in pages : /\ j.first \in Nat /\ j.last \in Nat
                          /\ j.first <= j.last /\ j.last <= top
                          /\ next = 0 \/ next < j.first \/ SeamPage(j)
      /\ \A j, k \in pages : j = k \/ j.last < k.first \/ k.last < j.first
      /\ \A n \in (next + 1)..top : \E j \in pages : n \in Addressed(j)
    <2> HIDE DEF pages
    <2>1. pages = Batch(message, campaign.testSpread, next, top)
        BY DEF pages
    <2>2. /\ \A j \in pages : /\ j.first \in Nat /\ j.last \in Nat
                              /\ j.first <= j.last
                              /\ j.last <= IntervalEnd(campaign.contacts, top)
                              /\ next = 0 \/ next < j.first \/ SeamPage(j)
          /\ \A j, k \in pages : j = k \/ j.last < k.first \/ k.last < j.first
          /\ \A n \in (next + 1)..IntervalEnd(campaign.contacts, top) :
                \E j \in pages : n \in Addressed(j)
        BY <1>3, <1>5, <1>6, <2>1, NewPages
    <2> QED
        BY <1>6, <2>2
<1>8. \A j \in jobs : /\ j.first \in Nat /\ j.last \in Nat /\ j.first <= j.last
                      /\ j.last <= Share /\ \A e \in ends : SeamPage(j) \/ e < j.first
    BY <1>1 DEF PagingInv, TypesOK, Plan
<1> HIDE DEF pages
<1>9. TypesOK'
    <2>1. \A j \in jobs' : j.first \in Nat /\ j.last \in Nat /\ j.first <= j.last
        BY <1>1, <1>7, <1>8
    <2> QED
        BY <1>1, <1>2, <2>1 DEF PagingInv, TypesOK
<1>10. Apart'
    <2>1. ASSUME NEW j \in jobs, NEW k \in pages
          PROVE  SeamPage(j) \/ k.last < j.first
        <3>1. SeamPage(j) \/ top < j.first
            BY <1>5, <1>8
        <3>2. k.last \in Nat /\ k.last <= top /\ j.first \in Nat
            BY <1>7, <1>8
        <3> QED
            BY <1>6, <3>1, <3>2
    <2>2. \A j, k \in jobs : \/ j = k \/ SeamPage(j) \/ SeamPage(k)
                             \/ j.last < k.first \/ k.last < j.first
        BY DEF PagingInv, Apart
    <2>3. \A j, k \in jobs' : \/ j = k \/ SeamPage(j) \/ SeamPage(k)
                              \/ j.last < k.first \/ k.last < j.first
        BY <1>1, <1>7, <2>1, <2>2
    <2> QED
        BY <1>2, <2>3 DEF Apart
<1>11. \A j \in jobs' : j.last <= Share
    <2>1. \A j \in pages : j.last <= Share
        BY <1>3, <1>6, <1>7
    <2> QED
        BY <1>1, <1>8, <2>1
<1>12. Plan'
    <2>1. ASSUME NEW j \in jobs', NEW e \in rest
          PROVE  SeamPage(j) \/ e < j.first
        <3>1. CASE j \in jobs
            BY <1>8, <3>1
        <3>2. CASE j \in pages
            <4>1. 0 < next /\ e <= next /\ e \in Nat
                BY <1>4, <1>5
            <4> QED
                BY <1>5, <1>7, <3>2, <4>1
        <3> QED
            BY <1>1, <3>1, <3>2
    <2>2. CASE ends' # {} /\ UNCHANGED <<stage, testabLastId>>
        BY <1>1, <1>2, <1>3, <1>11, <2>1, <2>2 DEF Plan
    <2>3. CASE /\ ends' = {} /\ testabLastId' = Share
               /\ stage' = IF campaign.type = "split" THEN "sent" ELSE "result"
        BY <1>1, <1>2, <1>3, <1>11, <2>3 DEF Plan
    <2> QED
        BY <1>1, <2>2, <2>3
<1>13. ASSUME NEW n \in 1..Share, \A e \in rest : e < n
       PROVE  \E j \in jobs' : n \in Addressed(j)
    <2>1. CASE n <= top
        <3>1. next < n
            <4>1. CASE rest = {}
                BY <1>5, <4>1
            <4>2. CASE rest # {}
                <5>1. next \in rest
                    BY <1>5, <4>2
                <5> QED
                    BY <1>13, <5>1
            <4> QED
                BY <4>1, <4>2
        <3>2. n \in (next + 1)..top
            BY <1>5, <1>6, <2>1, <3>1
        <3> QED
            BY <1>1, <1>7, <3>2
    <2>2. CASE top < n
        <3>1. \A e \in ends : e < n
            BY <1>4, <1>5, <1>6, <2>2
        <3>2. Reached(n)
            BY <1>1, <3>1 DEF PagingInv, NoGap
        <3> QED
            BY <1>1, <3>2 DEF Reached
    <2> QED
        BY <1>6, <2>1, <2>2
<1>14. NoGap'
    <2>1. CASE ends' # {} /\ UNCHANGED <<stage, testabLastId>>
        BY <1>1, <1>2, <1>13, <2>1 DEF NoGap
    <2>2. CASE /\ ends' = {} /\ testabLastId' = Share
               /\ stage' = IF campaign.type = "split" THEN "sent" ELSE "result"
        <3>1. \A n \in 1..Share : Reached(n)'
            BY <1>1, <1>2, <1>13, <2>2
        <3> QED
            BY <1>1, <1>2, <1>3, <2>2, <3>1 DEF NoGap
    <2> QED
        BY <1>1, <2>1, <2>2
<1> QED
    BY <1>9, <1>10, <1>12, <1>14 DEF PagingInv

\* CreateBatches: the pages of a simple campaign are its first, those of a winner
\* lie above the tested share.
LEMMA CreateBatchesStep ==
    ASSUME PagingInv, CreateBatches
    PROVE  PagingInv'
<1> DEFINE lo    == IF campaign.type = "simple" THEN 0 ELSE testabLastId
           C     == campaign.contacts
           pages == Batch(0, campaign.spread, lo, 0)
<1>1. /\ stage = "batches" /\ stage' = "sent" /\ jobs' = jobs \cup pages
      /\ UNCHANGED <<campaign, ends, testabLastId, processed>>
    BY DEF CreateBatches
<1>2. /\ Share' = Share
      /\ \A j : SeamPage(j)' = SeamPage(j)
      /\ \A n : Reached(n)' <=> \E j \in jobs' : n \in Addressed(j)
    BY <1>1, SameCampaign
<1>3. /\ campaign \in Campaigns /\ C \in Nat
      /\ Share \in Nat /\ Share >= 1 /\ Share <= C
      /\ IntervalEnd(C, 0) = C
    BY ShareIs, CampaignIs DEF PagingInv, TypesOK, IntervalEnd
<1>4. \/ campaign.type = "simple" /\ lo = 0 /\ jobs = {}
      \/ campaign.type # "simple" /\ lo = Share /\ \A j \in jobs : j.last <= Share
    BY <1>1 DEF PagingInv, Plan
<1> HIDE DEF lo
<1>5. /\ \A j \in pages : /\ j.first \in Nat /\ j.last \in Nat /\ j.first <= j.last
                          /\ lo = 0 \/ lo < j.first \/ SeamPage(j)
      /\ \A j, k \in pages : j = k \/ j.last < k.first \/ k.last < j.first
      /\ \A n \in (lo + 1)..C : \E j \in pages : n \in Addressed(j)
    <2> HIDE DEF pages
    <2>1. pages = Batch(0, campaign.spread, lo, 0)
        BY DEF pages
    <2>2. lo \in Nat /\ 0 \in 0..C /\ (campaign.type = "simple" => lo = 0)
        BY <1>3, <1>4
    <2>3. /\ \A j \in pages : /\ j.first \in Nat /\ j.last \in Nat
                              /\ j.first <= j.last /\ j.last <= IntervalEnd(C, 0)
                              /\ lo = 0 \/ lo < j.first \/ SeamPage(j)
          /\ \A j, k \in pages : j = k \/ j.last < k.first \/ k.last < j.first
          /\ \A n \in (lo + 1)..IntervalEnd(C, 0) : \E j \in pages : n \in Addressed(j)
        BY <1>3, <2>1, <2>2, NewPages
    <2> QED
        BY <1>3, <2>3
<1> HIDE DEF pages, C
<1>6. TypesOK'
    <2>1. \A j \in jobs' : j.first \in Nat /\ j.last \in Nat /\ j.first <= j.last
        BY <1>1, <1>5 DEF PagingInv, TypesOK
    <2> QED
        BY <1>1, <1>2, <2>1 DEF PagingInv, TypesOK
<1>7. Apart'
    <2>1. ASSUME NEW j \in jobs, NEW k \in pages
          PROVE  SeamPage(k) \/ j.last < k.first
        <3>1. lo = Share /\ j.last <= Share
            BY <1>4, <2>1
        <3>2. j.last \in Nat /\ k.first \in Nat
            BY <1>5 DEF PagingInv, TypesOK
        <3>3. lo < k.first \/ SeamPage(k)
            BY <1>3, <1>5, <3>1
        <3> QED
            BY <1>3, <3>1, <3>2, <3>3
    <2>2. \A j, k \in jobs : \/ j = k \/ SeamPage(j) \/ SeamPage(k)
                             \/ j.last < k.first \/ k.last < j.first
        BY DEF PagingInv, Apart
    <2>3. \A j, k \in jobs' : \/ j = k \/ SeamPage(j) \/ SeamPage(k)
                              \/ j.last < k.first \/ k.last < j.first
        BY <1>1, <1>5, <2>1, <2>2
    <2> QED
        BY <1>2, <2>3 DEF Apart
<1>8. Plan'
    BY <1>1 DEF Plan
<1>9. ASSUME NEW n \in 1..C
      PROVE  \E j \in jobs' : n \in Addressed(j)
    <2>1. CASE lo < n
        <3>1. n \in (lo + 1)..C
            BY <1>3, <1>4, <2>1
        <3> QED
            BY <1>1, <1>5, <3>1
    <2>2. CASE ~(lo < n)
        <3>1. campaign.type # "simple" /\ n \in 1..Share
            BY <1>3, <1>4, <2>2
        <3>2. Reached(n)
            BY <1>1, <3>1 DEF PagingInv, NoGap
        <3> QED
            BY <1>1, <3>2 DEF Reached
    <2> QED
        BY <2>1, <2>2
<1>10. NoGap'
    BY <1>1, <1>2, <1>9 DEF NoGap, C
<1> QED
    BY <1>6, <1>7, <1>8, <1>10 DEF PagingInv

\* Paging keeps its pages apart and without a gap, in every reachable state.
THEOREM Paged == Spec => []PagingInv
<1>1. PagingInv /\ [Next]_vars => PagingInv'
    <2> SUFFICES ASSUME PagingInv, [Next]_vars PROVE PagingInv'
        OBVIOUS
    <2> QED
        BY QuietStep, BatchGroupStep, CreateBatchesStep DEF Next, Finished
<1> QED
    BY <1>1, PagingInit, PTL DEF Spec

\* No contact is in two packages of a campaign (seam pages aside).
THEOREM PagesNeverMeet == Spec => []OneMessageEach
<1>1. PagingInv => OneMessageEach
    <2> SUFFICES ASSUME PagingInv, NEW n \in 1..campaign.contacts
                 PROVE  Cardinality({j \in Packages(n) : ~SeamPage(j)}) <= 1
        BY DEF OneMessageEach
    <2>1. n \in Nat
        OBVIOUS
    <2>2. ASSUME NEW j \in Packages(n), NEW k \in Packages(n), ~SeamPage(j), ~SeamPage(k)
          PROVE  j = k
        <3>1. j \in jobs /\ k \in jobs
            BY DEF Packages, PagingInv, TypesOK
        <3>2. j.first <= n /\ n <= j.last /\ k.first <= n /\ n <= k.last
            BY DEF Packages, Addressed
        <3>3. j.first \in Nat /\ j.last \in Nat /\ k.first \in Nat /\ k.last \in Nat
            BY <3>1 DEF PagingInv, TypesOK
        <3>4. j = k \/ j.last < k.first \/ k.last < j.first
            BY <2>2, <3>1 DEF PagingInv, Apart
        <3> QED
            BY <2>1, <3>2, <3>3, <3>4
    <2> QED
        BY <2>2, AtMostOne
<1> QED
    BY <1>1, Paged, PTL

\* Once the plan is carried out, every contact was in a package.
THEOREM PagesReachAll == Spec => []NobodySkipped
<1>1. PagingInv => NobodySkipped
    <2> SUFFICES ASSUME PagingInv, stage = "sent", processed = jobs,
                        NEW n \in 1..campaign.contacts
                 PROVE  Packages(n) # {}
        BY DEF NobodySkipped
    <2> QED
        BY DEF PagingInv, NoGap, Reached, Packages
<1> QED
    BY <1>1, Paged, PTL

(***************************************************************************)
(* No package is larger than the limit.                                    *)
(***************************************************************************)

\* Among any m numbers in a row one is a multiple of m.
LEMMA MultipleAbove ==
    ASSUME NEW a \in Nat, NEW m \in Nat \ {0}
    PROVE  \E k \in (a + 1)..(a + m) : k % m = 0
<1> DEFINE q == a \div m
           k == (m * q) + m
<1>1. a % m \in 0..(m - 1) /\ q \in Nat /\ a = (m * q) + (a % m)
    OBVIOUS
<1>2. m * q \in Nat
    BY <1>1
<1>3. k % m = 0
    <2>1. k = m * (q + 1)
        BY <1>1
    <2> QED
        BY <1>1, <2>1
<1> QED
    BY <1>1, <1>2, <1>3

\* The page size is positive, and within LIMIT_CONTACT_BATCH.
LEMMA LimitIs ==
    ASSUME NEW contacts \in Nat, NEW spread \in Nat
    PROVE  GetLimit(contacts, spread) \in 1..BatchLimit
<1>1. BatchLimit \in Nat \ {0}
    BY PagingAssumption
<1>2. spread > 0 => CeilDiv(contacts, spread) \in Int
    BY DEF CeilDiv
<1> QED
    BY <1>1, <1>2 DEF GetLimit

\* A page that is not a seam page spans at most limit contacts: a longer one would
\* have a boundary inside.
LEMMA PageSpan ==
    ASSUME NEW contacts \in Nat, NEW type, NEW limit \in Nat \ {0},
           NEW lo \in Nat, NEW hi \in 0..contacts,
           NEW b \in Boundaries(contacts, limit, lo, hi),
           type \notin {"split", "testab"} => lo = 0
    PROVE  LET bounds == Boundaries(contacts, limit, lo, hi)
               first  == PageFirst(type, bounds, b, lo)
           IN  \/ type = "testab" /\ ~(Cardinality(bounds) > 1)
               \/ b < first + limit
               \/ b <= limit
<1> DEFINE top    == IntervalEnd(contacts, hi)
           rows   == {n \in 1..contacts : n > lo /\ (hi = 0 \/ n <= hi)}
           bounds == Boundaries(contacts, limit, lo, hi)
           lower  == {x \in bounds : x < b}
           first  == PageFirst(type, bounds, b, lo)
           start  == IF lower = {} THEN lo ELSE Max(lower)
<1>1. top \in Nat /\ bounds \in SUBSET ((lo + 1)..top) /\ top <= contacts
    <2>1. top \in Nat /\ top <= contacts
        BY DEF IntervalEnd
    <2> QED
        BY <2>1, BoundariesAre
<1>2. \A n \in (lo + 1)..top : (n - lo) % limit = 0 => n \in bounds
    <2>1. (lo + 1)..top \subseteq rows
        BY <1>1 DEF IntervalEnd
    <2> QED
        BY <2>1 DEF Boundaries
<1>3. first = IF lower # {} THEN Max(lower) + 1
              ELSE IF Cardinality(bounds) > 1 THEN IF lo > 0 THEN lo + 1 ELSE 0
              ELSE OnlyPageFirst(type, lo)
    BY DEF PageFirst
<1>4. b \in bounds /\ \A x : x \in lower <=> x \in bounds /\ x < b
    OBVIOUS
<1> SUFFICES \/ type = "testab" /\ ~(Cardinality(bounds) > 1)
             \/ b < first + limit
             \/ b <= limit
    OBVIOUS
<1> HIDE DEF top, rows, bounds, lower, first
<1>5. b \in Nat /\ lo < b /\ b <= top /\ \A x \in bounds : x \in Nat /\ lo < x
    BY <1>1, <1>4
<1>6. start \in Nat /\ lo <= start /\ \A x \in lower : x <= start
    <2>1. CASE lower = {}
        BY <2>1
    <2>2. CASE lower # {}
        <3>1. ASSUME NEW x \in lower PROVE x \in Nat /\ x <= b
            <4>1. x \in bounds /\ x < b
                BY <1>4
            <4> QED
                BY <1>5, <4>1
        <3>2. Max(lower) \in lower /\ \A x \in lower : x <= Max(lower)
            <4>1. lower \in SUBSET Nat
                BY <3>1
            <4> QED
                BY <1>5, <2>2, <3>1, <4>1, MaxIs
        <3>3. Max(lower) \in Nat /\ lo < Max(lower)
            BY <1>4, <1>5, <3>2
        <3> QED
            BY <2>2, <3>2, <3>3
    <2> QED
        BY <2>1, <2>2
<1> HIDE DEF start
<1>7. b <= start + limit
    <2> SUFFICES ASSUME start + limit < b PROVE FALSE
        BY <1>5, <1>6
    <2>1. PICK k \in (start - lo + 1)..(start - lo + limit) : k % limit = 0
        <3>1. start - lo \in Nat
            BY <1>6
        <3> QED
            BY <3>1, MultipleAbove
    <2> DEFINE n == lo + k
    <2>2. k \in Int /\ n \in (lo + 1)..top /\ start < n /\ n < b /\ n - lo = k
        BY <1>1, <1>5, <1>6
    <2> HIDE DEF n
    <2>3. n \in lower
        BY <1>2, <1>4, <2>1, <2>2
    <2>4. n <= start /\ n \in Int
        BY <1>6, <2>2, <2>3
    <2> QED
        BY <1>6, <2>2, <2>4
<1>8. CASE lower # {}
    <2>1. first = start + 1
        BY <1>3, <1>8 DEF start
    <2> QED
        BY <1>5, <1>6, <1>7, <2>1
<1>9. CASE lower = {}
    <2>1. start = lo
        BY <1>9 DEF start
    <2>2. first = IF Cardinality(bounds) > 1 THEN IF lo > 0 THEN lo + 1 ELSE 0
                  ELSE IF type = "split" THEN lo + 1 ELSE IF type = "testab" THEN lo ELSE 0
        BY <1>3, <1>9 DEF OnlyPageFirst
    <2>3. \/ type = "testab" /\ ~(Cardinality(bounds) > 1)
          \/ first = lo + 1
          \/ lo = 0
        BY <2>2
    <2> QED
        BY <1>5, <1>7, <2>1, <2>3
<1> QED
    BY <1>8, <1>9

\* What a range of at most limit numbers, or one within the first limit, holds.
LEMMA RangeHolds ==
    ASSUME NEW first \in Nat, NEW last \in Nat, NEW limit \in Nat, NEW contacts \in Nat,
           last < first + limit \/ last <= limit
    PROVE  Cardinality({n \in 1..contacts : first <= n /\ n <= last}) <= limit
<1> DEFINE held == {n \in 1..contacts : first <= n /\ n <= last}
           low  == IF last <= limit THEN 1 ELSE first
<1>1. held \subseteq low..last
    OBVIOUS
<1>2. low \in Int /\ last < low + limit
    OBVIOUS
<1> HIDE DEF held, low
<1>3. IsFiniteSet(low..last) /\ Cardinality(low..last) <= limit
    <2>1. /\ IsFiniteSet(low..last)
          /\ Cardinality(low..last) = IF low > last THEN 0 ELSE last - low + 1
        BY <1>2, FS_Interval
    <2> QED
        BY <1>2, <2>1
<1>4. Cardinality(held) <= Cardinality(low..last) /\ Cardinality(held) \in Nat
    BY <1>1, <1>3, FS_Subset, FS_CardinalityType
<1>5. Cardinality(low..last) \in Nat
    BY <1>3, FS_CardinalityType
<1> QED
    BY <1>3, <1>4, <1>5 DEF held

Fits ==
    \A j \in jobs : SeamPage(j) \/ j.last < j.first + BatchLimit \/ j.last <= BatchLimit

\* The pages a createBatches call adds are within the limit.
LEMMA NewPagesFit ==
    ASSUME campaign \in Campaigns, NEW message, NEW spread \in Nat,
           NEW lo \in Nat, NEW hi \in 0..campaign.contacts,
           campaign.type = "simple" => lo = 0
    PROVE  \A j \in Batch(message, spread, lo, hi) :
               SeamPage(j) \/ j.last < j.first + BatchLimit \/ j.last <= BatchLimit
<1> DEFINE C      == campaign.contacts
           limit  == GetLimit(C, spread)
           bounds == Boundaries(C, limit, lo, hi)
<1>1. /\ C \in Nat /\ (campaign.type \notin {"split", "testab"} => lo = 0)
      /\ limit \in 1..BatchLimit /\ BatchLimit \in Nat
    BY CampaignIs, LimitIs, PagingAssumption
<1> SUFFICES ASSUME NEW j \in Batch(message, spread, lo, hi)
             PROVE  SeamPage(j) \/ j.last < j.first + BatchLimit \/ j.last <= BatchLimit
    OBVIOUS
<1>2. PICK b \in bounds : /\ j.first = PageFirst(campaign.type, bounds, b, lo)
                          /\ j.last = b /\ j.total = Cardinality(bounds)
    <2> DEFINE page(b) == [message |-> message,
                           page    |-> Cardinality({x \in bounds : x >= b}),
                           total   |-> Cardinality(bounds),
                           first   |-> PageFirst(campaign.type, bounds, b, lo),
                           last    |-> b]
    <2>1. j \in {page(b) : b \in bounds}
        BY DEF Batch
    <2>2. \A b : /\ page(b).first = PageFirst(campaign.type, bounds, b, lo)
                 /\ page(b).last = b /\ page(b).total = Cardinality(bounds)
        OBVIOUS
    <2> HIDE DEF page, bounds
    <2> QED
        BY <2>1, <2>2
<1> HIDE DEF limit
<1>3. \/ campaign.type = "testab" /\ ~(j.total > 1)
      \/ j.last < j.first + limit
      \/ j.last <= limit
    BY <1>1, <1>2, PageSpan
<1>4. j.first \in Nat /\ j.last \in Nat
    BY NewPages
<1>5. campaign.type = "testab" /\ ~(j.total > 1) => SeamPage(j)
    <2>1. bounds \in SUBSET ((lo + 1)..IntervalEnd(C, hi)) /\ IntervalEnd(C, hi) \in Nat
        BY <1>1, BoundariesAre DEF IntervalEnd
    <2> HIDE DEF bounds
    <2>2. IsFiniteSet(bounds)
        <3>1. bounds \in SUBSET Nat /\ \A x \in bounds : x <= IntervalEnd(C, hi)
            BY <2>1
        <3> QED
            BY <2>1, <3>1, FS_BoundedSetOfNaturals
    <2>3. j.total \in Nat /\ j.total # 0
        BY <1>2, <2>2, FS_CardinalityType, FS_EmptySet
    <2> QED
        BY <2>3 DEF SeamPage
<1> QED
    BY <1>1, <1>3, <1>4, <1>5

\* No package holds more than LIMIT_CONTACT_BATCH contacts, except on the only
\* page of an A/B batch.
THEOREM PagesFit == Spec => []PageFitsLimit
<1>1. Init => Fits
    BY DEF Init, Fits
<1>2. PagingInv /\ Fits /\ [Next]_vars => Fits'
    <2> SUFFICES ASSUME PagingInv, Fits, [Next]_vars PROVE Fits'
        OBVIOUS
    <2>1. campaign' = campaign
        BY DEF Next, vars, Trigger, StartTest, BatchGroup, ProcessResult, CreateBatches,
               ProcessPage, Finished
    <2>2. \A j : SeamPage(j)' = SeamPage(j)
        BY <2>1 DEF SeamPage
    <2>3. /\ campaign \in Campaigns /\ campaign.contacts \in Nat /\ Share \in Nat
          /\ Share <= campaign.contacts
          /\ campaign.spread \in Nat /\ campaign.testSpread \in Nat
        <3>1. campaign \in Campaigns
            BY DEF PagingInv, TypesOK
        <3>2. campaign.spread \in Spreads /\ campaign.testSpread \in Spreads
            BY <3>1 DEF Campaigns
        <3>3. Spreads \subseteq Nat
            BY PagingAssumption
        <3>4. /\ campaign.contacts \in Nat
              /\ Share \in Nat /\ Share <= campaign.contacts
            BY <3>1, ShareIs
        <3>5. campaign.spread \in Nat /\ campaign.testSpread \in Nat
            BY <3>2, <3>3
        <3> QED
            BY <3>1, <3>4, <3>5
    <2>4. CASE jobs' = jobs
        BY <2>2, <2>4 DEF Fits
    <2>5. CASE BatchGroup
        <3> DEFINE top  == Max(ends)
                   next == IF ends = {top} THEN 0 ELSE Max(ends \ {top})
        <3>1. PICK message : jobs' = jobs \cup Batch(message, campaign.testSpread, next, top)
            BY <2>5 DEF BatchGroup
        <3>2. /\ ends \in SUBSET (1..Share) /\ ends # {} /\ campaign.type # "simple"
            BY <2>5 DEF BatchGroup, PagingInv, TypesOK, Plan
        <3>3. next \in Nat /\ top \in ends
            BY <2>3, <3>2, TopGroup
        <3> HIDE DEF top, next
        <3>4. top \in 0..campaign.contacts
            BY <2>3, <3>2, <3>3
        <3>5. \A j \in Batch(message, campaign.testSpread, next, top) :
                  SeamPage(j) \/ j.last < j.first + BatchLimit \/ j.last <= BatchLimit
            BY <2>3, <3>2, <3>3, <3>4, NewPagesFit
        <3> QED
            BY <2>2, <3>1, <3>5 DEF Fits
    <2>6. CASE CreateBatches
        <3> DEFINE lo == IF campaign.type = "simple" THEN 0 ELSE testabLastId
        <3>1. jobs' = jobs \cup Batch(0, campaign.spread, lo, 0)
            BY <2>6 DEF CreateBatches
        <3>2. lo \in Nat /\ (campaign.type = "simple" => lo = 0)
            BY <2>3, <2>6 DEF CreateBatches, PagingInv, Plan
        <3> HIDE DEF lo
        <3>3. \A j \in Batch(0, campaign.spread, lo, 0) :
                  SeamPage(j) \/ j.last < j.first + BatchLimit \/ j.last <= BatchLimit
            BY <2>3, <3>2, NewPagesFit
        <3> QED
            BY <2>2, <3>1, <3>3 DEF Fits
    <2> QED
        BY <2>4, <2>5, <2>6 DEF Next, vars, Trigger, StartTest, ProcessResult, ProcessPage, Finished
<1>3. PagingInv /\ Fits => PageFitsLimit
    <2> SUFFICES ASSUME PagingInv, Fits, NEW j \in jobs, ~SeamPage(j)
                 PROVE  Cardinality(Addressed(j)) <= BatchLimit
        BY DEF PageFitsLimit
    <2>1. /\ j.first \in Nat /\ j.last \in Nat
          /\ j.last < j.first + BatchLimit \/ j.last <= BatchLimit
          /\ campaign.contacts \in Nat /\ BatchLimit \in Nat
        BY CampaignIs, PagingAssumption DEF PagingInv, TypesOK, Fits
    <2> QED
        BY <2>1, RangeHolds DEF Addressed
<1> QED
    BY <1>1, <1>2, <1>3, Paged, PTL DEF Spec

(***************************************************************************)
(* The numbers of the pages.                                               *)
(***************************************************************************)

\* Counting the members of a finite set of numbers from the greatest down gives
\* each a number of its own, and leaves out no number up to their count.
LEMMA RanksAre ==
    ASSUME NEW S \in SUBSET Nat, IsFiniteSet(S)
    PROVE  \A p \in 1..Cardinality(S) :
               \E b \in S : \A c \in S : Cardinality({x \in S : x >= c}) = p <=> c = b
<1> DEFINE atOrAbove(b) == {x \in S : x >= b}
           rank == [b \in S |-> Cardinality(atOrAbove(b))]
           N == Cardinality(S)
<1>1. N \in Nat /\ \A b \in S : b \in Nat
    BY FS_CardinalityType
<1>2. ASSUME NEW b \in S
      PROVE  /\ IsFiniteSet(atOrAbove(b)) /\ rank[b] \in 1..N
             /\ rank[b] = Cardinality(atOrAbove(b))
    <2>1. b \in atOrAbove(b) /\ atOrAbove(b) \in SUBSET S
        BY <1>1
    <2>2. rank[b] = Cardinality(atOrAbove(b))
        OBVIOUS
    <2> HIDE DEF atOrAbove, rank, N
    <2>3. IsFiniteSet(atOrAbove(b)) /\ Cardinality(atOrAbove(b)) <= N
        BY <2>1, FS_Subset DEF N
    <2>4. Cardinality(atOrAbove(b)) \in Nat /\ Cardinality(atOrAbove(b)) # 0
        BY <2>1, <2>3, FS_CardinalityType, FS_EmptySet
    <2> QED
        BY <1>1, <2>2, <2>3, <2>4
<1>3. ASSUME NEW b \in S, NEW c \in S, b < c
      PROVE  rank[b] # rank[c]
    <2> b \in Nat /\ c \in Nat
        BY <1>1
    <2>1. /\ atOrAbove(c) \in SUBSET atOrAbove(b)
          /\ b \in atOrAbove(b) /\ b \notin atOrAbove(c)
        <3>1. \A x \in S : x \in Nat /\ (x >= c => x >= b)
            BY <1>1, <1>3
        <3>2. b >= b /\ ~(b >= c)
            BY <1>3
        <3> QED
            BY <3>1, <3>2
    <2> HIDE DEF atOrAbove, rank
    <2>2. atOrAbove(c) # atOrAbove(b)
        BY <2>1
    <2>3. Cardinality(atOrAbove(c)) # Cardinality(atOrAbove(b))
        BY <1>2, <2>1, <2>2, FS_Subset
    <2> QED
        BY <1>2, <2>3
<1>4. rank \in [S -> 1..N]
    BY <1>2
<1> HIDE DEF rank
<1>5. \A b, c \in S : rank[b] = rank[c] => b = c
    BY <1>1, <1>3
<1>6. rank \in Injection(S, 1..N)
    BY <1>4, <1>5 DEF Injection, IsInjective
<1>7. IsFiniteSet(1..N) /\ Cardinality(1..N) = N
    BY <1>1, FS_Interval
<1>8. rank \in Surjection(S, 1..N)
    BY <1>6, <1>7, FS_Injection DEF N
<1>9. \A p \in 1..N : \E b \in S : rank[b] = p
    BY <1>8 DEF Surjection
<1> SUFFICES ASSUME NEW p \in 1..N
             PROVE  \E b \in S : \A c \in S : Cardinality(atOrAbove(c)) = p <=> c = b
    OBVIOUS
<1> QED
    BY <1>2, <1>5, <1>9

\* The pages of a batch carry its message, and each number up to their count
\* once.
Numbered(pages, message) ==
    \A j \in pages :
        /\ j.message = message
        /\ \A p \in 1..j.total : Cardinality({k \in pages : k.page = p}) = 1

LEMMA BatchNumbers ==
    ASSUME campaign \in Campaigns, NEW message, NEW spread,
           NEW lo \in Nat, NEW hi \in 0..campaign.contacts
    PROVE  Numbered(Batch(message, spread, lo, hi), message)
<1> DEFINE C      == campaign.contacts
           limit  == GetLimit(C, spread)
           bounds == Boundaries(C, limit, lo, hi)
           number(b) == Cardinality({x \in bounds : x >= b})
           page(b) == [message |-> message,
                       page    |-> number(b),
                       total   |-> Cardinality(bounds),
                       first   |-> PageFirst(campaign.type, bounds, b, lo),
                       last    |-> b]
           pages  == Batch(message, spread, lo, hi)
<1>1. pages = {page(b) : b \in bounds}
    BY DEF Batch
<1>2. \A b : /\ page(b).message = message /\ page(b).page = number(b)
             /\ page(b).total = Cardinality(bounds)
    OBVIOUS
<1>3. bounds \in SUBSET Nat /\ IsFiniteSet(bounds)
    <2>1. C \in Nat /\ IntervalEnd(C, hi) \in Nat
        BY CampaignIs DEF IntervalEnd
    <2>2. bounds \subseteq (lo + 1)..IntervalEnd(C, hi)
        <3> HIDE DEF limit
        <3> QED
            BY <2>1, BoundariesAre
    <2> HIDE DEF bounds, C
    <2>3. bounds \in SUBSET Nat /\ \A b \in bounds : b <= IntervalEnd(C, hi)
        BY <2>1, <2>2
    <2> QED
        BY <2>1, <2>3, FS_BoundedSetOfNaturals
<1> HIDE DEF bounds, page, pages
<1>4. ASSUME NEW p \in 1..Cardinality(bounds)
      PROVE  Cardinality({k \in pages : k.page = p}) = 1
    <2>1. PICK b \in bounds : \A c \in bounds : number(c) = p <=> c = b
        BY <1>3, RanksAre
    <2> HIDE DEF number
    <2>2. {k \in pages : k.page = p} = {page(b)}
        BY <1>1, <1>2, <2>1
    <2> QED
        BY <2>2, FS_Singleton
<1> QED
    BY <1>1, <1>2, <1>4 DEF pages, Numbered

\* The messages that have pages, numbered from one: the packer's next group gets
\* a number that none of them has, and the winner is nobody's number.
Messages == {j.message : j \in jobs}

NumberedInv ==
    /\ stage \in {"test", "groups", "result", "trigger", "batches"} =>
           \E n \in Nat : Messages = 1..n
    /\ OneLastPage

\* New pages for a message that has none leave the others' numbers alone.
LEMMA FreshPages ==
    ASSUME OneLastPage, NEW message, NEW pages, jobs' = jobs \cup pages,
           message \notin Messages, Numbered(pages, message)
    PROVE  OneLastPage'
<1>1. \A j \in jobs : j.message # message
    BY DEF Messages
<1>2. ASSUME NEW j \in jobs', NEW p \in 1..j.total
      PROVE  Cardinality({k \in jobs' : k.message = j.message /\ k.page = p}) = 1
    <2>1. CASE j \in jobs
        <3>1. {k \in jobs' : k.message = j.message /\ k.page = p} =
              {k \in jobs : k.message = j.message /\ k.page = p}
            BY <1>1, <2>1 DEF Numbered
        <3> QED
            BY <2>1, <3>1 DEF OneLastPage
    <2>2. CASE j \in pages
        <3>1. {k \in jobs' : k.message = j.message /\ k.page = p} =
              {k \in pages : k.page = p}
            BY <1>1, <2>2 DEF Numbered
        <3> QED
            BY <2>2, <3>1 DEF Numbered
    <2> QED
        BY <2>1, <2>2
<1> QED
    BY <1>2 DEF OneLastPage

\* A group's pages are numbered under the next free message number.
LEMMA GroupNumbers ==
    ASSUME PagingInv, NumberedInv, BatchGroup
    PROVE  NumberedInv'
<1> DEFINE top   == Max(ends)
           next  == IF ends = {top} THEN 0 ELSE Max(ends \ {top})
           message == Cardinality(Messages) + 1
           pages == Batch(message, campaign.testSpread, next, top)
<1>1. jobs' = jobs \cup pages
    BY DEF BatchGroup, Messages
<1>2. PICK n \in Nat : Messages = 1..n
    BY DEF BatchGroup, NumberedInv
<1>3. message = n + 1
    <2>1. Cardinality(1..n) = n
        BY <1>2, FS_Interval
    <2> QED
        BY <1>2, <2>1
<1>4. campaign \in Campaigns /\ campaign.contacts \in Nat
      /\ Share \in Nat /\ Share <= campaign.contacts
    BY ShareIs DEF PagingInv, TypesOK
<1>5. ends \in SUBSET (1..Share) /\ ends # {}
    BY DEF BatchGroup, PagingInv, TypesOK, Plan
<1>6. next \in Nat /\ top \in ends
    BY <1>4, <1>5, TopGroup
<1> HIDE DEF top, next, message
<1>7. top \in 0..campaign.contacts
    BY <1>4, <1>5, <1>6
<1>8. Numbered(pages, message)
    BY <1>4, <1>6, <1>7, BatchNumbers
<1> HIDE DEF pages
<1>9. message \notin Messages
    BY <1>2, <1>3
<1>10. OneLastPage'
    BY <1>1, <1>8, <1>9, FreshPages DEF NumberedInv
<1>11. \E m \in Nat : Messages' = 1..m
    <2>1. CASE pages = {}
        BY <1>1, <1>2, <2>1 DEF Messages
    <2>2. CASE pages # {}
        <3>1. Messages' = Messages \cup {message}
            BY <1>1, <1>8, <2>2 DEF Messages, Numbered
        <3>2. Messages' = 1..(n + 1) /\ n + 1 \in Nat
            BY <1>2, <1>3, <3>1
        <3> QED
            BY <3>2
    <2> QED
        BY <2>1, <2>2
<1> QED
    BY <1>10, <1>11 DEF NumberedInv

\* The pages of a whole campaign, or of a winner, go under the number zero.
LEMMA WinnerNumbers ==
    ASSUME PagingInv, NumberedInv, CreateBatches
    PROVE  NumberedInv'
<1> DEFINE lo    == IF campaign.type = "simple" THEN 0 ELSE testabLastId
           pages == Batch(0, campaign.spread, lo, 0)
<1>1. jobs' = jobs \cup pages /\ stage' = "sent"
    BY DEF CreateBatches
<1>2. PICK n \in Nat : Messages = 1..n
    BY DEF CreateBatches, NumberedInv
<1>3. campaign \in Campaigns /\ campaign.contacts \in Nat /\ Share \in Nat
    BY ShareIs DEF PagingInv, TypesOK
<1>4. lo \in Nat
    BY <1>3 DEF CreateBatches, PagingInv, Plan
<1> HIDE DEF lo, pages
<1>5. Numbered(pages, 0)
    <2>1. 0 \in 0..campaign.contacts
        BY <1>3
    <2> QED
        BY <1>3, <1>4, <2>1, BatchNumbers DEF pages
<1>6. 0 \notin Messages
    BY <1>2
<1>7. OneLastPage'
    BY <1>1, <1>5, <1>6, FreshPages DEF NumberedInv
<1> QED
    BY <1>1, <1>7 DEF NumberedInv

\* Each batch of a campaign has its own message, and of its pages exactly one
\* has each number: exactly one is the last page, on which the events tracker
\* completes the campaign.
THEOREM OnePageCompletes == Spec => []OneLastPage
<1>1. Init => NumberedInv
    <2> SUFFICES ASSUME Init PROVE NumberedInv
        OBVIOUS
    <2>1. Messages = 1..0
        BY DEF Init, Messages
    <2> QED
        BY <2>1 DEF Init, NumberedInv, OneLastPage
<1>2. PagingInv /\ NumberedInv /\ [Next]_vars => NumberedInv'
    <2> SUFFICES ASSUME PagingInv, NumberedInv, [Next]_vars PROVE NumberedInv'
        OBVIOUS
    <2>1. CASE \/ Trigger \/ StartTest \/ ProcessResult
               \/ \E j \in jobs : ProcessPage(j)
               \/ UNCHANGED vars
        <3>1. jobs' = jobs
            BY <2>1 DEF Trigger, StartTest, ProcessResult, ProcessPage, vars
        <3>2. Messages' = Messages /\ (OneLastPage' <=> OneLastPage)
            BY <3>1 DEF Messages, OneLastPage
        <3>3. stage' \in {"test", "groups", "result", "trigger", "batches"} =>
                  stage \in {"test", "groups", "result", "trigger", "batches"}
            BY <2>1 DEF Trigger, StartTest, ProcessResult, ProcessPage, vars
        <3> QED
            BY <3>2, <3>3 DEF NumberedInv
    <2> QED
        BY <2>1, GroupNumbers, WinnerNumbers DEF Next, Finished
<1>3. NumberedInv => OneLastPage
    BY DEF NumberedInv
<1> QED
    BY <1>1, <1>2, <1>3, Paged, PTL DEF Spec

-----------------------------------------------------------------------------

(***************************************************************************)
(* One campaign from its trigger to its end (CampaignRun).                 *)
(***************************************************************************)
CONSTANTS Pages, SimpleLast, SplitLast, Kinds, MaxCalls, MaxSplitCalls,
          MaxMishaps

VARIABLES kind, row, listed, stopFlag, dedup, trigger, calls, packs, pageQueue,
          worker, sendQueue, events, tracking, api, mishaps, out, reached, lost,
          leaked, relisted

\* CampaignRun, with its jobs queue under a name of its own.
Run == INSTANCE CampaignRun WITH jobs <- pageQueue

\* The worker has the page.
Has(p) == worker.phase # "idle" /\ worker.page = p

\* The values the variables take.
RunTypes ==
    /\ row \in [status : Run!Status, deleted : BOOLEAN]
    /\ trigger \in {"scheduled", "reading", "gone"}
    /\ calls \in Nat /\ packs \in Nat /\ mishaps \in Nat
    /\ pageQueue \in [Pages -> Nat] /\ out \in [Pages -> Nat]
    /\ sendQueue \in [Pages -> Nat]
    /\ events \in [Run!Event -> Nat]
    /\ tracking \in [Run!Event -> [Run!Status -> Nat]]
    /\ worker \in [page : Pages \cup {"none"}, phase : {"idle", "flag", "row"},
                   late : {"none", "stopped", "deleted"}]
    /\ worker.phase # "idle" => worker.page \in Pages
    /\ reached \subseteq Pages

\* A campaign begins with values of their types.
LEMMA RunTypesInit == Run!Init => RunTypes
<1> SUFFICES ASSUME Run!Init PROVE RunTypes
    OBVIOUS
<1>1. row \in [status : Run!Status, deleted : BOOLEAN]
    BY DEF Run!Init, Run!Status
<1>2. worker \in [page : Pages \cup {"none"}, phase : {"idle", "flag", "row"},
                   late : {"none", "stopped", "deleted"}] /\ worker.phase = "idle"
    BY DEF Run!Init, Run!Idle
<1> QED
    BY <1>1, <1>2 DEF Run!Init, RunTypes

\* Every step keeps them.
LEMMA RunTypesStep == RunTypes /\ [Run!Next]_Run!vars => RunTypes'
<1> SUFFICES ASSUME RunTypes, [Run!Next]_Run!vars PROVE RunTypes'
    OBVIOUS
<1> USE DEF RunTypes, Run!work, Run!queues, Run!history
<1>1. CASE Run!TriggerStart
    BY <1>1 DEF Run!TriggerStart
<1>2. CASE Run!TriggerSimple
    BY <1>2 DEF Run!TriggerSimple, Run!CallAnswered, Run!Event
<1>3. CASE Run!TriggerSplit
    BY <1>3 DEF Run!TriggerSplit, Run!CallAnswered, Run!Event
<1>4. CASE Run!CreateBatches
    BY <1>4 DEF Run!CreateBatches
<1>5. CASE Run!CreateBatchesFails
    BY <1>5 DEF Run!CreateBatchesFails
<1>6. CASE Run!DedupExpires \/ Run!StopFlagExpires
    BY <1>6 DEF Run!DedupExpires, Run!StopFlagExpires
<1>7. ASSUME NEW p \in Pages, Run!TakePage(p) PROVE RunTypes'
    BY <1>7 DEF Run!TakePage, Run!Idle, Run!Cancelled
<1>8. CASE Run!CheckRow
    <2>1. worker' = Run!Idle \/ worker' = [worker EXCEPT !.phase = "row"]
        BY <1>8 DEF Run!CheckRow
    <2>2. worker.phase = "flag"
        BY <1>8 DEF Run!CheckRow
    <2> QED
        BY <1>8, <2>1, <2>2 DEF Run!CheckRow, Run!Idle
<1>9. CASE Run!MountPackages
    BY <1>9 DEF Run!MountPackages, Run!Published, Run!Idle
<1>10. CASE Run!PageFails
    BY <1>10 DEF Run!PageFails, Run!Published, Run!Idle
<1>11. ASSUME NEW p \in Pages, Run!SendPackage(p) PROVE RunTypes'
    BY <1>11 DEF Run!SendPackage, Run!Event
<1>12. ASSUME NEW e \in Run!Event, Run!LoadRow(e) PROVE RunTypes'
    <2>1. CASE row.deleted
        BY <1>12, <2>1 DEF Run!LoadRow
    <2>2. CASE ~row.deleted
        <3>1. PICK s \in Run!Status : s = row.status
            OBVIOUS
        <3>2. tracking' = [tracking EXCEPT ![e][s] = @ + 1]
            BY <1>12, <2>2, <3>1 DEF Run!LoadRow
        <3>3. tracking' \in [Run!Event -> [Run!Status -> Nat]]
            BY <3>2
        <3> QED
            BY <1>12, <3>3 DEF Run!LoadRow
    <2> QED
        BY <2>1, <2>2
<1>13. ASSUME NEW e \in Run!Event, NEW s \in Run!Status, Run!WriteRow(e, s) PROVE RunTypes'
    <2>1. tracking' \in [Run!Event -> [Run!Status -> Nat]]
        BY <1>13 DEF Run!WriteRow
    <2>2. row' \in [status : Run!Status, deleted : BOOLEAN]
        BY <1>13 DEF Run!WriteRow, Run!Merged, Run!Target, Run!Status
    <2> QED
        BY <1>13, <2>1, <2>2 DEF Run!WriteRow
<1>14. CASE Run!Operator
    <2>1. CASE Run!StopStart \/ Run!StopClear \/ Run!DeleteStart
        BY <2>1 DEF Run!StopStart, Run!StopClear, Run!DeleteStart
    <2>2. CASE Run!StopSave \/ Run!DeleteSave
        <3>1. \/ row' = [row EXCEPT !.status = "stopped"]
              \/ row' = [status |-> "stopped", deleted |-> TRUE]
            BY <2>2 DEF Run!StopSave, Run!DeleteSave
        <3>2. row \in [status : Run!Status, deleted : BOOLEAN] /\ "stopped" \in Run!Status
            BY DEF Run!Status
        <3>3. [row EXCEPT !.status = "stopped"] \in [status : Run!Status, deleted : BOOLEAN]
            BY <3>2
        <3>4. [status |-> "stopped", deleted |-> TRUE] \in [status : Run!Status, deleted : BOOLEAN]
            BY <3>2
        <3>5. row' \in [status : Run!Status, deleted : BOOLEAN]
            BY <3>1, <3>3, <3>4, Zenon
        <3> QED
            BY <2>2, <3>5 DEF Run!StopSave, Run!DeleteSave
    <2> QED
        BY <1>14, <2>1, <2>2 DEF Run!Operator
<1>15. CASE UNCHANGED Run!vars
    BY <1>15 DEF Run!vars
<1> QED
    BY <1>1, <1>2, <1>3, <1>4, <1>5, <1>6, <1>7, <1>8, <1>9, <1>10, <1>11, <1>12, <1>13, <1>14,
       <1>15
       DEF Run!Next, Run!Packer, Run!Worker, Run!Sender, Run!Tracker, Run!Mishap

\* A page is held by the worker, counted.
Held(p) == IF Has(p) THEN 1 ELSE 0

\* What a campaign may send of a page beyond its mishaps.
Budget == IF kind = "simple" THEN IF dedup THEN 1 ELSE 0
          ELSE IF trigger = "reading" THEN calls - 1 ELSE calls

\* A page is out, queued or held once per mishap, and once more while the key of
\* a simple campaign is set, or once per run of a split campaign's trigger.
CountInv ==
    /\ kind # "simple" => packs = 0 /\ (trigger = "reading" => calls > 0)
    /\ \A p \in Pages : out[p] + pageQueue[p] + Held(p) <= mishaps + Budget

\* The budget is a number.
LEMMA BudgetType ==
    ASSUME RunTypes, CountInv PROVE Budget \in Nat
BY DEF RunTypes, CountInv, Budget

\* A step that queues the pages needs the key unset or a run of the trigger; a
\* step that puts a page back, or takes the key away, is a mishap.
LEMMA CountStep ==
    ASSUME RunTypes, RunTypes', CountInv, [Run!Next]_Run!vars PROVE CountInv'
<1> USE DEF RunTypes, Run!work, Run!queues, Run!history, CountInv
<1>1. CASE Run!TriggerStart
    BY <1>1 DEF Run!TriggerStart, Budget, Held, Has
<1>2. CASE Run!TriggerSimple
    BY <1>2 DEF Run!TriggerSimple, Run!CallAnswered, Budget, Held, Has
<1>3. CASE Run!TriggerSplit
    BY <1>3 DEF Run!TriggerSplit, Run!CallAnswered, Budget, Held, Has
<1>4. CASE Run!CreateBatches
    BY <1>4 DEF Run!CreateBatches, Budget, Held, Has
<1>5. CASE Run!CreateBatchesFails
    BY <1>5 DEF Run!CreateBatchesFails, Budget, Held, Has
<1>6. CASE Run!DedupExpires \/ Run!StopFlagExpires
    BY <1>6 DEF Run!DedupExpires, Run!StopFlagExpires, Budget, Held, Has
<1>7. ASSUME NEW p \in Pages, Run!TakePage(p) PROVE CountInv'
    BY <1>7 DEF Run!TakePage, Run!Idle, Budget, Held, Has
<1>8. CASE Run!CheckRow
    BY <1>8 DEF Run!CheckRow, Run!Idle, Budget, Held, Has
<1>9. CASE Run!MountPackages
    BY <1>9 DEF Run!MountPackages, Run!Published, Run!Idle, Budget, Held, Has
<1>10. CASE Run!PageFails
    BY <1>10 DEF Run!PageFails, Run!Published, Run!Idle, Budget, Held, Has
<1>11. ASSUME NEW p \in Pages, Run!SendPackage(p) PROVE CountInv'
    BY <1>11 DEF Run!SendPackage, Budget, Held, Has
<1>12. ASSUME NEW e \in Run!Event, Run!LoadRow(e) PROVE CountInv'
    BY <1>12 DEF Run!LoadRow, Budget, Held, Has
<1>13. ASSUME NEW e \in Run!Event, NEW s \in Run!Status, Run!WriteRow(e, s) PROVE CountInv'
    BY <1>13 DEF Run!WriteRow, Budget, Held, Has
<1>14. CASE Run!Operator
    BY <1>14 DEF Run!Operator, Run!StopStart, Run!StopClear, Run!StopSave, Run!DeleteStart,
                 Run!DeleteSave, Budget, Held, Has
<1>15. CASE UNCHANGED Run!vars
    BY <1>15 DEF Run!vars, Budget, Held, Has
<1> QED
    BY <1>1, <1>2, <1>3, <1>4, <1>5, <1>6, <1>7, <1>8, <1>9, <1>10, <1>11, <1>12, <1>13, <1>14,
       <1>15
       DEF Run!Next, Run!Packer, Run!Worker, Run!Sender, Run!Tracker, Run!Mishap
\* Once stopCampaign has cleared the list of contacts, only a trigger under way can
\* fill it; a page that started after the stop finds it so.
StopInv ==
    /\ api \in {"cleared", "stopped"} /\ ~relisted => ~listed
    /\ worker.late = "stopped" => api = "stopped"
    /\ Run!StoppedSendsNothing

\* Every step keeps a stopped campaign without contacts.
LEMMA StopStep ==
    ASSUME RunTypes, StopInv, [Run!Next]_Run!vars PROVE StopInv'
<1> USE DEF Run!work, Run!queues, Run!history, StopInv, Run!StoppedSendsNothing
<1>1. CASE Run!TriggerStart
    BY <1>1 DEF Run!TriggerStart
<1>2. CASE Run!TriggerSimple
    BY <1>2 DEF Run!TriggerSimple
<1>3. CASE Run!TriggerSplit
    BY <1>3 DEF Run!TriggerSplit
<1>4. CASE Run!CreateBatches
    BY <1>4 DEF Run!CreateBatches
<1>5. CASE Run!CreateBatchesFails
    BY <1>5 DEF Run!CreateBatchesFails
<1>6. CASE Run!DedupExpires \/ Run!StopFlagExpires
    BY <1>6 DEF Run!DedupExpires, Run!StopFlagExpires
<1>7. ASSUME NEW p \in Pages, Run!TakePage(p) PROVE StopInv'
    BY <1>7 DEF Run!TakePage, Run!Idle, Run!Cancelled
<1>8. CASE Run!CheckRow
    <2>1. worker' = Run!Idle \/ worker' = [worker EXCEPT !.phase = "row"]
        BY <1>8 DEF Run!CheckRow
    <2>2. worker'.late = "stopped" => worker.late = "stopped"
        BY <2>1 DEF RunTypes, Run!Idle
    <2> QED
        BY <1>8, <2>2 DEF Run!CheckRow
<1>9. CASE Run!MountPackages
    BY <1>9 DEF Run!MountPackages, Run!Published, Run!Idle
<1>10. CASE Run!PageFails
    BY <1>10 DEF Run!PageFails, Run!Published, Run!Idle
<1>11. ASSUME NEW p \in Pages, Run!SendPackage(p) PROVE StopInv'
    BY <1>11 DEF Run!SendPackage
<1>12. ASSUME NEW e \in Run!Event, Run!LoadRow(e) PROVE StopInv'
    BY <1>12 DEF Run!LoadRow
<1>13. ASSUME NEW e \in Run!Event, NEW s \in Run!Status, Run!WriteRow(e, s) PROVE StopInv'
    BY <1>13 DEF Run!WriteRow
<1>14. CASE Run!Operator
    BY <1>14 DEF Run!Operator, Run!StopStart, Run!StopClear, Run!StopSave, Run!DeleteStart,
                 Run!DeleteSave
<1>15. CASE UNCHANGED Run!vars
    BY <1>15 DEF Run!vars
<1> QED
    BY <1>1, <1>2, <1>3, <1>4, <1>5, <1>6, <1>7, <1>8, <1>9, <1>10, <1>11, <1>12, <1>13, <1>14,
       <1>15
       DEF Run!Next, Run!Packer, Run!Worker, Run!Sender, Run!Tracker, Run!Mishap

\* A page of the campaign is queued, with the worker, or out.
Queued(p) == pageQueue[p] > 0 \/ Has(p) \/ out[p] > 0

\* A simple campaign nobody cancels: its last page comes after the others are out,
\* and only its report completes the row and takes the contacts away.
Whole ==
    /\ ~stopFlag /\ ~row.deleted /\ row.status # "stopped"
    /\ Queued(SimpleLast) => \A q \in Pages : Queued(q)
    /\ out[SimpleLast] > 0 \/ Has(SimpleLast) => \A q \in Pages \ {SimpleLast} : out[q] > 0
    /\ \A q \in Pages : out[q] > 0 => q \in reached
    /\ \A q \in Pages : Queued(q) => listed \/ out[SimpleLast] > 0
    /\ \A q \in Pages : sendQueue[q] > 0 => out[q] > 0
    /\ \A e \in Run!Event : events[e] > 0 => e = "started" \/ (e = SimpleLast /\ out[SimpleLast] > 0)
    /\ \A e \in Run!Event, s \in Run!Status :
          tracking[e][s] > 0 => e = "started" \/ (e = SimpleLast /\ out[SimpleLast] > 0)
    /\ \A e \in Run!Event : tracking[e]["completed"] > 0 => out[SimpleLast] > 0
    /\ row.status = "completed" => out[SimpleLast] > 0

\* That, and no page was passed over.
SkipInv == kind = "simple" => lost = {} /\ (api = "none" => Whole)

\* What publishing a page means in a simple campaign nobody cancels.
LEMMA PublishWhole ==
    ASSUME RunTypes, SimpleLast \in Pages, api = "none", Whole, lost = {},
           worker.phase = "row", Run!Published,
           UNCHANGED <<row, listed, stopFlag, events, tracking>>,
           worker' = Run!Idle,
           \A q \in Pages : pageQueue'[q] > 0 <=>
              pageQueue[q] > 0 \/ (q = worker.page /\ pageQueue'[q] > 0)
    PROVE  Whole' /\ lost' = {}
<1> DEFINE p == worker.page
<1>1. p \in Pages /\ Has(p)
    BY DEF RunTypes, Has
<1>2. /\ out' = [out EXCEPT ![p] = @ + 1]
      /\ sendQueue' = [sendQueue EXCEPT ![p] = @ + 1]
      /\ reached' = IF listed THEN reached \cup {p} ELSE reached
      /\ lost' = IF ~listed /\ api = "none" THEN lost \cup ({p} \ reached) ELSE lost
    BY DEF Run!Published
<1>3. \A q \in Pages : out[q] \in Nat /\ out'[q] = IF q = p THEN out[q] + 1 ELSE out[q]
    BY <1>2 DEF RunTypes
<1>4. ~listed => p \in reached
    <2>1. ~listed => out[SimpleLast] > 0
        BY <1>1 DEF Whole, Queued
    <2>2. ~listed => out[p] > 0
        BY <1>1, <2>1 DEF Whole
    <2> QED
        BY <1>1, <2>2 DEF Whole
<1>5. lost' = {}
    BY <1>2, <1>4
<1>6. \A q \in Pages : out'[q] > 0 => q \in reached'
    BY <1>2, <1>3, <1>4 DEF Whole
<1>7. \A q \in Pages : /\ out[q] > 0 \/ Has(q) => out'[q] > 0
                       /\ out'[q] > 0 => out[q] > 0 \/ Has(q)
                       /\ ~Has(q)'
    BY <1>1, <1>3 DEF Has, Run!Idle
<1>8. \A q \in Pages : Queued(q)' <=> Queued(q)
    BY <1>1, <1>7 DEF Queued, Has
<1>9. \A q \in Pages : sendQueue'[q] > 0 => out'[q] > 0
    BY <1>1, <1>2, <1>7 DEF Whole, RunTypes
<1>10. out'[SimpleLast] > 0 => \A q \in Pages \ {SimpleLast} : out'[q] > 0
    BY <1>7 DEF Whole
<1> HIDE DEF p
<1> QED
    BY <1>5, <1>6, <1>7, <1>8, <1>9, <1>10 DEF Whole

\* Every step keeps a simple campaign whole until somebody cancels it.
LEMMA SkipStep ==
    ASSUME RunTypes, RunTypes', SimpleLast \in Pages, SkipInv, [Run!Next]_Run!vars
    PROVE  SkipInv'
<1> SUFFICES ASSUME kind' = "simple" PROVE SkipInv'
    BY DEF SkipInv
<1> USE DEF Run!work, Run!queues, Run!history
<1>0. kind' = kind /\ lost = {} /\ (api = "none" => Whole)
    BY DEF SkipInv, Run!Next, Run!vars, Run!Packer, Run!Worker, Run!Sender, Run!Tracker, Run!Mishap,
       Run!Operator, Run!StopStart, Run!StopClear, Run!StopSave, Run!DeleteStart, Run!DeleteSave,
       Run!TriggerStart, Run!TriggerSimple, Run!TriggerSplit, Run!CreateBatches,
       Run!CreateBatchesFails, Run!DedupExpires, Run!StopFlagExpires, Run!TakePage, Run!CheckRow,
       Run!MountPackages, Run!PageFails, Run!SendPackage, Run!LoadRow, Run!WriteRow
<1>1. CASE Run!TriggerStart \/ Run!DedupExpires
    BY <1>0, <1>1 DEF Run!TriggerStart, Run!DedupExpires, SkipInv, Whole, Queued, Has
<1>2. CASE Run!TriggerSimple
    <2>1. \A e \in Run!Event : events'[e] > 0 => events[e] > 0 \/ e = "started"
        BY <1>2 DEF Run!TriggerSimple, RunTypes, Run!Event
    <2> QED
        BY <1>0, <1>2, <2>1 DEF Run!TriggerSimple, SkipInv, Whole, Queued, Has
<1>3. CASE Run!TriggerSplit
    BY <1>0, <1>3 DEF Run!TriggerSplit
<1>4. CASE Run!CreateBatches
    <2>1. CASE ~dedup /\ listed
        <3>1. listed' /\ \A q \in Pages : pageQueue'[q] > 0
            BY <1>4, <2>1 DEF Run!CreateBatches, RunTypes
        <3> QED
            BY <1>0, <1>4, <3>1 DEF Run!CreateBatches, SkipInv, Whole, Queued, Has
    <2>2. CASE ~(~dedup /\ listed)
        BY <1>0, <1>4, <2>2 DEF Run!CreateBatches, SkipInv, Whole, Queued, Has
    <2> QED
        BY <2>1, <2>2
<1>5. CASE Run!CreateBatchesFails
    <2>1. /\ listed /\ listed'
          /\ \A q \in Pages : pageQueue[q] > 0 => pageQueue'[q] > 0
          /\ pageQueue'[SimpleLast] > 0 => pageQueue[SimpleLast] > 0
        BY <1>0, <1>5 DEF Run!CreateBatchesFails, RunTypes, Run!LastPages
    <2> QED
        BY <1>0, <1>5, <2>1 DEF Run!CreateBatchesFails, SkipInv, Whole, Queued, Has
<1>6. CASE Run!StopFlagExpires
    BY <1>0, <1>6 DEF Run!StopFlagExpires, SkipInv
<1>7. ASSUME NEW p \in Pages, Run!TakePage(p), api = "none" PROVE Whole' /\ lost' = {}
    <2>1. /\ worker = Run!Idle /\ pageQueue[p] > 0 /\ Run!InTime(p)
          /\ pageQueue' = [pageQueue EXCEPT ![p] = @ - 1]
          /\ worker' = [page |-> p, phase |-> "flag", late |-> Run!Cancelled]
          /\ UNCHANGED <<row, listed, stopFlag, out, reached, lost, sendQueue, events, tracking>>
        BY <1>0, <1>7 DEF Run!TakePage, Whole
    <2>2. \A q \in Pages : ~Has(q) /\ (Has(q)' <=> q = p)
        BY <2>1 DEF Has, Run!Idle
    <2>3. \A q \in Pages : Queued(q)' <=> Queued(q)
        BY <2>1, <2>2 DEF Queued, RunTypes
    <2>4. Has(SimpleLast)' => \A q \in Pages \ {SimpleLast} : out[q] > 0
        BY <1>0, <1>7, <2>1, <2>2, <2>3 DEF Run!InTime, Run!LastPages, Whole, Queued
    <2> QED
        BY <1>0, <1>7, <2>1, <2>3, <2>4 DEF Whole
<1>8. CASE Run!CheckRow
    <2>1. worker.phase = "flag" /\ worker.page \in Pages /\ Has(worker.page)
        BY <1>8 DEF Run!CheckRow, RunTypes, Has
    <2>2. CASE row.deleted \/ row.status \in {"stopped", "completed"}
        <3>1. /\ worker' = Run!Idle
              /\ lost' = IF api = "none" THEN lost \cup ({worker.page} \ reached) ELSE lost
            BY <1>8, <2>2 DEF Run!CheckRow
        <3>2. ASSUME api = "none"
              PROVE  /\ out[SimpleLast] > 0 /\ worker.page \in reached
                     /\ \A q \in Pages : out[q] > 0
            BY <1>0, <2>1, <2>2, <3>2 DEF Whole
        <3>3. lost' = {}
            BY <1>0, <3>1, <3>2
        <3>4. \A q \in Pages : ~Has(q)'
            BY <3>1 DEF Has, Run!Idle
        <3> QED
            BY <1>0, <1>8, <3>2, <3>3, <3>4 DEF Run!CheckRow, SkipInv, Whole, Queued
    <2>3. CASE ~(row.deleted \/ row.status \in {"stopped", "completed"})
        <3>1. worker' = [worker EXCEPT !.phase = "row"] /\ UNCHANGED lost
            BY <1>8, <2>3 DEF Run!CheckRow
        <3>2. \A q \in Pages : Has(q)' <=> Has(q)
            BY <2>1, <3>1 DEF Has, RunTypes
        <3> QED
            BY <1>0, <1>8, <3>1, <3>2 DEF Run!CheckRow, SkipInv, Whole, Queued
    <2> QED
        BY <2>2, <2>3
<1>9. ASSUME Run!MountPackages \/ Run!PageFails, api = "none" PROVE Whole' /\ lost' = {}
    <2>1. CASE worker.phase = "row" /\ Run!Published
        BY <1>0, <1>9, <2>1, PublishWhole DEF Run!MountPackages, Run!PageFails, RunTypes
    <2>2. CASE UNCHANGED <<sendQueue, out, reached, lost, leaked>> /\ Run!PageFails
        <3>1. worker.page \in Pages /\ Has(worker.page) /\ \A q \in Pages : ~Has(q)'
            BY <2>2 DEF Run!PageFails, RunTypes, Has, Run!Idle
        <3>2. \A q \in Pages : Queued(q)' <=> Queued(q)
            BY <2>2, <3>1 DEF Run!PageFails, RunTypes, Queued, Has
        <3> QED
            BY <1>0, <1>9, <2>2, <3>1, <3>2 DEF Run!PageFails, Whole
    <2> QED
        BY <1>9, <2>1, <2>2 DEF Run!MountPackages, Run!PageFails
<1>10. ASSUME Run!MountPackages \/ Run!PageFails, api # "none" PROVE lost' = {} /\ api' # "none"
    BY <1>0, <1>10 DEF Run!MountPackages, Run!PageFails, Run!Published
<1>11. ASSUME NEW p \in Pages, Run!SendPackage(p) PROVE SkipInv'
    <2>1. \A q \in Pages : sendQueue'[q] > 0 => sendQueue[q] > 0
        BY <1>11 DEF Run!SendPackage, RunTypes
    <2>2. \A e \in Run!Event : events'[e] > 0 =>
             events[e] > 0 \/ (e = SimpleLast /\ sendQueue[SimpleLast] > 0)
        BY <1>0, <1>11 DEF Run!SendPackage, RunTypes, Run!LastPages, Run!Event
    <2> QED
        BY <1>0, <1>11, <2>1, <2>2 DEF Run!SendPackage, SkipInv, Whole, Queued, Has
<1>12. ASSUME NEW e \in Run!Event, Run!LoadRow(e) PROVE SkipInv'
    <2>1. \A f \in Run!Event : events'[f] > 0 => events[f] > 0
        BY <1>12 DEF Run!LoadRow, RunTypes
    <2>2. PICK t \in Run!Status : t = row.status
        BY DEF RunTypes
    <2>3. tracking' = tracking \/ tracking' = [tracking EXCEPT ![e][t] = @ + 1]
        BY <1>12, <2>2 DEF Run!LoadRow
    <2>4. \A f \in Run!Event, s \in Run!Status : tracking'[f][s] > 0 =>
             tracking[f][s] > 0 \/ (f = e /\ s = row.status)
        BY <2>2, <2>3 DEF RunTypes
    <2>5. events[e] > 0 /\ "completed" \in Run!Status
        BY <1>12 DEF Run!LoadRow, Run!Status
    <2> QED
        BY <1>0, <1>12, <2>1, <2>4, <2>5 DEF Run!LoadRow, SkipInv, Whole, Queued, Has
<1>13. ASSUME NEW e \in Run!Event, NEW s \in Run!Status, Run!WriteRow(e, s) PROVE SkipInv'
    <2>1. \A f \in Run!Event, t \in Run!Status : tracking'[f][t] > 0 => tracking[f][t] > 0
        BY <1>13 DEF Run!WriteRow, RunTypes
    <2>2. tracking[e][s] > 0 /\ "completed" \in Run!Status
        BY <1>13 DEF Run!WriteRow, Run!Status
    <2>3. /\ row'.status = Run!Merged(e, s) /\ ~row'.deleted
          /\ listed' = (listed /\ row'.status # "completed")
        BY <1>13 DEF Run!WriteRow
    <2>4. row'.status # "stopped"
        BY <2>3 DEF Run!Merged, Run!Target
    <2>5. ASSUME api = "none", row'.status = "completed" PROVE out[SimpleLast] > 0
        BY <1>0, <2>2, <2>3, <2>5 DEF Run!Merged, Run!Target, Whole
    <2>6. UNCHANGED <<kind, stopFlag, pageQueue, worker, out, reached, sendQueue, events, api, lost>>
        BY <1>13 DEF Run!WriteRow
    <2>7. ASSUME api = "none" PROVE Whole'
        <3>1. Whole
            BY <1>0, <2>7
        <3>2. \A q \in Pages : Queued(q)' <=> Queued(q)
            BY <2>6 DEF Queued, Has
        <3>3. Has(SimpleLast)' <=> Has(SimpleLast)
            BY <2>6 DEF Has
        <3>4. \A q \in Pages : Queued(q) => listed' \/ out[SimpleLast] > 0
            BY <2>3, <2>5, <2>7, <3>1 DEF Whole
        <3> QED
            BY <2>1, <2>2, <2>3, <2>4, <2>5, <2>6, <2>7, <3>1, <3>2, <3>3, <3>4 DEF Whole
    <2> QED
        BY <1>0, <2>6, <2>7 DEF SkipInv
<1>14. CASE Run!Operator
    BY <1>0, <1>14 DEF Run!Operator, Run!StopStart, Run!StopClear, Run!StopSave, Run!DeleteStart,
                       Run!DeleteSave, SkipInv
<1>15. CASE UNCHANGED Run!vars
    BY <1>0, <1>15 DEF Run!vars, SkipInv, Whole, Queued, Has
<1>16. ASSUME NEW p \in Pages, Run!TakePage(p), api # "none" PROVE lost' = {} /\ api' # "none"
    BY <1>0, <1>16 DEF Run!TakePage
<1>17. ASSUME NEW p \in Pages, Run!TakePage(p) PROVE SkipInv'
    <2>1. api' = api
        BY <1>17 DEF Run!TakePage
    <2> QED
        BY <1>7, <1>16, <1>17, <2>1 DEF SkipInv
<1>18. CASE Run!MountPackages \/ Run!PageFails
    <2>1. api' = api
        BY <1>18 DEF Run!MountPackages, Run!PageFails
    <2> QED
        BY <1>9, <1>10, <1>18, <2>1 DEF SkipInv
<1> QED
    BY <1>1, <1>2, <1>3, <1>4, <1>5, <1>6, <1>8, <1>11, <1>12, <1>13, <1>14, <1>15, <1>17, <1>18
       DEF Run!Next, Run!Packer, Run!Worker, Run!Sender, Run!Tracker, Run!Mishap
\* No page is counted at the start.
LEMMA CountInit == Run!Init => CountInv
BY DEF Run!Init, Run!Idle, CountInv, Budget, Held, Has

\* Nothing is stopped at the start.
LEMMA StopInit == Run!Init => StopInv
BY DEF Run!Init, Run!Idle, StopInv, Run!StoppedSendsNothing

\* A campaign begins whole.
LEMMA SkipInit == SimpleLast \in Pages /\ Run!Init => SkipInv
BY DEF Run!Init, Run!Idle, Run!Event, Run!Status, SkipInv, Whole, Queued, Has

\* Type correctness of CampaignRun, in every state.
LEMMA RunTypesHold == Run!Spec => []RunTypes
<1>1. Run!Init => RunTypes
    BY RunTypesInit
<1>2. RunTypes /\ [Run!Next]_Run!vars => RunTypes'
    BY RunTypesStep
<1> QED
    BY <1>1, <1>2, PTL DEF Run!Spec

\* However often the trigger runs, a page of a simple campaign goes out once, and
\* once more for each failed attempt or expired key (the key campaign:<id> of
\* createBatches); of a split campaign once per run of the trigger.
THEOREM MishapsAreCounted == Run!Spec => []Run!OncePerMishap
<1>1. Run!Init => CountInv
    BY CountInit
<1>2. RunTypes /\ RunTypes' /\ CountInv /\ [Run!Next]_Run!vars => CountInv'
    BY CountStep
<1>3. RunTypes /\ CountInv => Run!OncePerMishap
    <2> SUFFICES ASSUME RunTypes, CountInv, NEW p \in Pages
                 PROVE  out[p] <= mishaps + (IF kind = "simple" THEN 1 ELSE calls)
        BY DEF Run!OncePerMishap
    <2>1. out[p] + pageQueue[p] + Held(p) <= mishaps + Budget
        BY DEF CountInv
    <2>2. out[p] \in Nat /\ pageQueue[p] \in Nat /\ Held(p) \in Nat /\ mishaps \in Nat /\ calls \in Nat
        BY DEF RunTypes, Held
    <2>3. Budget \in Nat /\ Budget <= IF kind = "simple" THEN 1 ELSE calls
        BY BudgetType DEF Budget, RunTypes
    <2> QED
        BY <2>1, <2>2, <2>3
<1> QED
    BY <1>1, <1>2, <1>3, RunTypesHold, PTL DEF Run!Spec

\* No page that starts after stopCampaign has answered goes out with contacts,
\* unless a trigger that was under way listed them again: not when the tracker
\* puts the status back, and not when the flag has expired.
THEOREM StoppedStaysStopped == Run!Spec => []Run!StoppedSendsNothing
<1>1. Run!Init => StopInv
    BY StopInit
<1>2. RunTypes /\ StopInv /\ [Run!Next]_Run!vars => StopInv'
    BY StopStep
<1>3. StopInv => Run!StoppedSendsNothing
    BY DEF StopInv
<1> QED
    BY <1>1, <1>2, <1>3, RunTypesHold, PTL DEF Run!Spec

\* A page of a simple campaign is passed over, or packaged empty, only if somebody
\* stopped or deleted the campaign: the margin of its last page is enough, whatever
\* the order of the reports and however often the trigger runs.
THEOREM SimpleReachesItsPages ==
    ASSUME SimpleLast \in Pages PROVE Run!Spec => []Run!SimpleSkipsOnlyWhenCancelled
<1>1. Run!Init => SkipInv
    BY SkipInit
<1>2. RunTypes /\ RunTypes' /\ SkipInv /\ [Run!Next]_Run!vars => SkipInv'
    BY SkipStep
<1>3. SkipInv => Run!SimpleSkipsOnlyWhenCancelled
    BY DEF SkipInv, Run!SimpleSkipsOnlyWhenCancelled, Run!SkippedOnlyWhenCancelled
<1> QED
    BY <1>1, <1>2, <1>3, RunTypesHold, PTL DEF Run!Spec

-----------------------------------------------------------------------------

(***************************************************************************)
(* A recurring campaign over days and weeks (RecurringSchedule).           *)
(***************************************************************************)
CONSTANTS Settings, Handlers, Lags, MaxTriggers, MaxTroubles

VARIABLES settings, triggers, made, running, reports, tracker, now, requests, sent, strayed

\* RecurringSchedule; row, stopFlag and mishaps are the names declared above.
Recurring == INSTANCE RecurringSchedule WITH jobs <- triggers

\* A row, column by column.
RowShape(r) == [status |-> r.status, scheduleTo |-> r.scheduleTo, count |-> r.count,
                lastSent |-> r.lastSent, task |-> r.task, deleted |-> r.deleted]
IsRow(r) == r = RowShape(r) /\ r.count \in Nat /\ r.deleted \in BOOLEAN

\* An update under way counts an occurrence, or only says that it is being sent.
CountsOne(u) == u.at = "ready" /\ u.next.count # u.loaded.count
MarksSending(u) == u.at = "ready" /\ u.next.count = u.loaded.count
IsUpdate(u) ==
    /\ u = [at |-> u.at, report |-> u.report, loaded |-> u.loaded, next |-> u.next]
    /\ u.at \in {"loaded", "ready"} /\ u.report \in {"started", "sent"}
    /\ IsRow(u.loaded) /\ ~u.loaded.deleted /\ IsRow(u.next) /\ ~u.next.deleted
    /\ MarksSending(u) => /\ u.report = "started" /\ u.next.status = "sending"
                          /\ u.next.task = u.loaded.task
                          /\ u.next.scheduleTo = u.loaded.scheduleTo
    /\ CountsOne(u) => /\ u.next.count = u.loaded.count + 1
                       /\ u.next.status \in {"scheduled", "completed"}

\* A sequence, whatever it holds.
IsSequence(s) == s \in Seq({s[i] : i \in DOMAIN s})

\* What the tracker has before it: reports, and updates under way.
TrackerTypes ==
    /\ reports = [e \in {"started", "sent"} |-> reports[e]]
    /\ reports["started"] \in Nat /\ reports["sent"] \in Nat
    /\ tracker = [h \in Handlers |-> tracker[h]]
    /\ \A h \in Handlers : tracker[h] = Recurring!Idle \/ IsUpdate(tracker[h])

\* The values the variables take; the days are in Days.  (The limit and the one
\* job do not depend on which dates nextOccurrence finds.)
RecurringTypes ==
    /\ settings.untilSend \in Nat /\ IsRow(row) /\ running \in Nat /\ IsSequence(sent)
    /\ TrackerTypes

\* Appending to a sequence makes it longer by one.
LEMMA SequenceAppend ==
    ASSUME NEW s, NEW e, IsSequence(s)
    PROVE  Len(s) \in Nat /\ Len(Append(s, e)) = Len(s) + 1 /\ IsSequence(Append(s, e))
<1> DEFINE S == {s[i] : i \in DOMAIN s}
           t == Append(s, e)
<1>1. s \in Seq(S) /\ s \in Seq(S \cup {e})
    BY DEF IsSequence
<1>2. t \in Seq(S \cup {e}) /\ Len(t) = Len(s) + 1 /\ Len(s) \in Nat
    BY <1>1
<1>3. t \in Seq({t[i] : i \in DOMAIN t})
    <2> DEFINE n == Len(t)
    <2> HIDE DEF t
    <2>0. n \in Nat /\ t \in [1..n -> S \cup {e}]
        BY <1>2
    <2>1. n \in Nat /\ DOMAIN t = 1..n /\ t = [i \in 1..n |-> t[i]]
        BY <2>0
    <2>2. t \in [1..n -> {t[i] : i \in DOMAIN t}]
        BY <2>1
    <2> HIDE DEF n
    <2> QED
        BY <2>1, <2>2
<1> QED
    BY <1>2, <1>3 DEF IsSequence

\* A handler at rest has no update, and one that is not has.
LEMMA AtRest ==
    ASSUME NEW u, u = Recurring!Idle \/ IsUpdate(u)
    PROVE  /\ u = Recurring!Idle <=> u.at = "idle"
           /\ u # Recurring!Idle => IsUpdate(u) /\ u.at \in {"loaded", "ready"}
           /\ u.at = "ready" => CountsOne(u) \/ MarksSending(u)
<1>1. Recurring!Idle.at = "idle"
    BY DEF Recurring!Idle
<1>2. IsUpdate(u) => u.at \in {"loaded", "ready"}
    BY DEF IsUpdate
<1> QED
    BY <1>1, <1>2 DEF CountsOne, MarksSending

\* What the row becomes when its occurrence is followed by another, when it is the
\* last, and when it is only said to be sending.
LEMMA RowAfter ==
    ASSUME NEW r, IsRow(r)
    PROVE  /\ IsRow(Recurring!Scheduled(r)) /\ Recurring!Scheduled(r).deleted = r.deleted
           /\ Recurring!Scheduled(r).status = "scheduled"
           /\ Recurring!Scheduled(r).count = r.count + 1
           /\ Recurring!Scheduled(r).scheduleTo = Recurring!NextDate(r.scheduleTo)
           /\ Recurring!Scheduled(r).lastSent = r.scheduleTo
           /\ Recurring!Scheduled(r).task = made + 1
<1>1. r = RowShape(r) /\ r.count \in Nat /\ r.deleted \in BOOLEAN
    BY DEF IsRow
<1>2. PICK d : d = Recurring!NextDate(r.scheduleTo)
    OBVIOUS
<1>3. PICK t : t = Recurring!Scheduled(r)
    OBVIOUS
<1>4. t = [r EXCEPT !.count = @ + 1, !.lastSent = r.scheduleTo, !.status = "scheduled",
                    !.scheduleTo = d, !.task = made + 1]
    BY <1>2, <1>3 DEF Recurring!Scheduled
<1>5. t = [status |-> "scheduled", scheduleTo |-> d, count |-> r.count + 1,
           lastSent |-> r.scheduleTo, task |-> made + 1, deleted |-> r.deleted]
    BY <1>1, <1>4 DEF RowShape
<1>6. /\ t = RowShape(t) /\ t.count = r.count + 1 /\ t.deleted = r.deleted
      /\ t.status = "scheduled" /\ t.scheduleTo = d /\ t.lastSent = r.scheduleTo
      /\ t.task = made + 1
    BY <1>5 DEF RowShape
<1>7. IsRow(t)
    BY <1>1, <1>6 DEF IsRow
<1> QED
    BY <1>2, <1>3, <1>6, <1>7

LEMMA RowEnded ==
    ASSUME NEW r, IsRow(r)
    PROVE  /\ IsRow(Recurring!Ended(r)) /\ Recurring!Ended(r).deleted = r.deleted
           /\ Recurring!Ended(r).status = "completed"
           /\ Recurring!Ended(r).count = r.count + 1
           /\ Recurring!Ended(r).lastSent = r.scheduleTo
           /\ Recurring!Ended(r).scheduleTo \in {r.scheduleTo, r.lastSent}
<1>1. r = RowShape(r) /\ r.count \in Nat /\ r.deleted \in BOOLEAN
    BY DEF IsRow
<1>2. PICK c : c = [r EXCEPT !.count = @ + 1, !.lastSent = r.scheduleTo,
                             !.status = "completed"]
    OBVIOUS
<1>3. PICK t : t = Recurring!Ended(r)
    OBVIOUS
<1>4. t = c \/ t = [c EXCEPT !.scheduleTo = r.lastSent]
    BY <1>2, <1>3 DEF Recurring!Ended
<1>5. c = [status |-> "completed", scheduleTo |-> r.scheduleTo, count |-> r.count + 1,
           lastSent |-> r.scheduleTo, task |-> r.task, deleted |-> r.deleted]
    BY <1>1, <1>2 DEF RowShape
<1>6. PICK d \in {r.scheduleTo, r.lastSent} :
         t = [status |-> "completed", scheduleTo |-> d, count |-> r.count + 1,
              lastSent |-> r.scheduleTo, task |-> r.task, deleted |-> r.deleted]
    BY <1>4, <1>5
<1>7. /\ t = RowShape(t) /\ t.count = r.count + 1 /\ t.deleted = r.deleted
      /\ t.status = "completed" /\ t.scheduleTo = d /\ t.lastSent = r.scheduleTo
    BY <1>6 DEF RowShape
<1>8. IsRow(t)
    BY <1>1, <1>7 DEF IsRow
<1> QED
    BY <1>3, <1>7, <1>8

\* The update a handler begins: the row it loaded, counted once if the campaign is
\* to recur, and else only said to be sending.
LEMMA UpdateBegun ==
    ASSUME IsRow(row), ~row.deleted, NEW e \in {"started", "sent"}, NEW u,
           u = Recurring!Update(e)
    PROVE  /\ IsUpdate(u) /\ u.report = e /\ u.loaded = row
           /\ u.at = "loaded" <=> Recurring!Recurs(e)
           /\ u.at = "ready" => MarksSending(u)
<1>1. PICK s : s = [row EXCEPT !.status = "sending"]
    OBVIOUS
<1>2. s = [status |-> "sending", scheduleTo |-> row.scheduleTo, count |-> row.count,
           lastSent |-> row.lastSent, task |-> row.task, deleted |-> row.deleted]
    BY <1>1 DEF IsRow, RowShape
<1>3. /\ IsRow(s) /\ ~s.deleted /\ s.status = "sending" /\ s.count = row.count
      /\ s.task = row.task /\ s.scheduleTo = row.scheduleTo
    BY <1>2 DEF IsRow, RowShape
<1>4. CASE Recurring!Recurs(e)
    <2>1. u = [at |-> "loaded", report |-> e, loaded |-> row, next |-> row]
        BY <1>4 DEF Recurring!Update
    <2> QED
        BY <1>4, <2>1 DEF IsUpdate, MarksSending, CountsOne
<1>5. CASE ~Recurring!Recurs(e)
    <2>1. u = [at |-> "ready", report |-> e, loaded |-> row, next |-> s]
        BY <1>1, <1>5 DEF Recurring!Update
    <2>2. e = "started"
        BY <1>5 DEF Recurring!Recurs
    <2> QED
        BY <1>3, <1>5, <2>1, <2>2 DEF IsUpdate, MarksSending, CountsOne
<1> QED
    BY <1>4, <1>5

\* Only h is at another update than before.
Others(h) == \A k \in Handlers : k # h => tracker'[k] = tracker[k]

\* The effects of the tracker's steps on the handler that takes them: a report is
\* loaded,
LEMMA LoadEffect ==
    ASSUME RecurringTypes, NEW h \in Handlers, NEW e \in {"started", "sent"}, ~row.deleted,
           tracker[h] = Recurring!Idle,
           tracker' = [tracker EXCEPT ![h] = Recurring!Update(e)]
    PROVE  /\ tracker' = [k \in Handlers |-> tracker'[k]] /\ Others(h)
           /\ tracker[h].at = "idle"
           /\ IsUpdate(tracker'[h]) /\ tracker'[h].report = e /\ tracker'[h].loaded = row
           /\ tracker'[h].at = "loaded" <=> Recurring!Recurs(e)
           /\ tracker'[h].at = "ready" => MarksSending(tracker'[h])
<1>1. PICK u : u = Recurring!Update(e)
    OBVIOUS
<1>2. tracker = [k \in Handlers |-> tracker[k]] /\ IsRow(row)
    BY DEF RecurringTypes, TrackerTypes
<1>3. tracker'[h] = u /\ tracker' = [k \in Handlers |-> tracker'[k]] /\ Others(h)
    BY <1>1, <1>2 DEF Others
<1>4. tracker[h].at = "idle"
    BY DEF Recurring!Idle
<1>5. /\ IsUpdate(u) /\ u.report = e /\ u.loaded = row
      /\ u.at = "loaded" <=> Recurring!Recurs(e)
      /\ u.at = "ready" => MarksSending(u)
    BY <1>1, <1>2, UpdateBegun
<1> QED
    BY <1>3, <1>4, <1>5

\* the next occurrence is worked out,
LEMMA RecurEffect ==
    ASSUME RecurringTypes, NEW h \in Handlers, Recurring!SetRecurring(h)
    PROVE  /\ tracker' = [k \in Handlers |-> tracker'[k]] /\ Others(h)
           /\ IsUpdate(tracker[h]) /\ tracker[h].at = "loaded"
           /\ IsUpdate(tracker'[h]) /\ CountsOne(tracker'[h])
           /\ tracker'[h].report = tracker[h].report
           /\ tracker'[h].loaded = tracker[h].loaded
           /\ \/ /\ Recurring!GoesOn(tracker[h].loaded)
                 /\ tracker'[h].next = Recurring!Scheduled(tracker[h].loaded)
                 /\ tracker'[h].next.status = "scheduled"
                 /\ triggers' = triggers \cup
                       {[id |-> tracker'[h].next.task, owner |-> "tracker",
                         day |-> tracker'[h].next.scheduleTo]}
              \/ /\ tracker'[h].next = Recurring!Ended(tracker[h].loaded)
                 /\ tracker'[h].next.status = "completed" /\ triggers' = triggers
<1> DEFINE u == tracker[h]
           r == u.loaded
           v == tracker'[h]
<1>1. u.at = "loaded" /\ tracker = [k \in Handlers |-> tracker[k]]
    BY DEF Recurring!SetRecurring, RecurringTypes, TrackerTypes
<1>2. IsUpdate(u)
    BY <1>1, AtRest DEF RecurringTypes, TrackerTypes
<1>3. /\ u = [at |-> "loaded", report |-> u.report, loaded |-> r, next |-> u.next]
      /\ u.report \in {"started", "sent"} /\ IsRow(r) /\ ~r.deleted /\ r.count \in Nat
    BY <1>1, <1>2 DEF IsUpdate, IsRow
<1>4. PICK n : /\ tracker' = [tracker EXCEPT ![h].at = "ready", ![h].next = n]
               /\ \/ n = Recurring!Scheduled(r)
                  \/ n = Recurring!Ended(r)
    BY DEF Recurring!SetRecurring
<1>5. tracker' = [tracker EXCEPT ![h] = [u EXCEPT !.at = "ready", !.next = n]]
    BY <1>1, <1>4
<1>6. v = [u EXCEPT !.at = "ready", !.next = n] /\ Others(h)
      /\ tracker' = [k \in Handlers |-> tracker'[k]]
    BY <1>1, <1>5 DEF Others
<1>7. v = [at |-> "ready", report |-> u.report, loaded |-> r, next |-> n]
    BY <1>3, <1>6
<1>8. /\ v.at = "ready" /\ v.report = u.report /\ v.loaded = r /\ v.next = n
      /\ v = [at |-> v.at, report |-> v.report, loaded |-> v.loaded, next |-> v.next]
    BY <1>7
<1> HIDE DEF v
<1>9. IsRow(n) /\ ~n.deleted /\ n.count = r.count + 1 /\ n.status \in {"scheduled", "completed"}
    BY <1>3, <1>4, RowAfter, RowEnded
<1>10. CountsOne(v) /\ ~MarksSending(v)
    BY <1>3, <1>8, <1>9 DEF CountsOne, MarksSending
<1>11. IsUpdate(v)
    BY <1>3, <1>8, <1>9, <1>10 DEF IsUpdate
<1>12. \/ /\ Recurring!GoesOn(r) /\ n = Recurring!Scheduled(r)
          /\ triggers' = triggers \cup {[id |-> made + 1, owner |-> "tracker",
                                         day |-> Recurring!NextDate(r.scheduleTo)]}
       \/ n = Recurring!Ended(r) /\ triggers' = triggers
    <2>1. CASE /\ Recurring!GoesOn(r)
               /\ triggers' = triggers \cup {[id |-> made + 1, owner |-> "tracker",
                                              day |-> Recurring!NextDate(r.scheduleTo)]}
               /\ tracker' = [tracker EXCEPT ![h].at = "ready",
                                             ![h].next = Recurring!Scheduled(r)]
        <3>1. PICK m : m = Recurring!Scheduled(r)
            OBVIOUS
        <3>2. tracker' = [tracker EXCEPT ![h] = [u EXCEPT !.at = "ready", !.next = m]]
            BY <1>1, <2>1, <3>1
        <3>3. v = [u EXCEPT !.at = "ready", !.next = m]
            BY <1>1, <3>2 DEF v
        <3>4. n = m
            BY <1>3, <1>8, <3>3
        <3> QED
            BY <2>1, <3>1, <3>4
    <2>2. CASE /\ triggers' = triggers
               /\ tracker' = [tracker EXCEPT ![h].at = "ready", ![h].next = Recurring!Ended(r)]
        <3>1. PICK m : m = Recurring!Ended(r)
            OBVIOUS
        <3>2. tracker' = [tracker EXCEPT ![h] = [u EXCEPT !.at = "ready", !.next = m]]
            BY <1>1, <2>2, <3>1
        <3>3. v = [u EXCEPT !.at = "ready", !.next = m]
            BY <1>1, <3>2 DEF v
        <3>4. n = m
            BY <1>3, <1>8, <3>3
        <3> QED
            BY <2>2, <3>1, <3>4
    <2> QED
        BY <2>1, <2>2 DEF Recurring!SetRecurring
<1>13. CASE /\ Recurring!GoesOn(r) /\ n = Recurring!Scheduled(r)
            /\ triggers' = triggers \cup {[id |-> made + 1, owner |-> "tracker",
                                           day |-> Recurring!NextDate(r.scheduleTo)]}
    <2>1. n.status = "scheduled" /\ n.task = made + 1
          /\ n.scheduleTo = Recurring!NextDate(r.scheduleTo)
        BY <1>3, <1>13, RowAfter
    <2> QED
        BY <1>1, <1>2, <1>6, <1>8, <1>10, <1>11, <1>13, <2>1 DEF v
<1>14. CASE n = Recurring!Ended(r) /\ triggers' = triggers
    <2>1. n.status = "completed"
        BY <1>3, <1>14, RowEnded
    <2> QED
        BY <1>1, <1>2, <1>6, <1>8, <1>10, <1>11, <1>14, <2>1 DEF v
<1> QED
    BY <1>12, <1>13, <1>14

\* and the handler comes to rest.
LEMMA RestEffect ==
    ASSUME RecurringTypes, NEW h \in Handlers, tracker[h] # Recurring!Idle,
           tracker' = [tracker EXCEPT ![h] = Recurring!Idle]
    PROVE  /\ tracker' = [k \in Handlers |-> tracker'[k]] /\ Others(h)
           /\ IsUpdate(tracker[h]) /\ tracker[h].at \in {"loaded", "ready"}
           /\ tracker'[h] = Recurring!Idle /\ tracker'[h].at = "idle"
           /\ IsRow(tracker[h].next) /\ ~tracker[h].next.deleted
           /\ tracker[h].report \in {"started", "sent"}
<1>1. tracker = [k \in Handlers |-> tracker[k]]
    BY DEF RecurringTypes, TrackerTypes
<1>2. /\ tracker'[h] = Recurring!Idle /\ Others(h)
      /\ tracker' = [k \in Handlers |-> tracker'[k]]
    BY <1>1 DEF Others
<1>3. IsUpdate(tracker[h]) /\ tracker[h].at \in {"loaded", "ready"}
    BY AtRest DEF RecurringTypes, TrackerTypes
<1>4. tracker'[h].at = "idle"
    BY <1>2 DEF Recurring!Idle
<1> QED
    BY <1>2, <1>3, <1>4 DEF IsUpdate

\* A report is put before the tracker, or taken.
LEMMA ReportEffect ==
    ASSUME RecurringTypes, NEW e \in {"started", "sent"}
    PROVE  /\ reports' = Recurring!Put(e) =>
                 /\ reports'[e] = reports[e] + 1
                 /\ \A f \in {"started", "sent"} : f # e => reports'[f] = reports[f]
                 /\ reports' = [f \in {"started", "sent"} |-> reports'[f]]
                 /\ reports'["started"] \in Nat /\ reports'["sent"] \in Nat
           /\ reports' = Recurring!Take(e) /\ reports[e] > 0 =>
                 /\ reports'[e] = reports[e] - 1
                 /\ \A f \in {"started", "sent"} : f # e => reports'[f] = reports[f]
                 /\ reports' = [f \in {"started", "sent"} |-> reports'[f]]
                 /\ reports'["started"] \in Nat /\ reports'["sent"] \in Nat
<1>1. /\ reports = [f \in {"started", "sent"} |-> reports[f]]
      /\ reports["started"] \in Nat /\ reports["sent"] \in Nat
    BY DEF RecurringTypes, TrackerTypes
<1>2. CASE reports' = Recurring!Put(e)
    <2>1. /\ reports'[e] = reports[e] + 1
          /\ \A f \in {"started", "sent"} : f # e => reports'[f] = reports[f]
          /\ reports' = [f \in {"started", "sent"} |-> reports'[f]]
        BY <1>1, <1>2 DEF Recurring!Put
    <2>2. reports'["started"] \in Nat /\ reports'["sent"] \in Nat
        BY <1>1, <2>1
    <2> QED
        BY <1>2, <2>1, <2>2 DEF Recurring!Take
<1>3. CASE reports' = Recurring!Take(e) /\ reports[e] > 0
    <2>1. /\ reports'[e] = reports[e] - 1
          /\ \A f \in {"started", "sent"} : f # e => reports'[f] = reports[f]
          /\ reports' = [f \in {"started", "sent"} |-> reports'[f]]
        BY <1>1, <1>3 DEF Recurring!Take
    <2>2. reports'["started"] \in Nat /\ reports'["sent"] \in Nat
        BY <1>1, <1>3, <2>1
    <2>3. reports' # Recurring!Put(e)
        BY <1>1, <2>1 DEF Recurring!Put
    <2> QED
        BY <2>1, <2>2, <2>3
<1> QED
    BY <1>2, <1>3

\* Every step keeps the types.
LEMMA RecurringTypesStep ==
    ASSUME RecurringTypes, [Recurring!Next]_Recurring!vars PROVE RecurringTypes'
<1>0. /\ settings.untilSend \in Nat /\ IsRow(row) /\ running \in Nat /\ IsSequence(sent)
      /\ TrackerTypes
    BY DEF RecurringTypes
<1>1. ASSUME UNCHANGED <<reports, tracker>> PROVE TrackerTypes'
    BY <1>0, <1>1 DEF TrackerTypes
<1>2. ASSUME NEW e \in {"started", "sent"}, reports' = Recurring!Put(e), UNCHANGED tracker
      PROVE  TrackerTypes'
    BY <1>0, <1>2, ReportEffect DEF TrackerTypes
<1>3. ASSUME NEW job \in triggers, Recurring!Fire(job) PROVE RecurringTypes'
    <2>1. IsSequence(Append(sent, job.day))
        BY <1>0, SequenceAppend
    <2>2. /\ running' \in Nat /\ UNCHANGED <<settings, row, tracker>>
          /\ reports' = reports \/ reports' = Recurring!Put("started")
          /\ sent' \in {sent, Append(sent, job.day)}
        BY <1>0, <1>3 DEF Recurring!Fire
    <2>3. IsSequence(sent')
        BY <1>0, <2>1, <2>2
    <2> QED
        BY <1>0, <1>1, <1>2, <2>2, <2>3 DEF RecurringTypes
<1>4. CASE Recurring!LastPage \/ Recurring!LastPageFails
    <2>1. /\ running' \in Nat /\ UNCHANGED <<settings, row, tracker, sent>>
          /\ reports' = reports \/ reports' = Recurring!Put("sent")
        BY <1>0, <1>4 DEF Recurring!LastPage, Recurring!LastPageFails
    <2> QED
        BY <1>0, <1>1, <1>2, <2>1 DEF RecurringTypes, IsSequence
<1>5. ASSUME NEW h \in Handlers, NEW e \in {"started", "sent"},
             Recurring!LoadRow(h, e) \/ Recurring!ReportRepeats(h, e)
      PROVE  RecurringTypes'
    <2>1. /\ UNCHANGED <<settings, row, running, sent>>
          /\ reports' = reports \/ (reports' = Recurring!Take(e) /\ reports[e] > 0)
          /\ \/ UNCHANGED tracker
             \/ /\ ~row.deleted /\ tracker[h] = Recurring!Idle
                /\ tracker' = [tracker EXCEPT ![h] = Recurring!Update(e)]
        BY <1>5 DEF Recurring!LoadRow, Recurring!ReportRepeats
    <2>2. /\ reports' = [f \in {"started", "sent"} |-> reports'[f]]
          /\ reports'["started"] \in Nat /\ reports'["sent"] \in Nat
        BY <1>0, <2>1, ReportEffect DEF TrackerTypes
    <2>3. /\ tracker' = [k \in Handlers |-> tracker'[k]]
          /\ \A k \in Handlers : tracker'[k] = Recurring!Idle \/ IsUpdate(tracker'[k])
        <3>1. CASE UNCHANGED tracker
            BY <1>0, <3>1 DEF TrackerTypes
        <3>2. CASE /\ ~row.deleted /\ tracker[h] = Recurring!Idle
                   /\ tracker' = [tracker EXCEPT ![h] = Recurring!Update(e)]
            BY <1>0, <3>2, LoadEffect DEF TrackerTypes, Others
        <3> QED
            BY <2>1, <3>1, <3>2
    <2>4. TrackerTypes'
        BY <2>2, <2>3 DEF TrackerTypes, Recurring!Idle
    <2> QED
        BY <1>0, <2>1, <2>4 DEF RecurringTypes, IsSequence
<1>6. ASSUME NEW h \in Handlers, Recurring!SetRecurring(h) PROVE RecurringTypes'
    <2>1. UNCHANGED <<settings, row, running, sent, reports>>
        BY <1>6 DEF Recurring!SetRecurring
    <2>2. /\ tracker' = [k \in Handlers |-> tracker'[k]]
          /\ \A k \in Handlers : tracker'[k] = Recurring!Idle \/ IsUpdate(tracker'[k])
        BY <1>0, <1>6, RecurEffect DEF TrackerTypes, Others
    <2>3. TrackerTypes'
        BY <1>0, <2>1, <2>2 DEF TrackerTypes, Recurring!Idle
    <2> QED
        BY <1>0, <2>1, <2>3 DEF RecurringTypes, IsSequence
<1>7. ASSUME NEW h \in Handlers, Recurring!WriteRow(h) \/ Recurring!UpdateFails(h)
      PROVE  RecurringTypes'
    <2>1. tracker[h] # Recurring!Idle /\ tracker' = [tracker EXCEPT ![h] = Recurring!Idle]
        BY <1>7 DEF Recurring!WriteRow, Recurring!UpdateFails, Recurring!Idle
    <2>2. /\ tracker' = [k \in Handlers |-> tracker'[k]]
          /\ \A k \in Handlers : tracker'[k] = Recurring!Idle \/ IsUpdate(tracker'[k])
          /\ IsRow(tracker[h].next) /\ tracker[h].report \in {"started", "sent"}
        BY <1>0, <2>1, RestEffect DEF TrackerTypes, Others
    <2>3. /\ UNCHANGED <<settings, running, sent>>
          /\ row' = row \/ row' = tracker[h].next
          /\ reports' = reports \/ reports' = Recurring!Put(tracker[h].report)
        BY <1>7 DEF Recurring!WriteRow, Recurring!UpdateFails
    <2>4. IsRow(row')
        BY <1>0, <2>2, <2>3
    <2>5. /\ reports' = [f \in {"started", "sent"} |-> reports'[f]]
          /\ reports'["started"] \in Nat /\ reports'["sent"] \in Nat
        BY <1>0, <2>2, <2>3, ReportEffect DEF TrackerTypes
    <2>6. TrackerTypes'
        BY <2>2, <2>5 DEF TrackerTypes, Recurring!Idle
    <2> QED
        BY <1>0, <2>3, <2>4, <2>6 DEF RecurringTypes, IsSequence
<1>8. CASE Recurring!Operating
    <2>1. UNCHANGED <<settings, running, reports, tracker, sent>>
        BY <1>8 DEF Recurring!Operating, Recurring!Stop, Recurring!Delete, Recurring!Reschedule
    <2>2. IsRow(row')
        <3>1. PICK d : \/ row' = [row EXCEPT !.status = "stopped"]
                       \/ row' = [row EXCEPT !.status = "stopped", !.deleted = TRUE]
                       \/ row' = [row EXCEPT !.scheduleTo = d, !.task = made + 1]
            BY <1>8
               DEF Recurring!Operating, Recurring!Stop, Recurring!Delete, Recurring!Reschedule
        <3> QED
            BY <1>0, <3>1 DEF IsRow, RowShape
    <2> QED
        BY <1>0, <1>1, <2>1, <2>2 DEF RecurringTypes, IsSequence
<1>9. CASE Recurring!StopFlagExpires \/ Recurring!Tick \/ UNCHANGED Recurring!vars
    <2>1. UNCHANGED <<settings, row, running, reports, tracker, sent>>
        BY <1>9 DEF Recurring!StopFlagExpires, Recurring!Tick, Recurring!vars
    <2> QED
        BY <1>0, <1>1, <2>1 DEF RecurringTypes, IsSequence
<1> QED
    BY <1>3, <1>4, <1>5, <1>6, <1>7, <1>8, <1>9
       DEF Recurring!Next, Recurring!Sending, Recurring!Loading, Recurring!Updating,
           Recurring!Trouble

\* An update that carries the campaign on, from the report of its last page; and one
\* that comes late, when the campaign is over with c occurrences counted.
CarriesOn(u) == u.at = "loaded" /\ u.report = "sent"
ComesLate(u, c) == u.at = "loaded" /\ u.report = "started" /\ u.loaded.count = c

NoneCarries == \A h \in Handlers : ~CarriesOn(tracker[h])
NoneCounts == \A h \in Handlers : ~CountsOne(tracker[h])

\* One is about to write that there will be no other occurrence.
IsEnding == \E h \in Handlers : CountsOne(tracker[h]) /\ tracker[h].next.status = "completed"

\* A campaign goes on in one place at a time: as a job, as an occurrence being
\* sent, as the report of its last page, or as the update this leads to.
OneToken ==
    /\ \A i, j \in triggers : i = j
    /\ triggers # {} => running = 0 /\ reports["sent"] = 0 /\ NoneCarries
    /\ running <= 1
    /\ running > 0 => reports["sent"] = 0 /\ NoneCarries
    /\ reports["sent"] <= 1
    /\ reports["sent"] > 0 => NoneCarries
    /\ \A h, k \in Handlers : CarriesOn(tracker[h]) /\ CarriesOn(tracker[k]) => h = k

\* It goes on nowhere.
NoToken == triggers = {} /\ running = 0 /\ reports["sent"] = 0 /\ NoneCarries

\* The row says that it is over, or said so to an update under way.
IsOver == row.status = "completed" \/ \E h \in Handlers : ComesLate(tracker[h], row.count)

\* Of the updates under way, one at most counts an occurrence, the row's own; one
\* that comes late finds the campaign over, or deleted since; and one that says
\* the campaign is sending is behind when it is over.
UpdatesInv ==
    /\ \A h \in Handlers : tracker[h].at # "idle" => tracker[h].loaded.count <= row.count
    /\ \A h \in Handlers : CountsOne(tracker[h]) => tracker[h].loaded.count = row.count
    /\ \A h, k \in Handlers : CountsOne(tracker[h]) /\ CountsOne(tracker[k]) => h = k
    /\ \A h \in Handlers : ComesLate(tracker[h], row.count) =>
          row.status = "completed" \/ row.deleted
    /\ \A h \in Handlers : IsOver /\ MarksSending(tracker[h]) =>
          tracker[h].loaded.count < row.count
    /\ \A h \in Handlers : CountsOne(tracker[h]) /\ tracker[h].report = "sent" => ~IsOver
    /\ IsEnding => NoToken
    /\ IsOver /\ NoneCounts => NoToken

\* No report was handled twice, no count undone and no occurrence rescheduled.
Undisturbed == strayed \subseteq {"unreported", "completed", "stopped", "undeleted", "overtaken"}

\* An undisturbed campaign is in one place, and in none when it is completed.
TokenInv == Undisturbed => OneToken /\ UpdatesInv

\* What went wrong is not forgotten.
LEMMA StrayedGrows ==
    ASSUME [Recurring!Next]_Recurring!vars PROVE strayed \subseteq strayed'
BY DEF Recurring!Next, Recurring!vars, Recurring!Sending, Recurring!Loading,
   Recurring!Updating, Recurring!Trouble, Recurring!Operating, Recurring!Fire,
   Recurring!LastPage, Recurring!LastPageFails, Recurring!LoadRow, Recurring!ReportRepeats,
   Recurring!SetRecurring, Recurring!WriteRow, Recurring!UpdateFails, Recurring!Stop,
   Recurring!Delete, Recurring!Reschedule, Recurring!StopFlagExpires, Recurring!Tick

\* A step that leaves the tracker alone does not bring the campaign back.
LEMMA UpdatesAlone ==
    ASSUME UpdatesInv, UNCHANGED tracker, row'.count = row.count,
           row'.status = "completed" => row.status = "completed",
           row.status = "completed" \/ row.deleted => row'.status = "completed" \/ row'.deleted,
           NoToken => NoToken'
    PROVE  UpdatesInv'
<1>1. IsOver' => IsOver
    BY DEF IsOver
<1>2. NoneCounts' = NoneCounts
    BY DEF NoneCounts
<1>3. IsEnding' = IsEnding
    BY DEF IsEnding
<1> QED
    BY <1>1, <1>2, <1>3 DEF UpdatesInv

\* A report is loaded: the token goes with the report of a last page.
LEMMA TokenLoad ==
    ASSUME RecurringTypes, OneToken, UpdatesInv, NEW h \in Handlers,
           NEW e \in {"started", "sent"}, Recurring!LoadRow(h, e)
    PROVE  /\ OneToken' /\ UpdatesInv' /\ (NoToken => NoToken')
           /\ NoneCounts' <=> NoneCounts
           /\ IsEnding' => IsEnding
<1>0. /\ IsRow(row) /\ UNCHANGED <<row, triggers, running>>
      /\ tracker[h] = Recurring!Idle /\ reports[e] > 0 /\ reports' = Recurring!Take(e)
    BY DEF Recurring!LoadRow, RecurringTypes
<1>1. /\ reports'[e] = reports[e] - 1 /\ reports["sent"] \in Nat
      /\ \A f \in {"started", "sent"} : f # e => reports'[f] = reports[f]
    BY <1>0, ReportEffect DEF RecurringTypes, TrackerTypes
<1>2. CASE row.deleted
    <2>1. UNCHANGED tracker
        BY <1>2 DEF Recurring!LoadRow
    <2>2. OneToken'
        BY <1>0, <1>1, <2>1 DEF OneToken, NoneCarries
    <2>3. NoToken => NoToken'
        BY <1>0, <1>1, <2>1 DEF NoToken, NoneCarries
    <2> QED
        BY <1>0, <2>1, <2>2, <2>3, UpdatesAlone DEF NoneCounts, IsEnding
<1>3. CASE ~row.deleted
    <2> DEFINE v == tracker'[h]
    <2>1. tracker' = [tracker EXCEPT ![h] = Recurring!Update(e)]
        BY <1>3 DEF Recurring!LoadRow
    <2>2. /\ \A k \in Handlers : k # h => tracker'[k] = tracker[k]
          /\ tracker[h].at = "idle"
          /\ IsUpdate(v) /\ v.report = e /\ v.loaded = row
          /\ v.at = "loaded" <=> Recurring!Recurs(e)
          /\ v.at = "ready" => MarksSending(v)
        BY <1>0, <1>3, <2>1, LoadEffect DEF Others
    <2> HIDE DEF v
    <2>3. /\ ~CountsOne(v) /\ ~CarriesOn(tracker[h]) /\ ~CountsOne(tracker[h])
          /\ ~MarksSending(tracker[h]) /\ ~ComesLate(tracker[h], row.count)
        BY <2>2 DEF CountsOne, MarksSending, CarriesOn, ComesLate, IsUpdate
    <2>4. CarriesOn(v) <=> e = "sent"
        BY <2>2 DEF CarriesOn, Recurring!Recurs
    <2>5. ComesLate(v, row.count) => e = "started" /\ row.status = "completed"
        BY <2>2 DEF ComesLate, Recurring!Recurs
    <2>6. MarksSending(v) => row.status # "completed"
        BY <2>2 DEF MarksSending, Recurring!Recurs, IsUpdate
    <2>7. OneToken'
        <3>1. CASE e = "sent"
            <4>1. NoneCarries /\ triggers = {} /\ running = 0 /\ reports'["sent"] = 0
                BY <1>0, <1>1, <3>1 DEF OneToken, RecurringTypes
            <4>2. \A k \in Handlers : CarriesOn(tracker'[k]) => k = h
                BY <2>2, <4>1 DEF NoneCarries
            <4> QED
                BY <1>0, <4>1, <4>2 DEF OneToken
        <3>2. CASE e = "started"
            <4>1. \A k \in Handlers : CarriesOn(tracker'[k]) => CarriesOn(tracker[k])
                BY <2>2, <2>4, <3>2 DEF v
            <4>2. reports'["sent"] = reports["sent"]
                BY <1>1, <3>2
            <4> QED
                BY <1>0, <4>1, <4>2 DEF OneToken, NoneCarries
        <3> QED
            BY <3>1, <3>2
    <2>8. NoneCounts' <=> NoneCounts
        BY <2>2, <2>3 DEF NoneCounts, v
    <2>9. IsOver' <=> IsOver
        BY <1>0, <2>2, <2>3, <2>5 DEF IsOver, v
    <2>10. NoToken => e = "started" /\ NoToken'
        BY <1>0, <1>1, <2>2, <2>4 DEF NoToken, NoneCarries, v
    <2>11. IsOver => row.status = "completed"
        BY <1>3 DEF IsOver, UpdatesInv
    <2>12. \A k \in Handlers : tracker'[k].at # "idle" => tracker'[k].loaded.count <= row'.count
        BY <1>0, <2>2 DEF UpdatesInv, IsRow, v
    <2>13. \A k \in Handlers : CountsOne(tracker'[k]) =>
              /\ k # h /\ tracker'[k] = tracker[k] /\ CountsOne(tracker[k])
        BY <2>2, <2>3 DEF v
    <2>14. \A k \in Handlers : ComesLate(tracker'[k], row'.count) =>
              row'.status = "completed" \/ row'.deleted
        BY <1>0, <2>2, <2>5 DEF UpdatesInv, v
    <2>15. \A k \in Handlers : IsOver' /\ MarksSending(tracker'[k]) =>
              tracker'[k].loaded.count < row'.count
        BY <1>0, <2>2, <2>6, <2>9, <2>11 DEF UpdatesInv, v
    <2>16. IsEnding' => IsEnding
        BY <2>13 DEF IsEnding
    <2>17. UpdatesInv'
        BY <1>0, <2>8, <2>9, <2>10, <2>12, <2>13, <2>14, <2>15, <2>16 DEF UpdatesInv
    <2> QED
        BY <2>7, <2>8, <2>10, <2>16, <2>17
<1> QED
    BY <1>2, <1>3

\* The next occurrence is worked out: the token becomes a job, or the campaign ends.
LEMMA TokenRecur ==
    ASSUME RecurringTypes, OneToken, UpdatesInv, NEW h \in Handlers,
           Recurring!SetRecurring(h), "overwritten" \notin strayed'
    PROVE  OneToken' /\ UpdatesInv' /\ NoneCounts /\ tracker[h].loaded.count = row.count
           /\ (triggers' = triggers => NoToken')
<1> DEFINE u == tracker[h]
           v == tracker'[h]
<1>0. /\ IsRow(row) /\ UNCHANGED <<row, running, reports>> /\ u.loaded.count = row.count
      /\ ~\E k \in Handlers : Recurring!Counting(k)
    BY DEF Recurring!SetRecurring, RecurringTypes
<1>1. NoneCounts
    BY <1>0 DEF NoneCounts, CountsOne, Recurring!Counting
<1>2. /\ \A k \in Handlers : k # h => tracker'[k] = tracker[k]
      /\ IsUpdate(u) /\ u.at = "loaded" /\ IsUpdate(v) /\ CountsOne(v)
      /\ v.report = u.report /\ v.loaded = u.loaded
      /\ \/ /\ v.next.status = "scheduled"
            /\ triggers' = triggers \cup
                 {[id |-> v.next.task, owner |-> "tracker", day |-> v.next.scheduleTo]}
         \/ v.next.status = "completed" /\ triggers' = triggers
    BY RecurEffect DEF Others
<1> HIDE DEF u, v
<1>3. u.report \in {"started", "sent"}
    BY <1>2 DEF IsUpdate
<1>4. /\ ~CarriesOn(v) /\ ~MarksSending(v) /\ ~ComesLate(v, row.count) /\ v.at # "idle"
    BY <1>2 DEF CarriesOn, MarksSending, ComesLate, CountsOne
<1>5. triggers = {} /\ running = 0 /\ reports["sent"] = 0
      /\ \A k \in Handlers : CarriesOn(tracker[k]) => k = h
    <2>1. CASE u.report = "sent"
        BY <1>2, <2>1 DEF OneToken, NoneCarries, CarriesOn, RecurringTypes, TrackerTypes, u
    <2>2. CASE u.report = "started"
        <3>1. ComesLate(u, row.count)
            BY <1>0, <1>2, <2>2 DEF ComesLate, u
        <3>2. NoToken
            BY <1>1, <3>1 DEF IsOver, UpdatesInv, u
        <3> QED
            BY <3>2 DEF NoToken, NoneCarries
    <2> QED
        BY <1>3, <2>1, <2>2
<1>6. NoneCarries'
    BY <1>2, <1>4, <1>5 DEF NoneCarries, v
<1>7. \A i, j \in triggers' : i = j
    BY <1>2, <1>5
<1>8. OneToken'
    BY <1>0, <1>5, <1>6, <1>7 DEF OneToken, NoneCarries
<1>9. triggers' = triggers => NoToken'
    BY <1>0, <1>5, <1>6 DEF NoToken, NoneCarries
<1>10. \A k \in Handlers : CountsOne(tracker'[k]) => k = h
    BY <1>1, <1>2 DEF NoneCounts
<1>11. v.loaded.count = row.count
    BY <1>0, <1>2 DEF u
<1>12. IsOver' => IsOver
    BY <1>0, <1>2, <1>4 DEF IsOver, v
<1>13. u.report = "sent" => ~IsOver
    <2>1. u.report = "sent" => ~NoToken
        BY <1>2 DEF NoToken, NoneCarries, CarriesOn, u
    <2> QED
        BY <1>1, <2>1 DEF UpdatesInv
<1>14. v.next.status = "completed" => NoToken'
    BY <1>2, <1>9
<1>15. \A k \in Handlers : tracker'[k].at # "idle" => tracker'[k].loaded.count <= row'.count
    BY <1>0, <1>2, <1>11 DEF UpdatesInv, IsRow, v
<1>16. \A k \in Handlers : CountsOne(tracker'[k]) => tracker'[k].loaded.count = row'.count
    BY <1>0, <1>10, <1>11 DEF v
<1>17. \A k \in Handlers : ComesLate(tracker'[k], row'.count) =>
          row'.status = "completed" \/ row'.deleted
    BY <1>0, <1>2, <1>4 DEF UpdatesInv, v
<1>18. \A k \in Handlers : IsOver' /\ MarksSending(tracker'[k]) =>
          tracker'[k].loaded.count < row'.count
    BY <1>0, <1>2, <1>4, <1>12 DEF UpdatesInv, v
<1>19. \A k \in Handlers : CountsOne(tracker'[k]) /\ tracker'[k].report = "sent" => ~IsOver'
    BY <1>2, <1>10, <1>12, <1>13 DEF v
<1>20. IsEnding' => NoToken'
    BY <1>10, <1>14 DEF IsEnding, v
<1>21. ~NoneCounts'
    BY <1>2 DEF NoneCounts, v
<1>22. UpdatesInv'
    BY <1>10, <1>15, <1>16, <1>17, <1>18, <1>19, <1>20, <1>21 DEF UpdatesInv
<1> QED
    BY <1>0, <1>1, <1>8, <1>9, <1>22 DEF u

\* The row is written: the occurrence is counted, or said to be sending.
LEMMA TokenWrite ==
    ASSUME RecurringTypes, OneToken, UpdatesInv, NEW h \in Handlers,
           Recurring!WriteRow(h), "overwritten" \notin strayed'
    PROVE  /\ OneToken' /\ UpdatesInv' /\ tracker[h].loaded.count = row.count
           /\ NoToken => NoToken'
           /\ IsEnding' => IsEnding
           /\ CountsOne(tracker[h]) \/ MarksSending(tracker[h])
           /\ MarksSending(tracker[h]) => ~IsOver /\ row'.count = row.count
                 /\ (NoneCounts' <=> NoneCounts)
           /\ CountsOne(tracker[h]) => row'.count = row.count + 1 /\ NoneCounts'
<1> DEFINE u == tracker[h]
<1>0. /\ UNCHANGED <<triggers, running, reports>> /\ row' = u.next /\ u.at = "ready"
      /\ tracker' = [tracker EXCEPT ![h] = Recurring!Idle] /\ u.loaded.count = row.count
    BY DEF Recurring!WriteRow, Recurring!Harm
<1>1. u # Recurring!Idle
    BY <1>0 DEF Recurring!Idle
<1>2. /\ \A k \in Handlers : k # h => tracker'[k] = tracker[k]
      /\ IsUpdate(u) /\ tracker'[h].at = "idle" /\ IsRow(u.next) /\ ~u.next.deleted
    BY <1>0, <1>1, RestEffect DEF Others
<1> HIDE DEF u
<1>3. CountsOne(u) \/ MarksSending(u)
    BY <1>0 DEF CountsOne, MarksSending
<1>4. /\ ~CarriesOn(tracker'[h]) /\ ~ComesLate(tracker'[h], row'.count)
      /\ ~CountsOne(tracker'[h]) /\ ~MarksSending(tracker'[h])
      /\ ~CarriesOn(u)
    BY <1>0, <1>2 DEF CarriesOn, ComesLate, CountsOne, MarksSending
<1>5. \A k \in Handlers : CarriesOn(tracker'[k]) <=> CarriesOn(tracker[k])
    BY <1>2, <1>4 DEF u
<1>6. OneToken'
    BY <1>0, <1>5 DEF OneToken, NoneCarries
<1>7. NoToken' <=> NoToken
    BY <1>0, <1>5 DEF NoToken, NoneCarries
<1>8. /\ \A k \in Handlers : CountsOne(tracker'[k]) => k # h /\ CountsOne(tracker[k])
      /\ \A k \in Handlers : k # h => (CountsOne(tracker'[k]) <=> CountsOne(tracker[k]))
    BY <1>2, <1>4
<1>12. IsEnding' => IsEnding
    BY <1>2, <1>8 DEF IsEnding
<1>9. row.count \in Nat /\ row'.count \in Nat
    BY <1>0, <1>2 DEF RecurringTypes, IsRow
<1>10. CASE CountsOne(u)
    <2>1. row'.count = row.count + 1 /\ row'.status \in {"scheduled", "completed"}
        BY <1>0, <1>2, <1>10 DEF IsUpdate
    <2>2. NoneCounts'
        BY <1>8, <1>10 DEF NoneCounts, UpdatesInv, u
    <2>3. \A k \in Handlers : tracker'[k].at # "idle" => /\ tracker'[k] = tracker[k]
                                                         /\ tracker[k].loaded.count <= row.count
        BY <1>2 DEF UpdatesInv
    <2>4. \A k \in Handlers : k # h /\ tracker[k].at # "idle" => tracker[k].loaded.count \in Nat
        <3>1. \A k \in Handlers : tracker[k].at # "idle" => IsUpdate(tracker[k])
            BY AtRest DEF RecurringTypes, TrackerTypes
        <3> QED
            BY <3>1 DEF IsUpdate, IsRow
    <2>5. \A k \in Handlers : tracker'[k].at # "idle" => /\ tracker'[k].loaded.count <= row'.count
                                                         /\ tracker'[k].loaded.count < row'.count
        BY <1>2, <1>9, <2>1, <2>3, <2>4
    <2>6. \A k \in Handlers : ~ComesLate(tracker'[k], row'.count)
        BY <1>9, <2>1, <2>5 DEF ComesLate
    <2>7. \A k \in Handlers : MarksSending(tracker'[k]) => tracker'[k].at # "idle"
        BY DEF MarksSending
    <2>8. IsOver' => NoToken'
        <3>1. IsOver' => row'.status = "completed"
            BY <2>6 DEF IsOver
        <3> QED
            BY <1>0, <1>7, <1>10, <3>1 DEF UpdatesInv, IsEnding, u
    <2>9. ~IsEnding' /\ \A k \in Handlers : ~CountsOne(tracker'[k])
        BY <2>2 DEF NoneCounts, IsEnding
    <2>10. UpdatesInv'
        BY <2>2, <2>5, <2>6, <2>7, <2>8, <2>9 DEF UpdatesInv
    <2>11. ~MarksSending(u)
        BY <1>10 DEF CountsOne, MarksSending
    <2> QED
        BY <1>0, <1>6, <1>7, <1>10, <1>12, <2>1, <2>2, <2>10, <2>11 DEF u
<1>11. CASE MarksSending(u)
    <2>1. row'.count = row.count /\ row'.status = "sending"
        BY <1>0, <1>2, <1>11 DEF IsUpdate, MarksSending
    <2>2. ~IsOver
        BY <1>0, <1>9, <1>11 DEF UpdatesInv, u
    <2>3. ~IsOver'
        BY <1>2, <1>4, <2>1, <2>2 DEF IsOver
    <2>4. ~CountsOne(u)
        BY <1>11 DEF CountsOne, MarksSending
    <2>5. NoneCounts' <=> NoneCounts
        BY <1>8, <2>4 DEF NoneCounts, u
    <2>6. \A k \in Handlers : tracker'[k].at # "idle" => tracker'[k].loaded.count <= row'.count
        BY <1>2, <2>1 DEF UpdatesInv
    <2>7. \A k \in Handlers : ~ComesLate(tracker'[k], row'.count)
        BY <2>3 DEF IsOver
    <2>8. \A k \in Handlers : CountsOne(tracker'[k]) =>
             tracker'[k] = tracker[k] /\ CountsOne(tracker[k])
        BY <1>2, <1>8
    <2>9. /\ \A k \in Handlers : CountsOne(tracker'[k]) => tracker'[k].loaded.count = row'.count
          /\ \A k, l \in Handlers : CountsOne(tracker'[k]) /\ CountsOne(tracker'[l]) => k = l
          /\ IsEnding' => NoToken'
        BY <1>7, <1>12, <2>1, <2>8 DEF UpdatesInv
    <2>10. UpdatesInv'
        BY <2>3, <2>6, <2>7, <2>9 DEF UpdatesInv
    <2> QED
        BY <1>0, <1>6, <1>7, <1>11, <1>12, <2>1, <2>2, <2>4, <2>5, <2>10 DEF u
<1> QED
    BY <1>3, <1>10, <1>11

\* An update fails: its report comes again, and the token with it.
LEMMA TokenFails ==
    ASSUME RecurringTypes, OneToken, UpdatesInv, NEW h \in Handlers,
           Recurring!UpdateFails(h), "repeated" \notin strayed'
    PROVE  /\ OneToken' /\ UpdatesInv' /\ UNCHANGED <<row, triggers, running, sent, stopFlag>>
           /\ CountsOne(tracker[h]) => NoneCounts' /\ tracker[h].next.status = "completed"
           /\ ~CountsOne(tracker[h]) =>
                 /\ NoneCounts' <=> NoneCounts
                 /\ NoToken => NoToken'
                 /\ IsEnding' => IsEnding
<1> DEFINE u == tracker[h]
<1>0. /\ UNCHANGED <<row, triggers, running, sent, stopFlag>>
      /\ u # Recurring!Idle /\ tracker' = [tracker EXCEPT ![h] = Recurring!Idle]
      /\ reports' = Recurring!Put(u.report)
      /\ u.at = "ready" => u.next.status # "scheduled"
    BY DEF Recurring!UpdateFails
<1>2. /\ \A k \in Handlers : k # h => tracker'[k] = tracker[k]
      /\ IsUpdate(u) /\ tracker'[h].at = "idle" /\ u.report \in {"started", "sent"}
      /\ u.at \in {"loaded", "ready"}
    BY <1>0, RestEffect DEF Others
<1>3. /\ reports'[u.report] = reports[u.report] + 1 /\ reports["sent"] \in Nat
      /\ \A f \in {"started", "sent"} : f # u.report => reports'[f] = reports[f]
    BY <1>0, <1>2, ReportEffect DEF RecurringTypes, TrackerTypes
<1> HIDE DEF u
<1>4. /\ ~CarriesOn(tracker'[h]) /\ ~ComesLate(tracker'[h], row.count)
      /\ ~CountsOne(tracker'[h]) /\ ~MarksSending(tracker'[h])
    BY <1>2 DEF CarriesOn, ComesLate, CountsOne, MarksSending
<1>5. CountsOne(u) => u.next.status = "completed" /\ ~CarriesOn(u)
    BY <1>0, <1>2 DEF IsUpdate, CountsOne, CarriesOn
<1>6. u.report = "sent" => CarriesOn(u) \/ CountsOne(u)
    BY <1>2 DEF IsUpdate, CarriesOn, CountsOne, MarksSending
<1>7. \A k \in Handlers : CarriesOn(tracker'[k]) => k # h /\ CarriesOn(tracker[k])
    BY <1>2, <1>4
<1>8. \A k \in Handlers : CountsOne(tracker'[k]) =>
         k # h /\ tracker'[k] = tracker[k] /\ CountsOne(tracker[k])
    BY <1>2, <1>4
<1>9. u.report = "sent" => /\ triggers = {} /\ running = 0 /\ reports["sent"] = 0
                           /\ NoneCarries'
    <2>1. CASE CarriesOn(u)
        BY <1>3, <1>7, <2>1 DEF OneToken, NoneCarries, RecurringTypes, u
    <2>2. CASE CountsOne(u)
        <3>1. NoToken
            BY <1>5, <2>2 DEF UpdatesInv, IsEnding, u
        <3> QED
            BY <1>7, <3>1 DEF NoToken, NoneCarries
    <2> QED
        BY <1>6, <2>1, <2>2
<1>10. OneToken'
    <2>1. CASE u.report = "sent"
        BY <1>0, <1>3, <1>9, <2>1 DEF OneToken, NoneCarries
    <2>2. CASE u.report = "started"
        <3>1. reports'["sent"] = reports["sent"]
            BY <1>3, <2>2
        <3> QED
            BY <1>0, <1>7, <3>1 DEF OneToken, NoneCarries
    <2> QED
        BY <1>2, <2>1, <2>2
<1>11. NoToken /\ u.report # "sent" => NoToken'
    BY <1>0, <1>3, <1>7 DEF NoToken, NoneCarries
<1>12. IsOver' => IsOver
    BY <1>0, <1>2, <1>4 DEF IsOver
<1>13. CountsOne(u) => NoneCounts'
    BY <1>8 DEF NoneCounts, UpdatesInv, u
<1>14. ~CountsOne(u) => (NoneCounts' <=> NoneCounts)
    BY <1>2, <1>8 DEF NoneCounts, u
<1>15. NoToken /\ ~CountsOne(u) => NoToken'
    <2>1. NoToken => ~CarriesOn(u)
        BY DEF NoToken, NoneCarries, u
    <2> QED
        BY <1>6, <1>11, <2>1
<1>16. IsOver' /\ NoneCounts' => NoToken'
    <2>1. CASE CountsOne(u)
        BY <1>5, <1>11, <1>12, <2>1 DEF UpdatesInv, IsEnding, u
    <2>2. CASE ~CountsOne(u)
        BY <1>12, <1>14, <1>15, <2>2 DEF UpdatesInv
    <2> QED
        BY <2>1, <2>2
<1>17. \A k \in Handlers : CountsOne(tracker'[k]) => ~CountsOne(u)
    BY <1>8 DEF UpdatesInv, u
<1>18. (IsEnding' => IsEnding) /\ (IsEnding' => NoToken')
    BY <1>8, <1>15, <1>17 DEF UpdatesInv, IsEnding
<1>19. \A k \in Handlers : tracker'[k].at # "idle" => tracker'[k].loaded.count <= row'.count
    BY <1>0, <1>2 DEF UpdatesInv
<1>20. \A k \in Handlers : ComesLate(tracker'[k], row'.count) =>
          row'.status = "completed" \/ row'.deleted
    BY <1>0, <1>2, <1>4 DEF UpdatesInv
<1>21. \A k \in Handlers : IsOver' /\ MarksSending(tracker'[k]) =>
          tracker'[k].loaded.count < row'.count
    BY <1>0, <1>2, <1>4, <1>12 DEF UpdatesInv
<1>22. \A k \in Handlers : CountsOne(tracker'[k]) =>
          /\ tracker'[k].loaded.count = row'.count
          /\ tracker'[k].report = "sent" => ~IsOver'
    BY <1>0, <1>8, <1>12 DEF UpdatesInv
<1>23. \A k, l \in Handlers : CountsOne(tracker'[k]) /\ CountsOne(tracker'[l]) => k = l
    BY <1>8 DEF UpdatesInv
<1>24. UpdatesInv'
    BY <1>16, <1>18, <1>19, <1>20, <1>21, <1>22, <1>23 DEF UpdatesInv
<1> QED
    BY <1>0, <1>5, <1>10, <1>13, <1>14, <1>15, <1>18, <1>24 DEF u

\* The other steps pass the token on, or drop it: a job becomes an occurrence, and
\* an occurrence the report of its last page.
LEMMA TokenElse ==
    ASSUME RecurringTypes, OneToken, UpdatesInv, "rescheduled" \notin strayed',
           \/ Recurring!Sending \/ Recurring!LastPageFails \/ Recurring!Operating
           \/ Recurring!StopFlagExpires \/ Recurring!Tick \/ UNCHANGED Recurring!vars
    PROVE  /\ OneToken' /\ UpdatesInv' /\ UNCHANGED tracker /\ row'.count = row.count
           /\ NoToken => NoToken'
           /\ UNCHANGED sent \/ (triggers' = {} /\ triggers # {})
           /\ triggers' \subseteq triggers
<1>0. running \in Nat /\ reports["sent"] \in Nat /\ IsRow(row)
    BY DEF RecurringTypes, TrackerTypes
<1>1. ASSUME UNCHANGED <<tracker, row>>, NoToken => NoToken' PROVE UpdatesInv'
    BY <1>1, UpdatesAlone
<1>2. ASSUME NEW job \in triggers, Recurring!Fire(job)
      PROVE  OneToken' /\ UpdatesInv' /\ ~NoToken /\ triggers' = {} /\ UNCHANGED <<tracker, row>>
    <2>1. /\ triggers' = {} /\ running = 0 /\ reports["sent"] = 0 /\ NoneCarries
          /\ UNCHANGED <<tracker, row>> /\ running' <= 1
        BY <1>2 DEF Recurring!Fire, OneToken
    <2>2. reports'["sent"] = reports["sent"]
        <3>1. reports' = reports \/ reports' = Recurring!Put("started")
            BY <1>2 DEF Recurring!Fire
        <3> QED
            BY <3>1, ReportEffect
    <2>3. ~NoToken /\ NoneCarries'
        BY <1>2, <2>1 DEF NoToken, NoneCarries
    <2>4. OneToken'
        BY <2>1, <2>2, <2>3 DEF OneToken, NoneCarries
    <2> QED
        BY <1>1, <2>1, <2>3, <2>4
<1>3. CASE Recurring!LastPage \/ Recurring!LastPageFails
    <2>1. /\ triggers' = {} /\ running = 1 /\ running' = 0 /\ reports["sent"] = 0 /\ NoneCarries
          /\ UNCHANGED <<tracker, row, triggers, sent>>
        BY <1>0, <1>3 DEF Recurring!LastPage, Recurring!LastPageFails, OneToken
    <2>2. reports'["sent"] \in {0, 1}
        <3>1. reports' = reports \/ reports' = Recurring!Put("sent")
            BY <1>3 DEF Recurring!LastPage, Recurring!LastPageFails
        <3> QED
            BY <2>1, <3>1, ReportEffect
    <2>3. ~NoToken /\ NoneCarries'
        BY <2>1 DEF NoToken, NoneCarries
    <2>4. OneToken'
        BY <2>1, <2>2, <2>3 DEF OneToken, NoneCarries
    <2> QED
        BY <1>1, <2>1, <2>3, <2>4
<1>4. CASE Recurring!Operating
    <2>1. ~\E d \in {now + 1, row.scheduleTo + 1} : Recurring!Reschedule(d)
        BY DEF Recurring!Reschedule
    <2>2. triggers' \subseteq triggers /\ UNCHANGED <<running, reports, tracker, sent>>
        BY <1>4, <2>1 DEF Recurring!Operating, Recurring!Stop, Recurring!Delete
    <2>3. /\ row'.status # "completed" /\ row'.count = row.count
          /\ row.status = "completed" \/ row.deleted => row'.deleted
        BY <1>0, <1>4, <2>1
           DEF Recurring!Operating, Recurring!Stop, Recurring!Delete, IsRow, RowShape
    <2>4. NoToken => NoToken'
        BY <2>2 DEF NoToken, NoneCarries
    <2>5. OneToken'
        BY <2>2 DEF OneToken, NoneCarries
    <2> QED
        BY <2>2, <2>3, <2>4, <2>5, UpdatesAlone
<1>5. CASE Recurring!StopFlagExpires \/ Recurring!Tick \/ UNCHANGED Recurring!vars
    <2>1. UNCHANGED <<triggers, running, reports, tracker, row, sent>>
        BY <1>5 DEF Recurring!StopFlagExpires, Recurring!Tick, Recurring!vars
    <2>2. OneToken' /\ (NoToken => NoToken')
        BY <2>1 DEF OneToken, NoToken, NoneCarries
    <2> QED
        BY <1>1, <2>1, <2>2
<1> QED
    BY <1>2, <1>3, <1>4, <1>5 DEF Recurring!Sending

\* So a step keeps an undisturbed campaign in one place.
LEMMA TokenStep ==
    ASSUME RecurringTypes, TokenInv, [Recurring!Next]_Recurring!vars PROVE TokenInv'
<1> SUFFICES ASSUME Undisturbed' PROVE OneToken' /\ UpdatesInv'
    BY DEF TokenInv
<1>1. OneToken /\ UpdatesInv
    BY StrayedGrows DEF TokenInv, Undisturbed
<1>2. /\ "overwritten" \notin strayed' /\ "repeated" \notin strayed'
      /\ "rescheduled" \notin strayed'
    BY DEF Undisturbed
<1>3. ASSUME NEW h \in Handlers, NEW e \in {"started", "sent"}
      PROVE  ~Recurring!ReportRepeats(h, e)
    BY <1>2 DEF Recurring!ReportRepeats
<1>4. CASE Recurring!Loading
    BY <1>1, <1>4, TokenLoad DEF Recurring!Loading
<1>5. CASE Recurring!Updating
    BY <1>1, <1>2, <1>5, TokenRecur, TokenWrite DEF Recurring!Updating
<1>6. CASE \E h \in Handlers : Recurring!UpdateFails(h)
    BY <1>1, <1>2, <1>6, TokenFails
<1>7. CASE \/ Recurring!Sending \/ Recurring!LastPageFails \/ Recurring!Operating
           \/ Recurring!StopFlagExpires \/ Recurring!Tick \/ UNCHANGED Recurring!vars
    BY <1>1, <1>2, <1>7, TokenElse
<1> QED
    BY <1>3, <1>4, <1>5, <1>6, <1>7 DEF Recurring!Next, Recurring!Trouble

\* The occurrences counted, the one about to be written among them.
Counted == row.count + IF NoneCounts THEN 0 ELSE 1

\* Only the reports of last pages make the campaign go on.
OnlySent == \A h \in Handlers :
    tracker[h].at = "loaded" \/ CountsOne(tracker[h]) => tracker[h].report = "sent"

\* The occurrences sent are those counted, and the one under way.
LimitInv ==
    /\ settings.untilSend # 0
    /\ strayed \subseteq {"unreported", "stopped", "undeleted", "overtaken"}
    => /\ OnlySent
       /\ Counted <= settings.untilSend
       /\ Counted = settings.untilSend => NoToken /\ Len(sent) <= Counted
       /\ triggers # {} \/ IsEnding => Len(sent) <= Counted
       /\ Len(sent) <= Counted + 1

\* Only the report of a last page is ever worked out.
LEMMA OnlySentStep ==
    ASSUME RecurringTypes, OnlySent, [Recurring!Next]_Recurring!vars,
           "completed" \notin strayed', "repeated" \notin strayed'
    PROVE  OnlySent'
<1>1. ASSUME NEW h \in Handlers, NEW e \in {"started", "sent"}, Recurring!LoadRow(h, e)
      PROVE  OnlySent'
    <2>1. CASE row.deleted
        BY <1>1, <2>1 DEF Recurring!LoadRow, OnlySent
    <2>2. CASE ~row.deleted
        <3>1. /\ tracker[h] = Recurring!Idle /\ row.status # "completed"
              /\ tracker' = [tracker EXCEPT ![h] = Recurring!Update(e)]
            BY <1>1, <2>2 DEF Recurring!LoadRow
        <3>2. /\ \A k \in Handlers : k # h => tracker'[k] = tracker[k]
              /\ tracker'[h].report = e
              /\ tracker'[h].at = "loaded" => e = "sent"
              /\ ~CountsOne(tracker'[h])
            BY <2>2, <3>1, LoadEffect
               DEF Others, Recurring!Recurs, CountsOne, MarksSending, IsUpdate
        <3> QED
            BY <3>2 DEF OnlySent
    <2> QED
        BY <2>1, <2>2
<1>2. ASSUME NEW h \in Handlers, Recurring!SetRecurring(h) PROVE OnlySent'
    BY <1>2, RecurEffect DEF OnlySent, Others
<1>3. ASSUME NEW h \in Handlers, Recurring!WriteRow(h) \/ Recurring!UpdateFails(h)
      PROVE  OnlySent'
    <2>1. tracker[h] # Recurring!Idle /\ tracker' = [tracker EXCEPT ![h] = Recurring!Idle]
        BY <1>3 DEF Recurring!WriteRow, Recurring!UpdateFails, Recurring!Idle
    <2>2. /\ \A k \in Handlers : k # h => tracker'[k] = tracker[k]
          /\ tracker'[h].at = "idle"
        BY <2>1, RestEffect DEF Others
    <2> QED
        BY <2>2 DEF OnlySent, CountsOne
<1>4. CASE UNCHANGED tracker
    BY <1>4 DEF OnlySent
<1>5. ASSUME NEW h \in Handlers, NEW e \in {"started", "sent"}
      PROVE  ~Recurring!ReportRepeats(h, e)
    BY DEF Recurring!ReportRepeats
<1>6. ASSUME \/ Recurring!Sending \/ Recurring!LastPageFails \/ Recurring!Operating
             \/ Recurring!StopFlagExpires \/ Recurring!Tick \/ UNCHANGED Recurring!vars
      PROVE  UNCHANGED tracker
    BY <1>6 DEF Recurring!Sending, Recurring!Fire, Recurring!LastPage, Recurring!LastPageFails,
       Recurring!Operating, Recurring!Stop, Recurring!Delete, Recurring!Reschedule,
       Recurring!StopFlagExpires, Recurring!Tick, Recurring!vars
<1> QED
    BY <1>1, <1>2, <1>3, <1>4, <1>5, <1>6
       DEF Recurring!Next, Recurring!Loading, Recurring!Updating, Recurring!Trouble

\* The report of the last occurrence of a limit makes no job.
LEMMA LimitStep ==
    ASSUME RecurringTypes, RecurringTypes', TokenInv, LimitInv, [Recurring!Next]_Recurring!vars
    PROVE  LimitInv'
<1> DEFINE n == settings.untilSend
<1>0. /\ n \in Nat /\ IsSequence(sent) /\ row.count \in Nat /\ row'.count \in Nat
      /\ strayed \subseteq strayed' /\ settings' = settings
    <2>1. settings' = settings
        BY DEF Recurring!Next, Recurring!vars, Recurring!Sending, Recurring!Loading,
           Recurring!Updating, Recurring!Trouble, Recurring!Operating, Recurring!Fire,
           Recurring!LastPage, Recurring!LastPageFails, Recurring!LoadRow,
           Recurring!ReportRepeats, Recurring!SetRecurring, Recurring!WriteRow,
           Recurring!UpdateFails, Recurring!Stop, Recurring!Delete, Recurring!Reschedule,
           Recurring!StopFlagExpires, Recurring!Tick
    <2> QED
        BY <2>1, StrayedGrows DEF RecurringTypes, IsRow
<1> SUFFICES ASSUME n # 0, strayed' \subseteq {"unreported", "stopped", "undeleted", "overtaken"}
             PROVE  /\ OnlySent' /\ Counted' <= n
                    /\ Counted' = n => NoToken' /\ Len(sent') <= Counted'
                    /\ triggers' # {} \/ IsEnding' => Len(sent') <= Counted'
                    /\ Len(sent') <= Counted' + 1
    BY <1>0 DEF LimitInv
<1>1. OneToken /\ UpdatesInv
    BY <1>0 DEF TokenInv, Undisturbed
<1>2. /\ OnlySent /\ Counted <= n
      /\ Counted = n => NoToken /\ Len(sent) <= Counted
      /\ triggers # {} \/ IsEnding => Len(sent) <= Counted
      /\ Len(sent) <= Counted + 1
    BY <1>0 DEF LimitInv
<1>3. Len(sent) \in Nat /\ \A e : Len(Append(sent, e)) = Len(sent) + 1
    BY <1>0, SequenceAppend
<1>4. OnlySent'
    BY <1>2, OnlySentStep
<1>5. /\ Counted \in Nat /\ Counted' \in Nat
      /\ NoneCounts => Counted = row.count
      /\ ~NoneCounts => Counted = row.count + 1
      /\ NoneCounts' => Counted' = row'.count
      /\ ~NoneCounts' => Counted' = row'.count + 1
    BY <1>0 DEF Counted
<1>6. ASSUME NoToken => NoToken', IsEnding' => IsEnding, Counted' = Counted, UNCHANGED sent,
             triggers' # {} => triggers # {}
      PROVE  /\ Counted' <= n
             /\ Counted' = n => NoToken' /\ Len(sent') <= Counted'
             /\ triggers' # {} \/ IsEnding' => Len(sent') <= Counted'
             /\ Len(sent') <= Counted' + 1
    BY <1>2, <1>6
<1>7. CASE Recurring!Loading
    <2>1. PICK h \in Handlers, e \in {"started", "sent"} : Recurring!LoadRow(h, e)
        BY <1>7 DEF Recurring!Loading
    <2>2. UNCHANGED <<triggers, sent, row>>
        BY <2>1 DEF Recurring!LoadRow
    <2>3. (NoToken => NoToken') /\ (NoneCounts' <=> NoneCounts) /\ (IsEnding' => IsEnding)
        BY <1>1, <2>1, TokenLoad
    <2> QED
        BY <1>4, <1>5, <1>6, <2>2, <2>3
<1>8. ASSUME NEW h \in Handlers, Recurring!SetRecurring(h)
      PROVE  /\ Counted' <= n
             /\ Counted' = n => NoToken' /\ Len(sent') <= Counted'
             /\ triggers' # {} \/ IsEnding' => Len(sent') <= Counted'
             /\ Len(sent') <= Counted' + 1
    <2>1. NoneCounts /\ tracker[h].loaded.count = row.count /\ (triggers' = triggers => NoToken')
        BY <1>1, <1>8, TokenRecur
    <2>2. /\ IsUpdate(tracker[h]) /\ tracker[h].at = "loaded" /\ CountsOne(tracker'[h])
          /\ Recurring!GoesOn(tracker[h].loaded) \/ triggers' = triggers
        BY <1>8, RecurEffect
    <2>3. UNCHANGED <<sent, row>>
        BY <1>8 DEF Recurring!SetRecurring
    <2>4. ~NoToken
        BY <1>2, <2>2 DEF OnlySent, NoToken, NoneCarries, CarriesOn
    <2>5. ~NoneCounts'
        BY <2>2 DEF NoneCounts
    <2>6. Counted' = Counted + 1 /\ Counted = row.count
        BY <1>5, <2>1, <2>3, <2>5
    <2>7. Counted < n /\ Len(sent') <= Counted'
        BY <1>0, <1>2, <1>5, <2>3, <2>4, <2>6
    <2>8. Recurring!GoesOn(tracker[h].loaded) => Counted' # n
        BY <2>1, <2>6 DEF Recurring!GoesOn
    <2> QED
        BY <1>0, <1>3, <1>5, <2>1, <2>2, <2>3, <2>6, <2>7, <2>8
<1>9. ASSUME NEW h \in Handlers, Recurring!WriteRow(h)
      PROVE  /\ Counted' <= n
             /\ Counted' = n => NoToken' /\ Len(sent') <= Counted'
             /\ triggers' # {} \/ IsEnding' => Len(sent') <= Counted'
             /\ Len(sent') <= Counted' + 1
    <2>1. /\ NoToken => NoToken'
          /\ IsEnding' => IsEnding
          /\ CountsOne(tracker[h]) \/ MarksSending(tracker[h])
          /\ MarksSending(tracker[h]) => row'.count = row.count /\ (NoneCounts' <=> NoneCounts)
          /\ CountsOne(tracker[h]) => row'.count = row.count + 1 /\ NoneCounts'
        BY <1>1, <1>9, TokenWrite
    <2>2. CountsOne(tracker[h]) => ~NoneCounts
        BY DEF NoneCounts
    <2>3. Counted' = Counted
        BY <1>5, <2>1, <2>2
    <2>4. UNCHANGED <<triggers, sent>>
        BY <1>9 DEF Recurring!WriteRow
    <2> QED
        BY <1>6, <2>1, <2>3, <2>4
<1>10. ASSUME NEW h \in Handlers, Recurring!UpdateFails(h)
      PROVE  /\ Counted' <= n
             /\ Counted' = n => NoToken' /\ Len(sent') <= Counted'
             /\ triggers' # {} \/ IsEnding' => Len(sent') <= Counted'
             /\ Len(sent') <= Counted' + 1
    <2>1. /\ UNCHANGED <<row, triggers, sent>>
          /\ CountsOne(tracker[h]) => NoneCounts' /\ tracker[h].next.status = "completed"
          /\ ~CountsOne(tracker[h]) => /\ NoneCounts' <=> NoneCounts
                                       /\ NoToken => NoToken'
                                       /\ IsEnding' => IsEnding
        BY <1>1, <1>10, TokenFails
    <2>2. CASE CountsOne(tracker[h])
        <3>1. ~NoneCounts /\ IsEnding
            BY <2>1, <2>2 DEF NoneCounts, IsEnding
        <3>2. NoneCounts' /\ ~IsEnding'
            BY <2>1, <2>2 DEF NoneCounts, IsEnding
        <3>3. Counted = Counted' + 1 /\ Len(sent) <= Counted /\ triggers = {}
            BY <1>1, <1>2, <1>5, <2>1, <3>1, <3>2 DEF UpdatesInv, NoToken
        <3> QED
            BY <1>0, <1>2, <1>3, <1>5, <2>1, <3>2, <3>3
    <2>3. CASE ~CountsOne(tracker[h])
        BY <1>5, <1>6, <2>1, <2>3
    <2> QED
        BY <2>2, <2>3
<1>11. CASE \/ Recurring!Sending \/ Recurring!LastPageFails \/ Recurring!Operating
            \/ Recurring!StopFlagExpires \/ Recurring!Tick \/ UNCHANGED Recurring!vars
    <2>1. /\ UNCHANGED tracker /\ row'.count = row.count
          /\ NoToken => NoToken'
          /\ UNCHANGED sent \/ (triggers' = {} /\ triggers # {})
          /\ triggers' \subseteq triggers
        BY <1>1, <1>11, TokenElse
    <2>2. (NoneCounts' <=> NoneCounts) /\ (IsEnding' <=> IsEnding)
        BY <2>1 DEF NoneCounts, IsEnding
    <2>3. Counted' = Counted
        BY <1>5, <2>1, <2>2
    <2>4. CASE UNCHANGED sent
        BY <1>4, <1>6, <2>1, <2>2, <2>3, <2>4
    <2>5. CASE triggers' = {} /\ triggers # {}
        <3>1. ~NoToken /\ ~IsEnding
            BY <1>1, <2>5 DEF UpdatesInv, NoToken
        <3>2. Len(sent') <= Len(sent) + 1 /\ Len(sent') \in Nat
            <4>1. sent' = sent \/ \E job \in triggers : sent' = Append(sent, job.day)
                BY <1>11
                   DEF Recurring!Sending, Recurring!Fire, Recurring!LastPage,
                       Recurring!LastPageFails, Recurring!Operating, Recurring!Stop,
                       Recurring!Delete, Recurring!Reschedule, Recurring!StopFlagExpires,
                       Recurring!Tick, Recurring!vars
            <4> QED
                BY <1>3, <4>1
        <3>3. Counted # n /\ Len(sent) <= Counted
            BY <1>2, <2>5, <3>1
        <3> QED
            BY <1>0, <1>2, <1>3, <1>4, <1>5, <2>2, <2>3, <2>5, <3>1, <3>2, <3>3
    <2> QED
        BY <2>1, <2>4, <2>5
<1>12. ASSUME NEW h \in Handlers, NEW e \in {"started", "sent"}
      PROVE  ~Recurring!ReportRepeats(h, e)
    BY DEF Recurring!ReportRepeats
<1>13. CASE Recurring!Updating \/ \E h \in Handlers : Recurring!UpdateFails(h)
    BY <1>4, <1>8, <1>9, <1>10, <1>13 DEF Recurring!Updating
<1> QED
    BY <1>7, <1>11, <1>12, <1>13 DEF Recurring!Next, Recurring!Trouble

\* The job is the one the row points to, or the update about to be written, for its
\* day; and a scheduled campaign has it, or the report of its start yet to come.
StartPending ==
    \/ reports["started"] > 0
    \/ \E h \in Handlers : tracker[h].at # "idle" /\ tracker[h].report = "started"
JobInv ==
    strayed \subseteq {"unreported", "completed"} /\ ~row.deleted =>
       /\ stopFlag => row.status = "stopped"
       /\ \A h \in Handlers : CountsOne(tracker[h]) => \A j \in triggers :
             j.id = tracker[h].next.task /\ j.day = tracker[h].next.scheduleTo
       /\ NoneCounts => \A j \in triggers : j.id = row.task /\ j.day = row.scheduleTo
       /\ \A h \in Handlers :
             MarksSending(tracker[h]) /\ tracker[h].loaded.count = row.count =>
                tracker[h].next.task = row.task /\ tracker[h].next.scheduleTo = row.scheduleTo
       /\ row.status = "scheduled" => triggers # {} \/ StartPending

\* The tracker adds the job and then points the row to it; nothing else moves either
\* alone in a campaign that is undisturbed and was not stopped.
LEMMA JobStep ==
    ASSUME RecurringTypes, TokenInv, JobInv, [Recurring!Next]_Recurring!vars PROVE JobInv'
<1>0. IsRow(row) /\ strayed \subseteq strayed'
    BY StrayedGrows DEF RecurringTypes
<1> SUFFICES ASSUME strayed' \subseteq {"unreported", "completed"}, ~row'.deleted
             PROVE  /\ stopFlag' => row'.status = "stopped"
                    /\ \A h \in Handlers : CountsOne(tracker'[h]) => \A j \in triggers' :
                          j.id = tracker'[h].next.task /\ j.day = tracker'[h].next.scheduleTo
                    /\ NoneCounts' => \A j \in triggers' :
                          j.id = row'.task /\ j.day = row'.scheduleTo
                    /\ \A h \in Handlers :
                          MarksSending(tracker'[h]) /\ tracker'[h].loaded.count = row'.count =>
                             /\ tracker'[h].next.task = row'.task
                             /\ tracker'[h].next.scheduleTo = row'.scheduleTo
                    /\ row'.status = "scheduled" => triggers' # {} \/ StartPending'
    BY DEF JobInv
<1>1. /\ OneToken /\ UpdatesInv
      /\ \A x \in {"overwritten", "repeated", "rescheduled", "stopped", "undeleted",
                   "overtaken"} : x \notin strayed'
    BY <1>0 DEF TokenInv, Undisturbed
<1>2. ~row.deleted
    <2>1. ASSUME NEW h \in Handlers, Recurring!WriteRow(h) PROVE ~row.deleted
        BY <1>1, <2>1 DEF Recurring!WriteRow, Recurring!Harm
    <2>2. \/ row' = row \/ Recurring!Stop \/ Recurring!Delete \/ "rescheduled" \in strayed'
          \/ \E h \in Handlers : Recurring!WriteRow(h)
        BY DEF Recurring!Next, Recurring!vars, Recurring!Sending, Recurring!Loading,
           Recurring!Updating, Recurring!Trouble, Recurring!Operating, Recurring!Fire,
           Recurring!LastPage, Recurring!LastPageFails, Recurring!LoadRow,
           Recurring!ReportRepeats, Recurring!SetRecurring, Recurring!UpdateFails,
           Recurring!Reschedule, Recurring!StopFlagExpires, Recurring!Tick
    <2> QED
        BY <1>1, <2>1, <2>2 DEF Recurring!Stop, Recurring!Delete
<1>3. /\ stopFlag => row.status = "stopped"
      /\ \A h \in Handlers : CountsOne(tracker[h]) => \A j \in triggers :
            j.id = tracker[h].next.task /\ j.day = tracker[h].next.scheduleTo
      /\ NoneCounts => \A j \in triggers : j.id = row.task /\ j.day = row.scheduleTo
      /\ \A h \in Handlers :
            MarksSending(tracker[h]) /\ tracker[h].loaded.count = row.count =>
               tracker[h].next.task = row.task /\ tracker[h].next.scheduleTo = row.scheduleTo
      /\ row.status = "scheduled" => triggers # {} \/ StartPending
    BY <1>0, <1>2 DEF JobInv
<1> DEFINE Goal ==
        /\ stopFlag' => row'.status = "stopped"
        /\ \A h \in Handlers : CountsOne(tracker'[h]) => \A j \in triggers' :
              j.id = tracker'[h].next.task /\ j.day = tracker'[h].next.scheduleTo
        /\ NoneCounts' => \A j \in triggers' : j.id = row'.task /\ j.day = row'.scheduleTo
        /\ \A h \in Handlers :
              MarksSending(tracker'[h]) /\ tracker'[h].loaded.count = row'.count =>
                 /\ tracker'[h].next.task = row'.task
                 /\ tracker'[h].next.scheduleTo = row'.scheduleTo
        /\ row'.status = "scheduled" => triggers' # {} \/ StartPending'
<1>4. ASSUME UNCHANGED <<tracker, stopFlag>>, triggers' \subseteq triggers,
             row'.task = row.task, row'.scheduleTo = row.scheduleTo, row'.count = row.count,
             stopFlag' => row'.status = "stopped",
             row'.status = "scheduled" => triggers' # {} \/ StartPending'
      PROVE  Goal
    <2>1. NoneCounts' <=> NoneCounts
        BY <1>4 DEF NoneCounts
    <2> QED
        BY <1>3, <1>4, <2>1
<1>5. ASSUME NEW job \in triggers, Recurring!Fire(job) PROVE Goal
    <2>1. /\ UNCHANGED <<tracker, stopFlag, row>> /\ triggers' \subseteq triggers
          /\ ~stopFlag => reports' = Recurring!Put("started")
        BY <1>2, <1>5 DEF Recurring!Fire
    <2>2. ~stopFlag => StartPending'
        <3>1. ~stopFlag => reports'["started"] = reports["started"] + 1
            BY <2>1, ReportEffect
        <3> QED
            BY <3>1 DEF StartPending, RecurringTypes, TrackerTypes
    <2> QED
        BY <1>3, <1>4, <2>1, <2>2
<1>6. CASE Recurring!LastPage \/ Recurring!LastPageFails
    <2>1. /\ UNCHANGED <<row, triggers, stopFlag, tracker>>
          /\ reports' = reports \/ reports' = Recurring!Put("sent")
        BY <1>6 DEF Recurring!LastPage, Recurring!LastPageFails
    <2>2. reports'["started"] = reports["started"]
        BY <2>1, ReportEffect
    <2> QED
        BY <1>3, <1>4, <2>1, <2>2 DEF StartPending
<1>7. ASSUME NEW h \in Handlers, NEW e \in {"started", "sent"}, Recurring!LoadRow(h, e)
      PROVE  Goal
    <2>1. /\ UNCHANGED <<row, triggers, stopFlag>> /\ tracker[h] = Recurring!Idle
          /\ tracker' = [tracker EXCEPT ![h] = Recurring!Update(e)]
          /\ reports[e] > 0 /\ reports' = Recurring!Take(e)
        BY <1>2, <1>7 DEF Recurring!LoadRow
    <2>2. /\ \A k \in Handlers : k # h => tracker'[k] = tracker[k]
          /\ IsUpdate(tracker'[h]) /\ tracker'[h].report = e /\ tracker'[h].loaded = row
          /\ ~CountsOne(tracker'[h])
          /\ tracker[h].at = "idle"
        BY <1>2, <2>1, LoadEffect DEF Others, CountsOne, MarksSending, IsUpdate
    <2>3. MarksSending(tracker'[h]) => /\ tracker'[h].next.task = row.task
                                       /\ tracker'[h].next.scheduleTo = row.scheduleTo
        BY <2>2 DEF IsUpdate
    <2>4. NoneCounts' => NoneCounts
        BY <2>2 DEF NoneCounts, CountsOne
    <2>5. StartPending => StartPending'
        <3>1. CASE e = "started"
            <4>1. tracker'[h].at # "idle"
                BY <2>2 DEF IsUpdate
            <4> QED
                BY <2>2, <3>1, <4>1 DEF StartPending
        <3>2. CASE e = "sent"
            <4>1. reports'["started"] = reports["started"]
                BY <2>1, <3>2, ReportEffect
            <4> QED
                BY <2>2, <4>1 DEF StartPending
        <3> QED
            BY <3>1, <3>2
    <2>6. \A k \in Handlers : CountsOne(tracker'[k]) =>
             tracker'[k] = tracker[k] /\ CountsOne(tracker[k])
        BY <2>2
    <2> QED
        BY <1>3, <2>1, <2>2, <2>3, <2>4, <2>5, <2>6
<1>8. ASSUME NEW h \in Handlers, Recurring!SetRecurring(h) PROVE Goal
    <2>1. UNCHANGED <<row, stopFlag, reports>>
        BY <1>8 DEF Recurring!SetRecurring
    <2>2. /\ \A k \in Handlers : k # h => tracker'[k] = tracker[k]
          /\ tracker[h].at = "loaded" /\ IsUpdate(tracker'[h]) /\ CountsOne(tracker'[h])
          /\ tracker'[h].report = tracker[h].report
          /\ \/ triggers' = triggers \cup
                   {[id |-> tracker'[h].next.task, owner |-> "tracker",
                     day |-> tracker'[h].next.scheduleTo]}
             \/ triggers' = triggers
        BY <1>8, RecurEffect DEF Others
    <2>3. NoneCounts /\ tracker[h].loaded.count = row.count /\ (triggers' = triggers => NoToken')
        BY <1>1, <1>8, TokenRecur
    <2>4. triggers = {}
        <3>1. CASE tracker[h].report = "sent"
            BY <1>1, <2>2, <3>1 DEF OneToken, NoneCarries, CarriesOn
        <3>2. CASE tracker[h].report = "started"
            <4>1. IsOver
                BY <2>2, <2>3, <3>2 DEF IsOver, ComesLate
            <4> QED
                BY <1>1, <2>3, <4>1 DEF UpdatesInv, NoToken
        <3> QED
            BY <2>2, <3>1, <3>2 DEF IsUpdate
    <2>5. /\ \A k \in Handlers : CountsOne(tracker'[k]) => k = h
          /\ ~NoneCounts'
        BY <2>2, <2>3 DEF NoneCounts
    <2>6. \A j \in triggers' : /\ j.id = tracker'[h].next.task
                               /\ j.day = tracker'[h].next.scheduleTo
        BY <2>2, <2>4
    <2>7. StartPending => StartPending'
        <3>1. tracker'[h].at # "idle"
            BY <2>2 DEF CountsOne
        <3> QED
            BY <2>1, <2>2, <3>1 DEF StartPending
    <2>8. ~MarksSending(tracker'[h])
        BY <2>2 DEF CountsOne, MarksSending
    <2>9. row'.status = "scheduled" => triggers' # {} \/ StartPending'
        BY <1>3, <2>1, <2>4, <2>7
    <2>10. \A k \in Handlers : MarksSending(tracker'[k]) => tracker'[k] = tracker[k]
        BY <2>2, <2>8
    <2> QED
        BY <1>3, <2>1, <2>5, <2>6, <2>9, <2>10
<1>9. ASSUME NEW h \in Handlers, Recurring!WriteRow(h) PROVE Goal
    <2> DEFINE u == tracker[h]
    <2>1. /\ UNCHANGED <<triggers, stopFlag, reports>> /\ row' = u.next /\ u.at = "ready"
          /\ tracker' = [tracker EXCEPT ![h] = Recurring!Idle]
          /\ row.status # "stopped"
          /\ u.next.status = "scheduled" => triggers # {}
        BY <1>1, <1>9 DEF Recurring!WriteRow, Recurring!Harm
    <2>2. /\ u.loaded.count = row.count
          /\ CountsOne(u) \/ MarksSending(u)
          /\ MarksSending(u) => row'.count = row.count /\ (NoneCounts' <=> NoneCounts)
          /\ CountsOne(u) => row'.count = row.count + 1 /\ NoneCounts'
        BY <1>1, <1>9, TokenWrite
    <2>3. u # Recurring!Idle
        BY <2>1 DEF Recurring!Idle
    <2>4. /\ \A k \in Handlers : k # h => tracker'[k] = tracker[k]
          /\ IsUpdate(u) /\ tracker'[h].at = "idle"
        BY <2>1, <2>3, RestEffect DEF Others
    <2> HIDE DEF u
    <2>5. ~stopFlag'
        BY <1>3, <2>1
    <2>6. ~CountsOne(tracker'[h]) /\ ~MarksSending(tracker'[h])
        BY <2>4 DEF CountsOne, MarksSending
    <2>7. row'.status = "scheduled" => triggers' # {}
        BY <2>1
    <2>8. CASE CountsOne(u)
        <3>1. \A k \in Handlers : tracker'[k].at # "idle" => tracker'[k].loaded.count # row'.count
            <4>1. \A k \in Handlers : tracker[k].at # "idle" =>
                     tracker[k].loaded.count \in Nat /\ tracker[k].loaded.count <= row.count
                <5>1. \A k \in Handlers : tracker[k].at # "idle" => IsUpdate(tracker[k])
                    BY AtRest DEF RecurringTypes, TrackerTypes
                <5> QED
                    BY <1>1, <5>1 DEF IsUpdate, IsRow, UpdatesInv
            <4>2. row.count \in Nat
                BY <1>0 DEF IsRow
            <4> QED
                BY <2>2, <2>4, <2>8, <4>1, <4>2
        <3>2. \A j \in triggers' : j.id = row'.task /\ j.day = row'.scheduleTo
            BY <1>3, <2>1, <2>8 DEF u
        <3>3. \A k \in Handlers : ~CountsOne(tracker'[k])
            BY <2>2, <2>8 DEF NoneCounts
        <3>4. \A k \in Handlers : MarksSending(tracker'[k]) => tracker'[k].at # "idle"
            BY DEF MarksSending
        <3> QED
            BY <2>5, <2>7, <3>1, <3>2, <3>3, <3>4
    <2>9. CASE MarksSending(u)
        <3>1. row'.task = row.task /\ row'.scheduleTo = row.scheduleTo /\ row'.count = row.count
            <4>1. u.next.task = row.task /\ u.next.scheduleTo = row.scheduleTo
                BY <1>3, <2>2, <2>9 DEF u
            <4> QED
                BY <2>1, <2>2, <2>9, <4>1
        <3>2. \A k \in Handlers :
                 /\ CountsOne(tracker'[k]) => tracker'[k] = tracker[k] /\ CountsOne(tracker[k])
                 /\ MarksSending(tracker'[k]) => tracker'[k] = tracker[k]
            BY <2>4, <2>6
        <3> QED
            BY <1>3, <2>1, <2>2, <2>5, <2>7, <2>9, <3>1, <3>2
    <2> QED
        BY <2>2, <2>8, <2>9
<1>10. ASSUME NEW h \in Handlers, Recurring!UpdateFails(h) PROVE Goal
    <2> DEFINE u == tracker[h]
    <2>1. /\ tracker' = [tracker EXCEPT ![h] = Recurring!Idle] /\ u # Recurring!Idle
          /\ reports' = Recurring!Put(u.report)
        BY <1>10 DEF Recurring!UpdateFails
    <2>2. /\ UNCHANGED <<row, triggers, running, sent, stopFlag>>
          /\ CountsOne(u) => NoneCounts' /\ u.next.status = "completed"
          /\ ~CountsOne(u) => (NoneCounts' <=> NoneCounts)
        BY <1>1, <1>10, TokenFails
    <2>3. /\ \A k \in Handlers : k # h => tracker'[k] = tracker[k]
          /\ tracker'[h].at = "idle" /\ u.report \in {"started", "sent"}
        BY <2>1, RestEffect DEF Others
    <2>4. ~CountsOne(tracker'[h]) /\ ~MarksSending(tracker'[h])
        BY <2>3 DEF CountsOne, MarksSending
    <2>5. CountsOne(u) => triggers = {}
        BY <1>1, <2>2 DEF UpdatesInv, IsEnding, NoToken
    <2>6. StartPending => StartPending'
        <3>1. /\ u.report = "started" => reports'["started"] = reports["started"] + 1
              /\ u.report # "started" => reports'["started"] = reports["started"]
            BY <2>1, <2>3, ReportEffect
        <3>2. u.report = "started" => StartPending'
            BY <3>1 DEF StartPending, RecurringTypes, TrackerTypes
        <3> HIDE DEF u
        <3>3. ASSUME u.report # "started", StartPending PROVE StartPending'
            <4>1. CASE reports["started"] > 0
                BY <3>1, <3>3, <4>1 DEF StartPending
            <4>2. ASSUME NEW k \in Handlers, tracker[k].at # "idle",
                         tracker[k].report = "started"
                  PROVE  StartPending'
                <5>1. k # h
                    BY <3>3, <4>2 DEF u
                <5> QED
                    BY <2>3, <4>2, <5>1 DEF StartPending
            <4> QED
                BY <3>3, <4>1, <4>2 DEF StartPending
        <3> QED
            BY <3>2, <3>3
    <2> HIDE DEF u
    <2>7. \A k \in Handlers :
             /\ CountsOne(tracker'[k]) => tracker'[k] = tracker[k] /\ CountsOne(tracker[k])
             /\ MarksSending(tracker'[k]) => tracker'[k] = tracker[k]
        BY <2>3, <2>4
    <2>8. NoneCounts' => \A j \in triggers' : j.id = row'.task /\ j.day = row'.scheduleTo
        BY <1>3, <2>2, <2>5
    <2> QED
        BY <1>3, <2>2, <2>6, <2>7, <2>8
<1>11. CASE Recurring!Operating
    <2>1. Recurring!Stop
        BY <1>0, <1>1, <1>11
           DEF Recurring!Operating, Recurring!Delete, Recurring!Reschedule, IsRow, RowShape
    <2>2. /\ row' = [row EXCEPT !.status = "stopped"] /\ stopFlag'
          /\ UNCHANGED <<triggers, reports, tracker>>
        BY <2>1 DEF Recurring!Stop
    <2>3. /\ row'.status = "stopped" /\ row'.task = row.task /\ row'.scheduleTo = row.scheduleTo
          /\ row'.count = row.count
        BY <1>0, <2>2 DEF IsRow, RowShape
    <2>4. NoneCounts' <=> NoneCounts
        BY <2>2 DEF NoneCounts
    <2> QED
        BY <1>3, <2>2, <2>3, <2>4
<1>12. CASE Recurring!StopFlagExpires \/ Recurring!Tick \/ UNCHANGED Recurring!vars
    <2>1. /\ UNCHANGED <<triggers, reports, tracker, row>>
          /\ stopFlag' => stopFlag
        BY <1>12 DEF Recurring!StopFlagExpires, Recurring!Tick, Recurring!vars
    <2>2. (NoneCounts' <=> NoneCounts) /\ (StartPending' <=> StartPending)
        BY <2>1 DEF NoneCounts, StartPending
    <2> QED
        BY <1>3, <2>1, <2>2
<1>13. ASSUME NEW h \in Handlers, NEW e \in {"started", "sent"}
      PROVE  ~Recurring!ReportRepeats(h, e)
    BY <1>1 DEF Recurring!ReportRepeats
<1>14. Goal
    BY <1>5, <1>6, <1>7, <1>8, <1>9, <1>10, <1>11, <1>12, <1>13
       DEF Recurring!Next, Recurring!Sending, Recurring!Loading, Recurring!Updating,
           Recurring!Trouble
<1> QED
    BY <1>14

\* A recurring campaign begins with one job, the API's.
LEMMA RecurringInit ==
    ASSUME Recurring!RecurringAssumption, Recurring!Init
    PROVE  RecurringTypes /\ TokenInv /\ LimitInv /\ JobInv
<1>1. /\ settings.untilSend \in Nat /\ running = 0 /\ sent = <<>>
      /\ reports = [e \in {"started", "sent"} |-> 0]
      /\ tracker = [h \in Handlers |-> Recurring!Idle]
      /\ triggers = {[id |-> 1, owner |-> "api", day |-> settings.first]} /\ ~stopFlag
      /\ row = [status |-> "scheduled", scheduleTo |-> settings.first, count |-> 0,
                lastSent |-> 0, task |-> 1, deleted |-> FALSE]
    BY DEF Recurring!RecurringAssumption, Recurring!Init
<1>2. /\ IsRow(row) /\ row.count = 0 /\ ~row.deleted /\ row.status = "scheduled"
      /\ row.task = 1 /\ row.scheduleTo = settings.first
    BY <1>1 DEF IsRow, RowShape
<1>3. IsSequence(sent) /\ Len(sent) = 0
    BY <1>1 DEF IsSequence
<1>4. \A h \in Handlers : tracker[h] = Recurring!Idle /\ tracker[h].at = "idle"
    BY <1>1 DEF Recurring!Idle
<1>5. TrackerTypes
    <2>1. tracker = [h \in Handlers |-> tracker[h]]
        BY <1>1
    <2>2. /\ reports["sent"] = 0 /\ reports["started"] = 0
          /\ reports = [e \in {"started", "sent"} |-> reports[e]]
        BY <1>1
    <2> QED
        BY <1>4, <2>1, <2>2 DEF TrackerTypes
<1>6. RecurringTypes
    BY <1>1, <1>2, <1>3, <1>5 DEF RecurringTypes
<1>7. \A h \in Handlers : /\ ~CarriesOn(tracker[h]) /\ ~CountsOne(tracker[h])
                          /\ ~MarksSending(tracker[h]) /\ ~ComesLate(tracker[h], row.count)
    BY <1>4 DEF CarriesOn, CountsOne, MarksSending, ComesLate
<1>8. NoneCarries /\ NoneCounts /\ ~IsEnding /\ ~IsOver /\ reports["sent"] = 0
    BY <1>1, <1>2, <1>7 DEF NoneCarries, NoneCounts, IsEnding, IsOver
<1>9. OneToken
    BY <1>1, <1>7, <1>8 DEF OneToken
<1>10. UpdatesInv
    BY <1>4, <1>7, <1>8 DEF UpdatesInv
<1>11. JobInv
    BY <1>1, <1>2, <1>7 DEF JobInv
<1>12. LimitInv
    BY <1>1, <1>2, <1>3, <1>4, <1>7, <1>8 DEF LimitInv, OnlySent, Counted
<1> QED
    BY <1>6, <1>9, <1>10, <1>11, <1>12 DEF TokenInv

\* The invariants above, in every state.
LEMMA RecurringStateHolds ==
    ASSUME Recurring!RecurringAssumption
    PROVE  Recurring!Spec => [](RecurringTypes /\ TokenInv /\ LimitInv /\ JobInv)
<1>1. Recurring!Init => RecurringTypes /\ TokenInv /\ LimitInv /\ JobInv
    BY RecurringInit
<1>2. RecurringTypes /\ TokenInv /\ LimitInv /\ JobInv /\ [Recurring!Next]_Recurring!vars
         => (RecurringTypes /\ TokenInv /\ LimitInv /\ JobInv)'
    BY RecurringTypesStep, TokenStep, LimitStep, JobStep
<1> QED
    BY <1>1, <1>2, PTL DEF Recurring!Spec

\* At most untilSend occurrences are sent, whatever the settings and lags, however
\* many reports are handled at once and wherever the next dates fall, unless a report
\* is handled twice or comes when the campaign is over, an update undoes the count of
\* another, or the operator reschedules (updateStatus and setRecurringCampaign).
THEOREM LimitIsKept ==
    ASSUME Recurring!RecurringAssumption PROVE Recurring!Spec => []Recurring!LimitKept
<1>1. RecurringTypes /\ LimitInv => Recurring!LimitKept
    <2> SUFFICES ASSUME RecurringTypes, LimitInv, settings.untilSend # 0,
                        strayed \subseteq {"unreported", "stopped", "undeleted", "overtaken"}
                 PROVE  Len(sent) <= settings.untilSend
        BY DEF Recurring!LimitKept
    <2>1. Len(sent) \in Nat /\ row.count \in Nat /\ settings.untilSend \in Nat
        BY SequenceAppend DEF RecurringTypes, IsRow
    <2>2. Counted \in Nat
        BY <2>1 DEF Counted
    <2> QED
        BY <2>1, <2>2 DEF LimitInv
<1> QED
    BY <1>1, RecurringStateHolds, PTL

\* A scheduled campaign with nothing under way has one job, the one its row points
\* to, on the row's day, unless a report is handled twice, a write undoes another, a
\* stop or a deletion, a job runs before its row is written, or the operator
\* reschedules (setRecurringCampaign and SchedulerService.delete).
THEOREM OneJobOnly ==
    ASSUME Recurring!RecurringAssumption PROVE Recurring!Spec => []Recurring!OneJob
<1>1. TokenInv /\ JobInv => Recurring!OneJob
    <2> SUFFICES ASSUME TokenInv, JobInv, row.status = "scheduled", ~row.deleted, running = 0,
                        reports["started"] = 0, reports["sent"] = 0,
                        \A h \in Handlers : tracker[h] = Recurring!Idle,
                        strayed \subseteq {"unreported", "completed"}
                 PROVE  \E j \in triggers : j.id = row.task /\ j.day = row.scheduleTo
                                            /\ triggers = {j}
        BY DEF Recurring!OneJob
    <2>1. \A h \in Handlers : tracker[h].at = "idle"
        BY DEF Recurring!Idle
    <2>2. NoneCounts /\ ~StartPending
        BY <2>1 DEF NoneCounts, CountsOne, StartPending
    <2>3. triggers # {} /\ \A j \in triggers : j.id = row.task /\ j.day = row.scheduleTo
        BY <2>2 DEF JobInv
    <2>4. \A i, j \in triggers : i = j
        BY DEF TokenInv, OneToken, Undisturbed
    <2>5. PICK j \in triggers : TRUE
        BY <2>3
    <2>6. triggers = {j}
        BY <2>4, <2>5
    <2> QED
        BY <2>3, <2>5, <2>6
<1> QED
    BY <1>1, RecurringStateHolds, PTL

(***************************************************************************)
(* The days a recurring campaign is sent on.                               *)
(***************************************************************************)

\* A day is given by its week and its weekday.
LEMMA Calendar ==
    ASSUME NEW d \in Nat
    PROVE  d % 7 \in 0..6 /\ Recurring!Week(d) \in Nat /\ d = (7 * Recurring!Week(d)) + (d % 7)
BY DEF Recurring!Week

\* The weekday and the week of a day given by them.
LEMMA DayOf ==
    ASSUME NEW a \in Nat, NEW w \in 0..6
    PROVE  ((7 * a) + w) % 7 = w /\ Recurring!Week((7 * a) + w) = a
BY DEF Recurring!Week

\* Every so many weeks.
LEMMA MultiplesOf ==
    ASSUME NEW m \in Nat \ {0}, NEW k \in Nat
    PROVE  (m * k) % m = 0 /\ m * k \in Nat /\ k <= m * k
OBVIOUS

\* What nextOccurrence looks for: a day from today on, on a weekday of the list, in
\* a week that counts.
Suits(s, current, today, e) ==
    /\ e % 7 \in s.weekDays /\ e >= today
    /\ (Recurring!Week(e) - Recurring!Week(current)) % s.interval = 0

\* One step of its search from weekday to weekday, and to the Sunday after.
NextWeekDay(s, d) ==
    LET later == {k \in s.weekDays : k > d % 7}
    IN  IF later # {} THEN d - (d % 7) + Min(later)
        ELSE d - (d % 7) + 7 + Min(s.weekDays)

NextSunday(d) == d - (d % 7) + 7

\* Where the search started on day d ends, when f is where it ends from later days.
SearchStep(s, current, today, f) ==
    [d \in Nat |->
        IF ~(d % 7 \in s.weekDays /\ d >= today) THEN f[NextWeekDay(s, d)]
        ELSE IF (Recurring!Week(d) - Recurring!Week(current)) % s.interval = 0 THEN d
        ELSE f[NextSunday(d)]]

\* There is always a day to come that suits.
LEMMA SomeDaySuits ==
    ASSUME NEW s, s.weekDays \in SUBSET (0..6), s.weekDays # {}, s.interval \in Nat \ {0},
           NEW current \in Nat, NEW today \in Nat, NEW d \in Nat
    PROVE  \E e \in Nat : e >= d /\ Suits(s, current, today, e)
<1>1. PICK w \in s.weekDays : w \in 0..6
    OBVIOUS
<1> DEFINE k == d + today
           c == Recurring!Week(current)
           a == c + (s.interval * k)
           e == (7 * a) + w
<1>2. k \in Nat /\ c \in Nat
    <2>1. Recurring!Week(current) \in Nat
        BY Calendar
    <2> QED
        BY <2>1
<1>3. (s.interval * k) % s.interval = 0 /\ s.interval * k \in Nat /\ k <= s.interval * k
    BY <1>2, MultiplesOf
<1>4. a \in Nat /\ a >= k /\ a - c = s.interval * k
    BY <1>2, <1>3
<1>5. e % 7 = w /\ Recurring!Week(e) = a
    BY <1>4, DayOf
<1>6. e \in Nat /\ e >= d /\ e >= today
    BY <1>1, <1>4
<1> HIDE DEF e, a, c, k
<1>7. (Recurring!Week(e) - Recurring!Week(current)) % s.interval = 0
    BY <1>3, <1>4, <1>5 DEF c
<1> QED
    BY <1>1, <1>5, <1>6, <1>7 DEF Suits

\* The first day from d on that suits.
FirstDay(s, current, today, d) ==
    CHOOSE e \in Nat : /\ e >= d /\ Suits(s, current, today, e)
                       /\ \A x \in Nat : x >= d /\ Suits(s, current, today, x) => e <= x

\* There is one, and it is the least.
LEMMA FirstDayIs ==
    ASSUME NEW s, s.weekDays \in SUBSET (0..6), s.weekDays # {}, s.interval \in Nat \ {0},
           NEW current \in Nat, NEW today \in Nat, NEW d \in Nat, NEW e,
           e = FirstDay(s, current, today, d)
    PROVE  /\ e \in Nat /\ e >= d /\ Suits(s, current, today, e)
           /\ \A x \in Nat : x >= d /\ Suits(s, current, today, x) => e <= x
<1> DEFINE S == {x \in Nat : x >= d /\ Suits(s, current, today, x)}
<1>1. S \in SUBSET Nat /\ S # {}
    BY SomeDaySuits
<1>2. PICK x \in S : \A y \in S : x <= y
    <2> HIDE DEF S
    <2> QED
        BY <1>1, FirstOf
<1> QED
    BY <1>2 DEF FirstDay

\* When no day before n suits, the search may go on from n.
LEMMA SameFirstDay ==
    ASSUME NEW s, s.weekDays \in SUBSET (0..6), s.weekDays # {}, s.interval \in Nat \ {0},
           NEW current \in Nat, NEW today \in Nat, NEW d \in Nat, NEW n \in Nat, n >= d,
           \A x \in Nat : x >= d /\ Suits(s, current, today, x) => x >= n
    PROVE  FirstDay(s, current, today, d) = FirstDay(s, current, today, n)
<1>1. PICK e : e = FirstDay(s, current, today, d)
    OBVIOUS
<1>2. PICK f : f = FirstDay(s, current, today, n)
    OBVIOUS
<1>3. /\ e \in Nat /\ e >= d /\ Suits(s, current, today, e)
      /\ \A x \in Nat : x >= d /\ Suits(s, current, today, x) => e <= x
    BY <1>1, FirstDayIs
<1>4. /\ f \in Nat /\ f >= n /\ Suits(s, current, today, f)
      /\ \A x \in Nat : x >= n /\ Suits(s, current, today, x) => f <= x
    BY <1>2, FirstDayIs
<1>5. e <= f
    BY <1>3, <1>4
<1>6. f <= e
    BY <1>3, <1>4
<1> QED
    BY <1>1, <1>2, <1>3, <1>4, <1>5, <1>6

\* The next day of the list: no weekday of it lies between.
LEMMA NextWeekDayIs ==
    ASSUME NEW s, s.weekDays \in SUBSET (0..6), s.weekDays # {}, NEW d \in Nat,
           NEW n, n = NextWeekDay(s, d)
    PROVE  /\ n \in Nat /\ n > d
           /\ \A x \in Nat : x > d /\ x % 7 \in s.weekDays => x >= n
<1> DEFINE later == {k \in s.weekDays : k > d % 7}
<1>1. ASSUME NEW S \in SUBSET (0..6), S # {}
      PROVE  Min(S) \in S /\ \A k \in S : Min(S) <= k
    <2>1. S \in SUBSET Nat
        OBVIOUS
    <2>2. PICK x \in S : \A y \in S : x <= y
        BY <1>1, <2>1, FirstOf
    <2> QED
        BY <2>2 DEF Min
<1>2. PICK a \in Nat : a = Recurring!Week(d)
    BY Calendar
<1>3. PICK w \in 0..6 : w = d % 7
    BY Calendar
<1>4. d = (7 * a) + w
    BY <1>2, <1>3, Calendar
<1>5. ASSUME NEW x \in Nat, x > d, x % 7 \in s.weekDays
      PROVE  \E b \in Nat, k \in s.weekDays : x = (7 * b) + k /\ k \in 0..6 /\ (b > a \/ (b = a /\ k > w))
    <2>1. PICK b \in Nat : b = Recurring!Week(x)
        BY Calendar
    <2>2. PICK k \in s.weekDays : k = x % 7 /\ k \in 0..6
        BY <1>5, Calendar
    <2>3. x = (7 * b) + k
        BY <2>1, <2>2, Calendar
    <2>4. b > a \/ (b = a /\ k > w)
        BY <1>4, <1>5, <2>2, <2>3
    <2> QED
        BY <2>2, <2>3, <2>4
<1>6. CASE later # {}
    <2>1. PICK m : m = Min(later)
        OBVIOUS
    <2>2. m \in later /\ \A k \in later : m <= k
        <3>1. later \in SUBSET (0..6)
            OBVIOUS
        <3> HIDE DEF later
        <3> QED
            BY <1>1, <1>6, <2>1, <3>1
    <2>3. n = (7 * a) + m
        BY <1>3, <1>4, <1>6, <2>1, <2>2 DEF NextWeekDay
    <2>4. m \in 0..6 /\ m > w
        BY <1>3, <2>2
    <2>5. ASSUME NEW x \in Nat, x > d, x % 7 \in s.weekDays PROVE x >= n
        <3>1. PICK b \in Nat, k \in s.weekDays :
                   x = (7 * b) + k /\ k \in 0..6 /\ (b > a \/ (b = a /\ k > w))
            BY <1>5, <2>5
        <3>2. b = a => m <= k
            BY <1>3, <2>2, <3>1
        <3> QED
            BY <2>3, <2>4, <3>1, <3>2
    <2> QED
        BY <1>4, <2>3, <2>4, <2>5
<1>7. CASE later = {}
    <2>1. PICK m : m = Min(s.weekDays)
        OBVIOUS
    <2>2. m \in s.weekDays /\ \A k \in s.weekDays : m <= k
        BY <1>1, <2>1
    <2>3. m \in 0..6 /\ n = (7 * a) + 7 + m
        BY <1>3, <1>4, <1>7, <2>1, <2>2 DEF NextWeekDay
    <2>4. ASSUME NEW x \in Nat, x > d, x % 7 \in s.weekDays PROVE x >= n
        <3>1. PICK b \in Nat, k \in s.weekDays :
                   x = (7 * b) + k /\ k \in 0..6 /\ (b > a \/ (b = a /\ k > w))
            BY <1>5, <2>4
        <3>2. b > a /\ m <= k
            BY <1>3, <1>7, <2>2, <3>1
        <3> QED
            BY <2>3, <3>1, <3>2
    <2> QED
        BY <1>4, <2>3, <2>4
<1> QED
    BY <1>6, <1>7

\* The Sunday after a day: every day in between is of the same week.
LEMMA NextSundayIs ==
    ASSUME NEW d \in Nat, NEW n, n = NextSunday(d)
    PROVE  /\ n \in Nat /\ n > d
           /\ \A x \in Nat : x >= d /\ Recurring!Week(x) # Recurring!Week(d) => x >= n
<1>1. PICK a \in Nat, w \in 0..6 : a = Recurring!Week(d) /\ w = d % 7 /\ d = (7 * a) + w
    BY Calendar
<1>2. n = (7 * a) + 7
    BY <1>1 DEF NextSunday
<1>3. n \in Nat /\ n > d
    <2>1. (7 * a) + 7 \in Nat /\ (7 * a) + 7 > (7 * a) + w
        OBVIOUS
    <2> QED
        BY <1>1, <1>2, <2>1
<1>4. ASSUME NEW x \in Nat, x >= d, Recurring!Week(x) # Recurring!Week(d) PROVE x >= n
    <2>1. PICK b \in Nat, k \in 0..6 : b = Recurring!Week(x) /\ k = x % 7 /\ x = (7 * b) + k
        BY Calendar
    <2>2. b # a /\ (7 * b) + k >= (7 * a) + w
        BY <1>1, <1>4, <2>1
    <2>3. b > a
        BY <2>2
    <2>4. (7 * b) + k >= (7 * a) + 7
        BY <2>3
    <2> QED
        BY <1>2, <2>1, <2>4
<1> QED
    BY <1>3, <1>4

\* A search that does not stop on a day goes on from a later one, and not past the
\* first that suits: from the next weekday of the list,
LEMMA GoesToWeekDay ==
    ASSUME NEW s, s.weekDays \in SUBSET (0..6), s.weekDays # {}, s.interval \in Nat \ {0},
           NEW current \in Nat, NEW today \in Nat, NEW d \in Nat,
           ~(d % 7 \in s.weekDays /\ d >= today)
    PROVE  /\ NextWeekDay(s, d) \in Nat /\ NextWeekDay(s, d) > d
           /\ FirstDay(s, current, today, d) = FirstDay(s, current, today, NextWeekDay(s, d))
<1>1. PICK n : n = NextWeekDay(s, d)
    OBVIOUS
<1>2. n \in Nat /\ n > d /\ \A x \in Nat : x > d /\ x % 7 \in s.weekDays => x >= n
    BY <1>1, NextWeekDayIs
<1>3. \A x \in Nat : x >= d /\ Suits(s, current, today, x) => x >= n
    BY <1>2 DEF Suits
<1>4. n >= d
    BY <1>2
<1>5. FirstDay(s, current, today, d) = FirstDay(s, current, today, n)
    BY <1>2, <1>3, <1>4, SameFirstDay
<1> QED
    BY <1>1, <1>2, <1>5

\* from the next Sunday;
LEMMA GoesToSunday ==
    ASSUME NEW s, s.weekDays \in SUBSET (0..6), s.weekDays # {}, s.interval \in Nat \ {0},
           NEW current \in Nat, NEW today \in Nat, NEW d \in Nat,
           (Recurring!Week(d) - Recurring!Week(current)) % s.interval # 0
    PROVE  /\ NextSunday(d) \in Nat /\ NextSunday(d) > d
           /\ FirstDay(s, current, today, d) = FirstDay(s, current, today, NextSunday(d))
<1>1. PICK n : n = NextSunday(d)
    OBVIOUS
<1>2. /\ n \in Nat /\ n > d
      /\ \A x \in Nat : x >= d /\ Recurring!Week(x) # Recurring!Week(d) => x >= n
    BY <1>1, NextSundayIs
<1>3. \A x \in Nat : x >= d /\ Suits(s, current, today, x) => x >= n
    BY <1>2 DEF Suits
<1>4. n >= d
    BY <1>2
<1>5. FirstDay(s, current, today, d) = FirstDay(s, current, today, n)
    BY <1>2, <1>3, <1>4, SameFirstDay
<1> QED
    BY <1>1, <1>2, <1>5

\* and a day that suits is the first from itself.
LEMMA StopsHere ==
    ASSUME NEW s, s.weekDays \in SUBSET (0..6), s.weekDays # {}, s.interval \in Nat \ {0},
           NEW current \in Nat, NEW today \in Nat, NEW d \in Nat, Suits(s, current, today, d)
    PROVE  FirstDay(s, current, today, d) = d
<1>1. PICK e : e = FirstDay(s, current, today, d)
    OBVIOUS
<1>2. d >= d
    OBVIOUS
<1>3. e \in Nat /\ e >= d /\ e <= d
    BY <1>1, <1>2, FirstDayIs
<1> QED
    BY <1>1, <1>3

\* The search can be carried out: where it ends, from any day, is the first that suits.
LEMMA SearchIsDefined ==
    ASSUME NEW s, s.weekDays \in SUBSET (0..6), s.weekDays # {}, s.interval \in Nat \ {0},
           NEW current \in Nat, NEW today \in Nat
    PROVE  \E g : g = SearchStep(s, current, today, g)
<1> DEFINE g == [d \in Nat |-> FirstDay(s, current, today, d)]
<1>1. ASSUME NEW d \in Nat
      PROVE  g[d] = IF ~(d % 7 \in s.weekDays /\ d >= today) THEN g[NextWeekDay(s, d)]
                    ELSE IF (Recurring!Week(d) - Recurring!Week(current)) % s.interval = 0 THEN d
                    ELSE g[NextSunday(d)]
    <2>1. CASE ~(d % 7 \in s.weekDays /\ d >= today)
        <3>1. /\ NextWeekDay(s, d) \in Nat
              /\ FirstDay(s, current, today, d) = FirstDay(s, current, today, NextWeekDay(s, d))
            BY <2>1, GoesToWeekDay, ZenonT(30)
        <3>2. g[d] = g[NextWeekDay(s, d)]
            BY <3>1
        <3> QED
            BY <2>1, <3>2
    <2>2. CASE /\ d % 7 \in s.weekDays /\ d >= today
               /\ (Recurring!Week(d) - Recurring!Week(current)) % s.interval = 0
        <3>1. FirstDay(s, current, today, d) = d
            BY <2>2, StopsHere DEF Suits
        <3>2. g[d] = d
            BY <3>1
        <3> QED
            BY <2>2, <3>2
    <2>3. CASE /\ d % 7 \in s.weekDays /\ d >= today
               /\ (Recurring!Week(d) - Recurring!Week(current)) % s.interval # 0
        <3>1. /\ NextSunday(d) \in Nat
              /\ FirstDay(s, current, today, d) = FirstDay(s, current, today, NextSunday(d))
            BY <2>3, GoesToSunday
        <3>2. g[d] = g[NextSunday(d)]
            BY <3>1
        <3> QED
            BY <2>3, <3>2
    <2> QED
        BY <2>1, <2>2, <2>3
<1>2. g = [d \in Nat |-> g[d]]
    OBVIOUS
<1> HIDE DEF g
<1>3. g = SearchStep(s, current, today, g)
    BY <1>1, <1>2 DEF SearchStep
<1> QED
    BY <1>3

\* And it is the only way to carry it out: of the days from which it ends elsewhere,
\* take one closest to the first that suits.
LEMMA SearchIs ==
    ASSUME NEW s, s.weekDays \in SUBSET (0..6), s.weekDays # {}, s.interval \in Nat \ {0},
           NEW current \in Nat, NEW today \in Nat,
           NEW f, f = SearchStep(s, current, today, f), NEW d \in Nat
    PROVE  f[d] = FirstDay(s, current, today, d)
<1> DEFINE First(x) == FirstDay(s, current, today, x)
           Far == {First(x) - x : x \in {y \in Nat : f[y] # First(y)}}
<1>1. ASSUME NEW x \in Nat PROVE First(x) \in Nat /\ First(x) >= x
    BY FirstDayIs
<1> SUFFICES ASSUME f[d] # First(d) PROVE FALSE
    OBVIOUS
<1>2. Far \in SUBSET Nat /\ Far # {}
    BY <1>1
<1>3. PICK m \in Far : \A k \in Far : m <= k
    <2> HIDE DEF Far
    <2> QED
        BY <1>2, FirstOf
<1>4. PICK x \in Nat : f[x] # First(x) /\ m = First(x) - x
    BY <1>3
<1>5. ASSUME NEW n \in Nat, n > x, First(n) = First(x) PROVE f[n] = First(x)
    <2>1. SUFFICES ASSUME f[n] # First(n) PROVE FALSE
        BY <1>5
    <2>2. First(n) - n \in Far
        BY <2>1
    <2>3. First(x) - x <= First(n) - n
        BY <1>3, <1>4, <2>2
    <2>4. First(x) \in Nat
        BY <1>1
    <2> HIDE DEF First, Far
    <2> QED
        BY <1>5, <2>3, <2>4
<1>6. f[x] = IF ~(x % 7 \in s.weekDays /\ x >= today) THEN f[NextWeekDay(s, x)]
             ELSE IF (Recurring!Week(x) - Recurring!Week(current)) % s.interval = 0 THEN x
             ELSE f[NextSunday(x)]
    BY DEF SearchStep
<1>7. CASE ~(x % 7 \in s.weekDays /\ x >= today)
    <2>1. NextWeekDay(s, x) \in Nat /\ NextWeekDay(s, x) > x /\ First(x) = First(NextWeekDay(s, x))
        BY <1>7, GoesToWeekDay
    <2>2. f[NextWeekDay(s, x)] = First(x)
        BY <1>5, <2>1
    <2> QED
        BY <1>4, <1>6, <1>7, <2>2
<1>8. CASE /\ x % 7 \in s.weekDays /\ x >= today
           /\ (Recurring!Week(x) - Recurring!Week(current)) % s.interval = 0
    <2>1. First(x) = x
        BY <1>8, StopsHere DEF Suits
    <2> QED
        BY <1>4, <1>6, <1>8, <2>1
<1>9. CASE /\ x % 7 \in s.weekDays /\ x >= today
           /\ (Recurring!Week(x) - Recurring!Week(current)) % s.interval # 0
    <2>1. NextSunday(x) \in Nat /\ NextSunday(x) > x /\ First(x) = First(NextSunday(x))
        BY <1>9, GoesToSunday
    <2>2. f[NextSunday(x)] = First(x)
        BY <1>5, <2>1
    <2> QED
        BY <1>4, <1>6, <1>9, <2>2
<1> QED
    BY <1>7, <1>8, <1>9

\* So nextOccurrence finds the first day after current, and from today on, that is on
\* a weekday of the list and in a week that counts.
LEMMA NextOccurrenceIs ==
    ASSUME NEW s, s.weekDays \in SUBSET (0..6), s.weekDays # {}, s.interval \in Nat \ {0},
           NEW current \in Nat, NEW today \in Nat
    PROVE  Recurring!NextOccurrence(s, current, today) = FirstDay(s, current, today, current + 1)
<1> DEFINE f == CHOOSE g : g = SearchStep(s, current, today, g)
<1>1. Recurring!NextOccurrence(s, current, today) = f[current + 1]
    BY DEF Recurring!NextOccurrence, SearchStep, NextWeekDay, NextSunday, Min, Recurring!Min
<1>2. f = SearchStep(s, current, today, f)
    BY SearchIsDefined
<1>3. current + 1 \in Nat
    OBVIOUS
<1> HIDE DEF f
<1>4. f[current + 1] = FirstDay(s, current, today, current + 1)
    BY <1>2, <1>3, SearchIs
<1> QED
    BY <1>1, <1>4

\* The next date is on the rhythm of the settings, and no day from today to it is.
LEMMA NextDateIs ==
    ASSUME Recurring!RecurringAssumption, settings \in Settings, now \in Nat, NEW d \in Nat,
           NEW n, n = Recurring!NextDate(d)
    PROVE  /\ n \in Nat /\ Recurring!Eligible(d, n)
           /\ \A e \in now..(n - 1) : ~Recurring!Eligible(d, e)
<1>1. /\ settings.frequency \in {"daily", "weekly"} /\ settings.interval \in Nat \ {0}
      /\ settings.weekDays \in SUBSET (0..6)
      /\ settings.frequency = "weekly" => settings.weekDays # {}
    BY DEF Recurring!RecurringAssumption
<1>2. CASE settings.frequency = "daily"
    <2>1. n = d + settings.interval
        BY <1>2 DEF Recurring!NextDate
    <2>2. n \in Nat /\ n > d /\ n - d = settings.interval
        BY <1>1, <2>1
    <2>3. settings.interval % settings.interval = 0
        BY <1>1
    <2>4. Recurring!Eligible(d, n)
        BY <1>2, <2>2, <2>3 DEF Recurring!Eligible
    <2>5. ASSUME NEW e \in now..(n - 1), Recurring!Eligible(d, e) PROVE FALSE
        <3>1. e \in Nat /\ e > d /\ e < n /\ (e - d) % settings.interval = 0
            BY <1>2, <2>2, <2>5 DEF Recurring!Eligible
        <3>2. e - d \in Nat /\ e - d < settings.interval /\ e - d # 0
            BY <1>1, <2>1, <3>1
        <3>3. (e - d) % settings.interval = e - d
            BY <1>1, <3>2
        <3> QED
            BY <3>1, <3>2, <3>3
    <2> QED
        BY <2>2, <2>4, <2>5
<1>3. CASE settings.frequency = "weekly"
    <2>1. n = FirstDay(settings, d, now, d + 1)
        BY <1>1, <1>3, NextOccurrenceIs DEF Recurring!NextDate
    <2>2. /\ n \in Nat /\ n >= d + 1 /\ Suits(settings, d, now, n)
          /\ \A x \in Nat : x >= d + 1 /\ Suits(settings, d, now, x) => n <= x
        <3>1. d + 1 \in Nat
            OBVIOUS
        <3> QED
            BY <1>1, <1>3, <2>1, <3>1, FirstDayIs
    <2>3. Recurring!Eligible(d, n)
        BY <1>3, <2>2 DEF Recurring!Eligible, Suits
    <2>4. ASSUME NEW e \in now..(n - 1), Recurring!Eligible(d, e) PROVE FALSE
        <3>1. e \in Nat /\ e >= d + 1 /\ e >= now /\ e < n
            BY <2>2, <2>4 DEF Recurring!Eligible
        <3>2. Suits(settings, d, now, e)
            BY <1>3, <2>4, <3>1 DEF Recurring!Eligible, Suits
        <3> QED
            BY <2>2, <3>1, <3>2
    <2> QED
        BY <2>2, <2>3, <2>4
<1> QED
    BY <1>1, <1>2, <1>3

\* The days are days: those of the row, as it is and as the tracker has it, those of
\* the jobs, and today.
HasDays(r) == r.scheduleTo \in Nat /\ r.lastSent \in Nat
Days ==
    /\ settings \in Settings /\ now \in Nat /\ HasDays(row)
    /\ \A j \in triggers : j.day \in Nat
    /\ \A h \in Handlers : tracker[h].at # "idle" =>
          HasDays(tracker[h].loaded) /\ HasDays(tracker[h].next)

\* A step of the tracker keeps them days, and gives one to the job it adds: the next
\* on the rhythm of the settings.
LEMMA RecurDays ==
    ASSUME Recurring!RecurringAssumption, RecurringTypes, Days, NEW h \in Handlers,
           Recurring!SetRecurring(h)
    PROVE  /\ HasDays(tracker'[h].next) /\ tracker[h].at = "loaded"
           /\ \A j \in triggers' : j.day \in Nat
           /\ \A j \in triggers' \ triggers :
                 /\ Recurring!Eligible(tracker[h].loaded.scheduleTo, j.day)
                 /\ \A e \in now..(j.day - 1) :
                       ~Recurring!Eligible(tracker[h].loaded.scheduleTo, e)
<1> DEFINE r == tracker[h].loaded
           v == tracker'[h]
<1>1. /\ IsUpdate(tracker[h]) /\ tracker[h].at = "loaded"
      /\ \/ /\ v.next = Recurring!Scheduled(r)
            /\ triggers' = triggers \cup {[id |-> v.next.task, owner |-> "tracker",
                                           day |-> v.next.scheduleTo]}
         \/ v.next = Recurring!Ended(r) /\ triggers' = triggers
    BY RecurEffect
<1>2. IsRow(r) /\ HasDays(r)
    BY <1>1 DEF IsUpdate, Days
<1> HIDE DEF r, v
<1>3. CASE /\ v.next = Recurring!Scheduled(r)
           /\ triggers' = triggers \cup {[id |-> v.next.task, owner |-> "tracker",
                                          day |-> v.next.scheduleTo]}
    <2>1. PICK n : n = Recurring!NextDate(r.scheduleTo)
        OBVIOUS
    <2>2. v.next.scheduleTo = n /\ v.next.lastSent = r.scheduleTo
        BY <1>2, <1>3, <2>1, RowAfter
    <2>3. r.scheduleTo \in Nat /\ settings \in Settings /\ now \in Nat
        BY <1>2 DEF HasDays, Days
    <2>4. /\ n \in Nat /\ Recurring!Eligible(r.scheduleTo, n)
          /\ \A e \in now..(n - 1) : ~Recurring!Eligible(r.scheduleTo, e)
        BY <2>1, <2>3, NextDateIs
    <2>5. \A j \in triggers' \ triggers : j.day = n
        BY <1>3, <2>2
    <2>6. \A j \in triggers' : j.day \in Nat
        BY <2>4, <2>5 DEF Days
    <2> QED
        BY <1>1, <2>2, <2>3, <2>4, <2>5, <2>6 DEF HasDays, r, v
<1>4. CASE v.next = Recurring!Ended(r) /\ triggers' = triggers
    <2>1. HasDays(v.next)
        BY <1>2, <1>4, RowEnded DEF HasDays
    <2> QED
        BY <1>1, <1>4, <2>1 DEF Days, v
<1> QED
    BY <1>1, <1>3, <1>4

\* Every step keeps them days.
LEMMA DaysStep ==
    ASSUME Recurring!RecurringAssumption, RecurringTypes, Days, [Recurring!Next]_Recurring!vars
    PROVE  Days'
<1>0. /\ settings \in Settings /\ now \in Nat /\ HasDays(row) /\ IsRow(row)
      /\ row.scheduleTo \in Nat /\ row.lastSent \in Nat
      /\ \A j \in triggers : j.day \in Nat
      /\ \A h \in Handlers : tracker[h].at # "idle" =>
            HasDays(tracker[h].loaded) /\ HasDays(tracker[h].next)
    BY DEF Days, HasDays, RecurringTypes
<1>1. ASSUME NEW job \in triggers, Recurring!Fire(job) PROVE Days'
    BY <1>0, <1>1 DEF Recurring!Fire, Days
<1>2. CASE Recurring!LastPage \/ Recurring!LastPageFails
    BY <1>0, <1>2 DEF Recurring!LastPage, Recurring!LastPageFails, Days
<1>3. ASSUME NEW h \in Handlers, NEW e \in {"started", "sent"},
             Recurring!LoadRow(h, e) \/ Recurring!ReportRepeats(h, e)
      PROVE  Days'
    <2>1. /\ UNCHANGED <<settings, now, row, triggers>>
          /\ \/ UNCHANGED tracker
             \/ /\ ~row.deleted /\ tracker[h] = Recurring!Idle
                /\ tracker' = [tracker EXCEPT ![h] = Recurring!Update(e)]
        BY <1>3 DEF Recurring!LoadRow, Recurring!ReportRepeats
    <2>2. CASE UNCHANGED tracker
        BY <1>0, <2>1, <2>2 DEF Days
    <2>3. CASE /\ ~row.deleted /\ tracker[h] = Recurring!Idle
               /\ tracker' = [tracker EXCEPT ![h] = Recurring!Update(e)]
        <3>1. /\ \A k \in Handlers : k # h => tracker'[k] = tracker[k]
              /\ tracker'[h] = Recurring!Update(e)
            BY <2>3, LoadEffect DEF Others, RecurringTypes, TrackerTypes
        <3>2. PICK s : s = [row EXCEPT !.status = "sending"]
            OBVIOUS
        <3>3. HasDays(s)
            BY <1>0, <3>2 DEF HasDays, IsRow, RowShape
        <3>4. tracker'[h] \in
                 {[at |-> "loaded", report |-> e, loaded |-> row, next |-> row],
                  [at |-> "ready", report |-> e, loaded |-> row, next |-> s]}
            BY <3>1, <3>2 DEF Recurring!Update
        <3>5. HasDays(tracker'[h].loaded) /\ HasDays(tracker'[h].next)
            BY <1>0, <3>3, <3>4
        <3> QED
            BY <1>0, <2>1, <3>1, <3>5 DEF Days
    <2> QED
        BY <2>1, <2>2, <2>3
<1>4. ASSUME NEW h \in Handlers, Recurring!SetRecurring(h) PROVE Days'
    <2>1. UNCHANGED <<settings, now, row>>
        BY <1>4 DEF Recurring!SetRecurring
    <2>2. /\ \A k \in Handlers : k # h => tracker'[k] = tracker[k]
          /\ tracker'[h].loaded = tracker[h].loaded
        BY <1>4, RecurEffect DEF Others
    <2>3. /\ HasDays(tracker'[h].next) /\ tracker[h].at = "loaded"
          /\ \A j \in triggers' : j.day \in Nat
        BY <1>4, RecurDays
    <2> QED
        BY <1>0, <2>1, <2>2, <2>3 DEF Days
<1>5. ASSUME NEW h \in Handlers, Recurring!WriteRow(h) \/ Recurring!UpdateFails(h)
      PROVE  Days'
    <2>1. /\ tracker[h] # Recurring!Idle /\ tracker' = [tracker EXCEPT ![h] = Recurring!Idle]
          /\ UNCHANGED <<settings, now, triggers>>
          /\ row' = row \/ row' = tracker[h].next
        BY <1>5 DEF Recurring!WriteRow, Recurring!UpdateFails, Recurring!Idle
    <2>2. /\ \A k \in Handlers : k # h => tracker'[k] = tracker[k]
          /\ tracker'[h].at = "idle" /\ tracker[h].at \in {"loaded", "ready"}
        BY <2>1, RestEffect DEF Others
    <2>3. HasDays(row')
        BY <1>0, <2>1, <2>2
    <2> QED
        BY <1>0, <2>1, <2>2, <2>3 DEF Days
<1>6. CASE Recurring!Stop \/ Recurring!Delete
    <2>1. /\ UNCHANGED <<settings, now, tracker>> /\ triggers' \subseteq triggers
          /\ row' \in {[row EXCEPT !.status = "stopped"],
                       [row EXCEPT !.status = "stopped", !.deleted = TRUE]}
        BY <1>6 DEF Recurring!Stop, Recurring!Delete
    <2>2. HasDays(row')
        BY <1>0, <2>1 DEF IsRow, RowShape, HasDays
    <2> QED
        BY <1>0, <2>1, <2>2 DEF Days
<1>7. ASSUME NEW d \in {now + 1, row.scheduleTo + 1}, Recurring!Reschedule(d) PROVE Days'
    <2>1. d \in Nat
        BY <1>0
    <2>2. /\ UNCHANGED <<settings, now, tracker>>
          /\ row' = [row EXCEPT !.scheduleTo = d, !.task = made + 1]
          /\ triggers' \subseteq triggers \cup {[id |-> made + 1, owner |-> "api", day |-> d]}
        BY <1>7 DEF Recurring!Reschedule
    <2>3. HasDays(row')
        BY <1>0, <2>1, <2>2 DEF IsRow, RowShape, HasDays
    <2>4. \A j \in triggers' : j.day \in Nat
        BY <1>0, <2>1, <2>2
    <2> QED
        BY <1>0, <2>2, <2>3, <2>4 DEF Days
<1>8. CASE Recurring!Tick
    <2>1. now' \in {row.scheduleTo + lag : lag \in Lags} \cup {j.day : j \in triggers}
        BY <1>8 DEF Recurring!Tick
    <2>2. Lags \subseteq Nat
        BY DEF Recurring!RecurringAssumption
    <2>3. now' \in Nat
        BY <1>0, <2>1, <2>2
    <2> QED
        BY <1>0, <1>8, <2>3 DEF Recurring!Tick, Days
<1>9. CASE Recurring!StopFlagExpires \/ UNCHANGED Recurring!vars
    BY <1>0, <1>9 DEF Recurring!StopFlagExpires, Recurring!vars, Days
<1> QED
    BY <1>1, <1>2, <1>3, <1>4, <1>5, <1>6, <1>7, <1>8, <1>9
       DEF Recurring!Next, Recurring!Sending, Recurring!Loading, Recurring!Updating,
           Recurring!Trouble, Recurring!Operating

\* The campaign begins on the first day of its settings.
LEMMA DaysInit ==
    ASSUME Recurring!RecurringAssumption, Recurring!Init PROVE Days
<1>1. /\ settings \in Settings /\ settings.first \in Nat /\ now = 0
      /\ triggers = {[id |-> 1, owner |-> "api", day |-> settings.first]}
      /\ tracker = [h \in Handlers |-> Recurring!Idle]
      /\ row = [status |-> "scheduled", scheduleTo |-> settings.first, count |-> 0,
                lastSent |-> 0, task |-> 1, deleted |-> FALSE]
    BY DEF Recurring!RecurringAssumption, Recurring!Init
<1>2. HasDays(row)
    BY <1>1 DEF HasDays
<1>3. \A j \in triggers : j.day = settings.first
    BY <1>1
<1>4. \A h \in Handlers : tracker[h].at = "idle"
    BY <1>1 DEF Recurring!Idle
<1> QED
    BY <1>1, <1>2, <1>3, <1>4 DEF Days

\* The job of the next occurrence is on the rhythm of the settings, daily or weekly
\* with any interval, any weekdays and any lag of the work behind the dates, and on
\* the first such day left when it is made, however many reports are handled at once
\* (setRecurringCampaign and nextOccurrence).
THEOREM RhythmIsKept ==
    ASSUME Recurring!RecurringAssumption PROVE Recurring!Spec => Recurring!KeepsRhythm
<1> DEFINE Keeps ==
        \A j \in triggers' \ triggers : j.owner = "tracker" =>
           \E h \in Handlers :
              /\ tracker[h].at = "loaded"
              /\ Recurring!Eligible(tracker[h].loaded.scheduleTo, j.day)
              /\ \A e \in now..(j.day - 1) :
                    ~Recurring!Eligible(tracker[h].loaded.scheduleTo, e)
<1>1. Recurring!Init => RecurringTypes /\ Days
    BY RecurringInit, DaysInit
<1>2. RecurringTypes /\ Days /\ [Recurring!Next]_Recurring!vars => (RecurringTypes /\ Days)'
    BY RecurringTypesStep, DaysStep
<1>3. RecurringTypes /\ Days /\ [Recurring!Next]_Recurring!vars => [Keeps]_Recurring!vars
    <2> SUFFICES ASSUME RecurringTypes, Days, Recurring!Next PROVE Keeps
        OBVIOUS
    <2>1. ASSUME NEW h \in Handlers, Recurring!SetRecurring(h) PROVE Keeps
        BY <2>1, RecurDays
    <2>2. CASE triggers' \subseteq triggers
        BY <2>2
    <2>3. ASSUME NEW d, Recurring!Reschedule(d) PROVE Keeps
        <3>1. triggers' \subseteq triggers \cup {[id |-> made + 1, owner |-> "api", day |-> d]}
            BY <2>3 DEF Recurring!Reschedule
        <3> QED
            BY <3>1
    <2>4. \/ triggers' \subseteq triggers \/ \E h \in Handlers : Recurring!SetRecurring(h)
          \/ \E d \in {now + 1, row.scheduleTo + 1} : Recurring!Reschedule(d)
        BY DEF Recurring!Next, Recurring!Sending, Recurring!Loading, Recurring!Updating,
           Recurring!Trouble, Recurring!Operating, Recurring!Fire, Recurring!LastPage,
           Recurring!LastPageFails, Recurring!LoadRow, Recurring!ReportRepeats,
           Recurring!WriteRow, Recurring!UpdateFails, Recurring!Stop, Recurring!Delete,
           Recurring!StopFlagExpires, Recurring!Tick
    <2> HIDE DEF Keeps
    <2> QED
        BY <2>1, <2>2, <2>3, <2>4
<1>4. Recurring!Spec => [][Keeps]_Recurring!vars
    BY <1>1, <1>2, <1>3, PTL DEF Recurring!Spec
<1> QED
    BY <1>4 DEF Recurring!KeepsRhythm

=============================================================================
