--------------------------- MODULE ListingProofs ---------------------------
(***************************************************************************)
(* Proofs about Listing, for any number of entries, any page size and any   *)
(* changes of the list.  PageInv relates what was shown to the cursor: what *)
(* stayed and was not shown is still to come, and what was shown is past.   *)
(***************************************************************************)
EXTENDS Listing, FiniteSetTheorems, TLAPS

\* Entry e is among those the next page is taken from.
ToCome(e) ==
    /\ kind \in Newest => e <= next
    /\ kind \in ByStamp => stamp[e] <= next
    /\ kind = "log" => e \in Ancestors[next]

\* Entry e is not among them.
Past(e) ==
    /\ kind \in Newest \cup {"log"} => e > next
    /\ kind \in ByName => e < next
    /\ kind \in ByStamp => stamp[e] > next

LogInv ==
    kind = "log" => /\ next # None => next \in rows
                    /\ \A d \in rows : Ancestors[d] \subseteq rows

\* No page has been asked for before there is a cursor.
StartInv == next = None /\ ~done => seen = {}

ComingInv ==
    /\ next # None
    /\ kind \in Newest \cup ByStamp \cup {"log"}
    /\ kind = "log" => Linear
    => \A e \in kept \ seen : ToCome(e)

PastInv ==
    next # None /\ kind \notin Oldest /\ ~tied
    => \A e \in seen \cap kept : Past(e)

PageInv == LogInv /\ StartInv /\ ComingInv /\ PastInv

Inv == TypeOK /\ PageInv /\ EveryEntrySeen /\ NoEntryTwice

-----------------------------------------------------------------------------
\* A page that has Count entries has one.
LEMMA PageNotEmpty ==
    ASSUME NEW S, Cardinality(S) = Count
    PROVE  \E e \in S : TRUE
<1>1. Count # 0
    BY NumbersAssumption
<1>2. Cardinality({}) = 0
    BY FS_EmptySet
<1> QED
    BY <1>1, <1>2

LEMMA NumberFacts ==
    /\ Entries \subseteq Nat /\ Stamps \subseteq Nat
    /\ None \notin Entries /\ None \notin Stamps
    /\ NoStamp \in Stamps
    BY NumbersAssumption DEF NoStamp

\* Which page each resolver turns.
LEMMA PageOfKind ==
    ASSUME Fetch
    PROVE  /\ kind \in Newest => ACLPage
           /\ kind \in Oldest => KeyPage
           /\ kind \in ByStamp => RepositoryPage
           /\ kind \in ByName => NamePage
           /\ kind = "log" => LogPage
    BY DEF Fetch, Acls, Artifacts, UserDeliveries, GitDeliveries, DeployKeys,
           UserWebhooks, GitWebhooks, OwnRepositories, Repositories, References,
           TreeEntries, Log, ArtifactPage, DeliveryPage, UserSubscriptionPage,
           GitSubscriptionPage, Newest, Oldest, ByStamp, ByName

LEMMA KindsApart ==
    ASSUME TypeOK
    PROVE  /\ kind \in Newest \cup Oldest \cup ByName \cup ByStamp \cup {"log"}
           /\ kind \in Newest => kind \notin Oldest \cup ByName \cup ByStamp \cup {"log"}
           /\ kind \in Oldest => kind \notin ByName \cup ByStamp \cup {"log"}
           /\ kind \in ByName => kind \notin ByStamp \cup {"log"}
           /\ kind \in ByStamp => kind # "log"
    BY KindsAssumption DEF TypeOK, Newest, Oldest, ByName, ByStamp

-----------------------------------------------------------------------------
(* A fetch: the entries it is taken from, and the two ways it ends.         *)

\* The entries the next page is taken from.
Rest ==
    CASE kind \in Newest \cup Oldest -> {e \in rows : next = None \/ e <= next}
      [] kind \in ByStamp -> {e \in rows : next = None \/ stamp[e] <= next}
      [] kind \in ByName -> {e \in {d \in rows : next = None \/ d > next} :
                                next = None \/ \E d \in rows : d > next /\ d < e}
      [] OTHER -> IF next = None THEN rows ELSE Ancestors[next]

\* Entry e comes before entry l, which the cursor names.
Before(e, l) ==
    CASE kind \in Newest \cup {"log"} -> e > l
      [] kind \in Oldest \cup ByName -> e < l
      [] OTHER -> stamp[e] >= stamp[l] /\ (stamp[e] = stamp[l] => tied')

After(e, l) ==
    CASE kind \in Newest \cup {"log"} -> e <= l
      [] kind \in Oldest \cup ByName -> e >= l
      [] OTHER -> stamp[e] <= stamp[l]

Cursor(l) == IF kind \in ByStamp THEN stamp[l] ELSE l

Turned(page, l) ==
    /\ l \in Rest /\ page \subseteq Rest
    /\ Cardinality(page) = Count
    /\ \A e \in page : Before(e, l)
    /\ \A e \in Rest \ page : After(e, l)
    /\ TurnPage(page, Cursor(l))
    /\ tied' \in BOOLEAN /\ (tied => tied')

\* Every page is the last one, or was cut at an entry the cursor names.
LEMMA FetchTurns ==
    ASSUME TypeOK, LogInv, Fetch
    PROVE  /\ Rest \subseteq Entries
           /\ \/ TurnPage(Rest, None) /\ tied' = tied
              \/ \E page, l : Turned(page, l)
<1> USE NumberFacts
<1>1. Rest \subseteq Entries
    <2>1. rows \subseteq Entries
        BY DEF TypeOK
    <2>2. CASE kind = "log" /\ next # None
        <3>1. kind \notin Newest \cup Oldest \cup ByStamp \cup ByName
            BY <2>2, KindsApart
        <3>2. Rest = Ancestors[next]
            BY <2>2, <3>1 DEF Rest
        <3>3. next \in Entries
            BY <2>1, <2>2 DEF LogInv
        <3> QED
            BY <3>2, <3>3, HistoryAssumption
    <2>3. CASE kind = "log" /\ next = None
        <3>1. kind \notin Newest \cup Oldest \cup ByStamp \cup ByName
            BY <2>3, KindsApart
        <3> QED
            BY <2>1, <2>3, <3>1 DEF Rest
    <2>4. CASE kind \in Newest \cup Oldest
        BY <2>1, <2>4 DEF Rest
    <2>5. CASE kind \in ByStamp
        <3>1. kind \notin Newest \cup Oldest
            BY <2>5, KindsApart
        <3> QED
            BY <2>1, <2>5, <3>1 DEF Rest
    <2>6. CASE kind \in ByName
        <3>1. kind \notin Newest \cup Oldest \cup ByStamp
            BY <2>6, KindsApart
        <3> QED
            BY <2>1, <2>6, <3>1 DEF Rest
    <2> QED
        BY <2>2, <2>3, <2>4, <2>5, <2>6, KindsApart
<1>2. CASE kind \in Newest
    <2>1. ACLPage
        BY <1>2, PageOfKind
    <2>2. kind \notin Oldest \cup ByName \cup ByStamp \cup {"log"}
        BY <1>2, KindsApart
    <2>3. Rest = {e \in rows : next = None \/ e <= next}
        BY <1>2, <2>2 DEF Rest
    <2>4. CASE LastPage(Rest)
        BY <1>1, <2>4 DEF LastPage
    <2>5. ASSUME NEW l \in Rest, Cardinality({e \in Rest : e > l}) = Count,
                 TurnPage({e \in Rest : e > l}, l), UNCHANGED tied
          PROVE  Turned({e \in Rest : e > l}, l)
        <3>1. \A e \in {d \in Rest : d > l} : Before(e, l)
            BY <1>2, <2>2 DEF Before
        <3>2. \A e \in Rest \ {d \in Rest : d > l} : After(e, l)
            BY <1>1, <1>2, <2>2 DEF After
        <3>3. Cursor(l) = l
            BY <2>2 DEF Cursor
        <3> QED
            BY <2>5, <3>1, <3>2, <3>3 DEF Turned, TypeOK
    <2> QED
        BY <1>1, <2>1, <2>3, <2>4, <2>5 DEF ACLPage
<1>3. CASE kind \in Oldest
    <2>1. KeyPage
        BY <1>3, PageOfKind
    <2>2. kind \notin Newest \cup ByName \cup ByStamp \cup {"log"}
        BY <1>3, KindsApart
    <2>3. Rest = {e \in rows : next = None \/ e <= next}
        BY <1>3, <2>2 DEF Rest
    <2>4. CASE LastPage(Rest)
        BY <1>1, <2>4 DEF LastPage
    <2>5. ASSUME NEW l \in Rest, Cardinality({e \in Rest : e < l}) = Count,
                 TurnPage({e \in Rest : e < l}, l), UNCHANGED tied
          PROVE  Turned({e \in Rest : e < l}, l)
        <3>1. \A e \in {d \in Rest : d < l} : Before(e, l)
            BY <1>3, <2>2 DEF Before
        <3>2. \A e \in Rest \ {d \in Rest : d < l} : After(e, l)
            BY <1>1, <1>3, <2>2 DEF After
        <3>3. Cursor(l) = l
            BY <2>2 DEF Cursor
        <3> QED
            BY <2>5, <3>1, <3>2, <3>3 DEF Turned, TypeOK
    <2> QED
        BY <1>1, <2>1, <2>3, <2>4, <2>5 DEF KeyPage
<1>4. CASE kind \in ByName
    <2>1. NamePage
        BY <1>4, PageOfKind
    <2>2. kind \notin Newest \cup Oldest \cup ByStamp \cup {"log"}
        BY <1>4, KindsApart
    <2> DEFINE after == {e \in rows : next = None \/ e > next}
               C == {e \in after : next = None \/ \E d \in after : d < e}
    <2>3. Rest = {e \in {d \in rows : next = None \/ d > next} :
                     next = None \/ \E d \in rows : d > next /\ d < e}
        BY <1>4, <2>2 DEF Rest
    <2>4. Rest = C
        BY <2>3
    <2>5. CASE LastPage(C)
        BY <1>1, <2>4, <2>5 DEF LastPage
    <2>6. ASSUME NEW l \in Rest, Cardinality({e \in Rest : e < l}) = Count,
                 TurnPage({e \in Rest : e < l}, l), UNCHANGED tied
          PROVE  Turned({e \in Rest : e < l}, l)
        <3>1. \A e \in {d \in Rest : d < l} : Before(e, l)
            BY <1>4, <2>2 DEF Before
        <3>2. \A e \in Rest \ {d \in Rest : d < l} : After(e, l)
            BY <1>1, <1>4, <2>2 DEF After
        <3>3. Cursor(l) = l
            BY <2>2 DEF Cursor
        <3> QED
            BY <2>6, <3>1, <3>2, <3>3 DEF Turned, TypeOK
    <2>7. \/ LastPage(C)
          \/ \E l \in C : /\ Cardinality({e \in C : e < l}) = Count
                          /\ TurnPage({e \in C : e < l}, l)
                          /\ UNCHANGED tied
        BY <2>1 DEF NamePage
    <2> HIDE DEF C
    <2> QED
        BY <1>1, <2>4, <2>5, <2>6, <2>7
<1>5. CASE kind \in ByStamp
    <2>1. RepositoryPage
        BY <1>5, PageOfKind
    <2>2. kind \notin Newest \cup Oldest \cup ByName \cup {"log"}
        BY <1>5, KindsApart
    <2>3. Rest = {e \in rows : next = None \/ stamp[e] <= next}
        BY <1>5, <2>2 DEF Rest
    <2>4. CASE LastPage(Rest)
        BY <1>1, <2>4 DEF LastPage
    <2>5. ASSUME NEW l \in Rest, NEW page \in SUBSET (Rest \ {l}),
                 Cardinality(page) = Count,
                 \A e \in page : stamp[e] >= stamp[l],
                 \A e \in Rest \ page : stamp[e] <= stamp[l],
                 TurnPage(page, stamp[l]),
                 tied' = (tied \/ \E e \in page : stamp[e] = stamp[l])
          PROVE  Turned(page, l)
        <3>1. Cursor(l) = stamp[l]
            BY <1>5 DEF Cursor
        <3>2. \A e \in page : Before(e, l)
            BY <2>2, <2>5 DEF Before
        <3>3. \A e \in Rest \ page : After(e, l)
            BY <2>2, <2>5 DEF After
        <3> QED
            BY <2>5, <3>1, <3>2, <3>3 DEF Turned, TypeOK
    <2> QED
        BY <1>1, <2>1, <2>3, <2>4, <2>5 DEF RepositoryPage
<1>6. CASE kind = "log"
    <2>1. LogPage
        BY <1>6, PageOfKind
    <2>2. kind \notin Newest \cup Oldest \cup ByName \cup ByStamp
        BY <1>6, KindsApart
    <2>3. Rest = IF next = None THEN rows ELSE Ancestors[next]
        BY <2>2 DEF Rest
    <2>4. CASE LastPage(Rest)
        BY <1>1, <2>4 DEF LastPage
    <2>5. ASSUME NEW l \in Rest, Cardinality({e \in Rest : e > l}) = Count,
                 TurnPage({e \in Rest : e > l}, l), UNCHANGED tied
          PROVE  Turned({e \in Rest : e > l}, l)
        <3>1. \A e \in {d \in Rest : d > l} : Before(e, l)
            BY <1>6, <2>2 DEF Before
        <3>2. \A e \in Rest \ {d \in Rest : d > l} : After(e, l)
            BY <1>1, <1>6, <2>2 DEF After
        <3>3. Cursor(l) = l
            BY <2>2 DEF Cursor
        <3> QED
            BY <2>5, <3>1, <3>2, <3>3 DEF Turned, TypeOK
    <2> QED
        BY <1>1, <2>1, <2>3, <2>4, <2>5 DEF LogPage
<1> QED
    BY <1>2, <1>3, <1>4, <1>5, <1>6, KindsApart

-----------------------------------------------------------------------------
(* The initial states, and the steps that change the list.                  *)

LEMMA InitHolds == Init => Inv
<1> SUFFICES ASSUME Init PROVE Inv
    OBVIOUS
<1> USE NumberFacts
<1>1. rows \subseteq Entries
    BY HistoryAssumption DEF Init
<1>2. TypeOK
    <2>1. stamp \in [Entries -> Stamps]
        BY DEF Init
    <2>2. changes \in 0 .. Changes
        BY NumbersAssumption DEF Init
    <2> QED
        BY <1>1, <2>1, <2>2 DEF Init, TypeOK
<1>3. LogInv
    <2> SUFFICES ASSUME kind = "log"
                 PROVE  \A d \in rows : Ancestors[d] \subseteq rows
        BY DEF Init, LogInv
    <2>1. PICK c \in Entries : rows = Ancestors[c]
        BY DEF Init
    <2> QED
        BY <2>1, HistoryAssumption
<1>4. StartInv /\ ComingInv /\ PastInv /\ EveryEntrySeen /\ NoEntryTwice
    BY DEF Init, StartInv, ComingInv, PastInv, EveryEntrySeen, NoEntryTwice
<1> QED
    BY <1>2, <1>3, <1>4 DEF Inv, PageInv

\* What a change of the list leaves alone, and what it may do to the rest.
Changed ==
    /\ Change
    /\ UNCHANGED <<kind, next, done, seen, twice, tied>>
    /\ rows' \subseteq Entries /\ used' \subseteq Entries
    /\ stamp' \in [Entries -> Stamps]
    /\ kept' \subseteq kept \cap rows'
    /\ \A e \in kept' : stamp'[e] = stamp[e]

LEMMA ListChanges ==
    ASSUME Inv, NEW e \in Entries, Insert(e) \/ Remove(e) \/ Touch(e)
    PROVE  Changed
<1> USE NumberFacts DEF Inv, TypeOK, Changed, history
<1>1. CASE Insert(e)
    <2>1. kept' = kept /\ e \notin kept /\ rows' = rows \cup {e}
        BY <1>1 DEF Insert
    <2>2. PICK s \in Stamps : stamp' = [stamp EXCEPT ![e] = s]
        BY <1>1 DEF Insert
    <2>3. stamp' \in [Entries -> Stamps] /\ \A d \in kept' : stamp'[d] = stamp[d]
        BY <2>1, <2>2
    <2> QED
        BY <1>1, <2>1, <2>3 DEF Insert
<1>2. CASE Remove(e)
    <2>1. kept' = kept \ {e} /\ rows' = rows \ {e}
          /\ stamp' = [stamp EXCEPT ![e] = NoStamp]
        BY <1>2 DEF Remove
    <2>2. stamp' \in [Entries -> Stamps] /\ \A d \in kept' : stamp'[d] = stamp[d]
        BY <2>1
    <2> QED
        BY <1>2, <2>1, <2>2 DEF Remove
<1>3. CASE Touch(e)
    <2>1. kept' = kept \ {e} /\ rows' = rows
        BY <1>3 DEF Touch
    <2>2. PICK s \in Stamps : stamp' = [stamp EXCEPT ![e] = s]
        BY <1>3 DEF Touch
    <2>3. stamp' \in [Entries -> Stamps] /\ \A d \in kept' : stamp'[d] = stamp[d]
        BY <2>1, <2>2
    <2> QED
        BY <1>3, <2>1, <2>3 DEF Touch
<1> QED
    BY <1>1, <1>2, <1>3

LEMMA ChangeKeeps ==
    ASSUME Inv, Changed
    PROVE  Inv'
<1> USE DEF Changed, Change
<1>1. TypeOK'
    BY NumbersAssumption DEF Inv, TypeOK
<1>2. LogInv'
    BY DEF LogInv
<1>3. StartInv'
    BY DEF Inv, PageInv, StartInv
<1>4. ComingInv'
    <2> SUFFICES ASSUME next # None, kind \in Newest \cup ByStamp,
                        NEW e \in kept' \ seen
                 PROVE  ToCome(e)'
        BY DEF ComingInv
    <2>1. ToCome(e)
        BY DEF Inv, PageInv, ComingInv
    <2> QED
        BY <2>1 DEF ToCome
<1>5. PastInv'
    <2> SUFFICES ASSUME next # None, kind \notin Oldest, ~tied,
                        NEW e \in seen \cap kept'
                 PROVE  Past(e)'
        BY DEF PastInv
    <2>1. Past(e)
        BY DEF Inv, PageInv, PastInv
    <2> QED
        BY <2>1 DEF Past
<1>6. EveryEntrySeen'
    BY DEF EveryEntrySeen
<1>7. NoEntryTwice'
    BY DEF Inv, NoEntryTwice
<1> QED
    BY <1>1, <1>2, <1>3, <1>4, <1>5, <1>6, <1>7 DEF Inv, PageInv

-----------------------------------------------------------------------------
(* A fetch keeps the invariant.                                             *)

\* What stayed and was not shown yet is taken for the next page.
LEMMA UnseenIsRest ==
    ASSUME Inv, Fetch,
           kind \in Newest \cup ByStamp \cup {"log"}, kind = "log" => Linear,
           NEW e \in kept \ seen
    PROVE  e \in Rest
<1>1. e \in rows
    BY DEF Inv, TypeOK
<1>2. next # None => ToCome(e)
    BY DEF Inv, PageInv, ComingInv
<1>3. CASE kind \in Newest
    BY <1>1, <1>2, <1>3, KindsApart DEF Rest, ToCome, Inv
<1>4. CASE kind \in ByStamp
    BY <1>1, <1>2, <1>4, KindsApart DEF Rest, ToCome, Inv
<1>5. CASE kind = "log"
    <2>1. kind \notin Newest \cup Oldest \cup ByName \cup ByStamp
        BY <1>5, KindsApart DEF Inv
    <2>2. Rest = IF next = None THEN rows ELSE Ancestors[next]
        BY <2>1 DEF Rest
    <2>3. next # None => e \in Ancestors[next]
        BY <1>2, <1>5 DEF ToCome
    <2> QED
        BY <1>1, <2>2, <2>3
<1> QED
    BY <1>3, <1>4, <1>5

\* What was shown and stayed is not.
LEMMA SeenIsNotRest ==
    ASSUME Inv, Fetch, kind \notin Oldest, ~tied
    PROVE  Rest \cap seen \cap kept = {}
<1> USE NumberFacts
<1>1. CASE next = None
    BY <1>1 DEF Inv, PageInv, StartInv, Fetch
<1>2. CASE next # None
    <2> SUFFICES ASSUME NEW e \in Rest \cap seen \cap kept PROVE FALSE
        OBVIOUS
    <2>1. Past(e)
        BY <1>2 DEF Inv, PageInv, PastInv
    <2>2. e \in Nat /\ next \in Nat /\ stamp[e] \in Nat
        BY <1>2 DEF Inv, TypeOK
    <2>3. CASE kind \in Newest
        <3>1. e <= next
            BY <1>2, <2>3 , KindsApart DEF Rest, Inv
        <3> QED
            BY <2>1, <2>2, <2>3, <3>1 DEF Past
    <2>4. CASE kind = "log"
        <3>1. next \in Entries
            BY <1>2, <2>4 DEF Inv, PageInv, LogInv, TypeOK
        <3>2. e \in Ancestors[next]
            BY <1>2, <2>4, KindsApart DEF Rest, Inv
        <3>3. e <= next
            BY <3>1, <3>2, HistoryAssumption
        <3> QED
            BY <2>1, <2>2, <2>4, <3>3 DEF Past
    <2>5. CASE kind \in ByName
        <3>1. e > next
            BY <1>2, <2>5, KindsApart DEF Rest, Inv
        <3> QED
            BY <2>1, <2>2, <2>5, <3>1 DEF Past
    <2>6. CASE kind \in ByStamp
        <3>1. stamp[e] <= next
            BY <1>2, <2>6, KindsApart DEF Rest, Inv
        <3> QED
            BY <2>1, <2>2, <2>6, <3>1 DEF Past
    <2> QED
        BY <2>3, <2>4, <2>5, <2>6, KindsApart DEF Inv
<1> QED
    BY <1>1, <1>2

\* A page is made of entries nobody who stayed has been shown.
LEMMA NothingTwice ==
    ASSUME Inv, Fetch, NEW page \in SUBSET Rest, NEW c,
           TurnPage(page, c), tied => tied'
    PROVE  NoEntryTwice'
<1> SUFFICES ASSUME kind \notin Oldest, ~tied' PROVE (twice \cap kept)' = {}
    BY DEF NoEntryTwice, TurnPage
<1>1. twice \cap kept = {}
    BY DEF Inv, NoEntryTwice
<1>2. Rest \cap seen \cap kept = {}
    BY SeenIsNotRest
<1>3. twice' = twice \cup (seen \cap page) /\ kept' = kept
    BY DEF TurnPage
<1> QED
    BY <1>1, <1>2, <1>3

LEMMA LastKeeps ==
    ASSUME Inv, Fetch, Rest \subseteq Entries, TurnPage(Rest, None), tied' = tied
    PROVE  Inv'
<1> USE DEF TurnPage, table
<1>1. TypeOK'
    BY NumberFacts DEF Inv, TypeOK
<1>2. LogInv'
    BY DEF Inv, PageInv, LogInv
<1>3. StartInv' /\ ComingInv' /\ PastInv'
    BY DEF StartInv, ComingInv, PastInv
<1>4. EveryEntrySeen'
    <2> SUFFICES ASSUME kind \in Newest \cup ByStamp \cup {"log"},
                        kind = "log" => Linear
                 PROVE  kept \subseteq seen \cup Rest
        BY DEF EveryEntrySeen, Linear
    <2> QED
        BY UnseenIsRest
<1>5. NoEntryTwice'
    BY NothingTwice
<1> QED
    BY <1>1, <1>2, <1>3, <1>4, <1>5 DEF Inv, PageInv

LEMMA TurnKeeps ==
    ASSUME Inv, Fetch, Rest \subseteq Entries, NEW page, NEW l, Turned(page, l)
    PROVE  Inv'
<1> USE NumberFacts
<1>1. /\ next' = Cursor(l) /\ seen' = seen \cup page
      /\ twice' = twice \cup (seen \cap page)
      /\ UNCHANGED <<kind, rows, used, stamp, changes, kept>>
      /\ l \in Entries /\ page \subseteq Rest /\ l \in Rest
      /\ done' = (Cursor(l) = None)
    BY DEF Turned, TurnPage, table
<1>2. /\ kind \in ByStamp => next' = stamp[l] /\ next' \in Stamps
      /\ kind \notin ByStamp => next' = l
    BY <1>1 DEF Cursor, Inv, TypeOK
<1>3. next' # None /\ ~done' /\ done' \in BOOLEAN
    BY <1>1, <1>2
<1>4. tied' \in BOOLEAN
    BY DEF Turned
<1>5. TypeOK'
    BY <1>1, <1>2, <1>3, <1>4 DEF Inv, TypeOK
<1>6. LogInv'
    <2> SUFFICES ASSUME kind = "log"
                 PROVE  l \in rows /\ \A d \in rows : Ancestors[d] \subseteq rows
        BY <1>1, <1>2, KindsApart DEF LogInv, Inv
    <2>1. \A d \in rows : Ancestors[d] \subseteq rows
        BY DEF Inv, PageInv, LogInv
    <2>2. Rest \subseteq rows
        BY <2>1, KindsApart DEF Inv, PageInv, LogInv, Rest
    <2> QED
        BY <1>1, <2>1, <2>2
<1>7. StartInv'
    BY <1>3 DEF StartInv
<1>8. ComingInv'
    <2> SUFFICES ASSUME kind \in Newest \cup ByStamp \cup {"log"},
                        kind = "log" => Linear,
                        NEW e \in kept \ (seen \cup page)
                 PROVE  ToCome(e)'
        BY <1>1 DEF ComingInv, Linear
    <2>1. e \in Rest
        BY UnseenIsRest
    <2>2. After(e, l)
        BY <2>1 DEF Turned
    <2>3. CASE kind \in Newest
        BY <1>1, <1>2, <2>2, <2>3, KindsApart DEF After, ToCome, Inv
    <2>4. CASE kind \in ByStamp
        BY <1>1, <1>2, <2>2, <2>4, KindsApart DEF After, ToCome, Inv
    <2>5. CASE kind = "log"
        <3>1. e <= l
            BY <2>2, <2>5, KindsApart DEF After, Inv
        <3>2. e \in rows
            BY DEF Inv, TypeOK
        <3>3. l \in rows
            BY <1>1, <1>2, <1>3, <1>6, <2>5, KindsApart DEF LogInv, Inv
        <3>4. e \in Ancestors[l]
            BY <2>5, <3>1, <3>2, <3>3 DEF Linear
        <3> QED
            BY <1>1, <1>2, <2>5, <3>4, KindsApart DEF ToCome, Inv
    <2> QED
        BY <2>3, <2>4, <2>5
<1>9. PastInv'
    <2> SUFFICES ASSUME kind \notin Oldest, ~tied',
                        NEW e \in (seen \cup page) \cap kept
                 PROVE  Past(e)'
        BY <1>1 DEF PastInv
    <2>1. ~tied
        BY DEF Turned
    <2>2. e \in Nat /\ l \in Nat /\ stamp[e] \in Nat /\ stamp[l] \in Nat
        BY <1>1 DEF Inv, TypeOK
    <2>3. CASE e \in page
        <3>1. Before(e, l)
            BY <2>3 DEF Turned
        <3>2. CASE kind \in Newest \cup {"log"}
            BY <1>1, <1>2, <3>1, <3>2, KindsApart DEF Before, Past, Inv
        <3>3. CASE kind \in ByName
            BY <1>1, <1>2, <3>1, <3>3, KindsApart DEF Before, Past, Inv
        <3>4. CASE kind \in ByStamp
            BY <1>1, <1>2, <2>2, <3>1, <3>4, KindsApart DEF Before, Past, Inv
        <3> QED
            BY <3>2, <3>3, <3>4, KindsApart DEF Inv
    <2>4. CASE e \in seen
        <3>1. next # None
            BY <2>4 DEF Inv, PageInv, StartInv, Fetch
        <3>2. Past(e)
            BY <2>1, <2>4, <3>1 DEF Inv, PageInv, PastInv
        <3>3. next \in Nat
            BY <3>1 DEF Inv, TypeOK
        <3>4. CASE kind \in Newest
            <4>1. l <= next
                BY <1>1, <3>1, <3>4, KindsApart DEF Rest, Inv
            <4> QED
                BY <1>1, <1>2, <2>2, <3>2, <3>3, <3>4, <4>1, KindsApart
                   DEF Past, Inv
        <3>5. CASE kind = "log"
            <4>1. l \in Ancestors[next] /\ next \in Entries
                BY <1>1, <3>1, <3>5, KindsApart
                   DEF Rest, Inv, PageInv, LogInv, TypeOK
            <4>2. l <= next
                BY <4>1, HistoryAssumption
            <4> QED
                BY <1>1, <1>2, <2>2, <3>2, <3>3, <3>5, <4>2, KindsApart
                   DEF Past, Inv
        <3>6. CASE kind \in ByName
            <4>1. l > next
                BY <1>1, <3>1, <3>6, KindsApart DEF Rest, Inv
            <4> QED
                BY <1>1, <1>2, <2>2, <3>2, <3>3, <3>6, <4>1, KindsApart
                   DEF Past, Inv
        <3>7. CASE kind \in ByStamp
            <4>1. stamp[l] <= next
                BY <1>1, <3>1, <3>7, KindsApart DEF Rest, Inv
            <4> QED
                BY <1>1, <1>2, <2>2, <3>2, <3>3, <3>7, <4>1, KindsApart
                   DEF Past, Inv
        <3> QED
            BY <3>4, <3>5, <3>6, <3>7, KindsApart DEF Inv
    <2> QED
        BY <2>3, <2>4
<1>10. EveryEntrySeen'
    BY <1>3 DEF EveryEntrySeen
<1>11. NoEntryTwice'
    BY NothingTwice DEF Turned
<1> QED
    BY <1>5, <1>6, <1>7, <1>8, <1>9, <1>10, <1>11 DEF Inv, PageInv

LEMMA FetchKeeps ==
    ASSUME Inv, Fetch
    PROVE  Inv'
<1>1. Rest \subseteq Entries
    BY FetchTurns DEF Inv, PageInv
<1>2. \/ TurnPage(Rest, None) /\ tied' = tied
      \/ \E page, l : Turned(page, l)
    BY FetchTurns DEF Inv, PageInv
<1> QED
    BY <1>1, <1>2, LastKeeps, TurnKeeps

LEMMA StepKeeps == Inv /\ [Next]_vars => Inv'
<1> SUFFICES ASSUME Inv, [Next]_vars PROVE Inv'
    OBVIOUS
<1>1. CASE Fetch
    BY <1>1, FetchKeeps
<1>2. CASE \E e \in Entries : Insert(e) \/ Remove(e) \/ Touch(e)
    BY <1>2, ListChanges, ChangeKeeps
<1>3. CASE UNCHANGED vars
    <2>1. UNCHANGED <<kind, rows, used, stamp, changes, next, done, seen, twice,
                      kept, tied>>
        BY <1>3 DEF vars, table, history
    <2>2. TypeOK' /\ EveryEntrySeen' /\ NoEntryTwice'
        BY <2>1 DEF Inv, TypeOK, EveryEntrySeen, NoEntryTwice, Linear
    <2>3. LogInv' /\ StartInv'
        BY <2>1 DEF Inv, PageInv, LogInv, StartInv
    <2>4. ComingInv' /\ PastInv'
        BY <2>1 DEF Inv, PageInv, ComingInv, PastInv, ToCome, Past, Linear
    <2> QED
        BY <2>2, <2>3, <2>4 DEF Inv, PageInv
<1> QED
    BY <1>1, <1>2, <1>3 DEF Next

\* A step that turns a page moves the cursor on.
LEMMA StepAdvances ==
    ASSUME Inv, Fetch, next # None, ~done', kind \notin Oldest, ~tied'
    PROVE  Further(next', next)
<1> USE NumberFacts
<1>1. Rest \subseteq Entries
    BY FetchTurns DEF Inv, PageInv
<1>2. PICK page, l : Turned(page, l)
    BY FetchTurns DEF Inv, PageInv, TurnPage
<1>3. PICK e \in page : TRUE
    BY <1>2, PageNotEmpty DEF Turned
<1>4. Before(e, l) /\ e \in Rest /\ l \in Rest /\ next' = Cursor(l) /\ kind' = kind
    BY <1>2, <1>3 DEF Turned, TurnPage
<1>5. e \in Nat /\ l \in Nat /\ stamp[e] \in Nat /\ stamp[l] \in Nat /\ next \in Nat
    BY <1>1, <1>4 DEF Inv, TypeOK
<1>6. CASE kind \in Newest
    <2>1. e <= next /\ e > l /\ next' = l
        BY <1>4, <1>6, KindsApart DEF Rest, Before, Cursor, Inv
    <2> QED
        BY <1>5, <1>6, <2>1, KindsApart DEF Further, Inv
<1>7. CASE kind = "log"
    <2>1. e \in Ancestors[next] /\ e > l /\ next' = l
        BY <1>4, <1>7, KindsApart DEF Rest, Before, Cursor, Inv
    <2>2. next \in Entries
        BY <1>7 DEF Inv, PageInv, LogInv, TypeOK
    <2>3. e <= next
        BY <2>1, <2>2, HistoryAssumption
    <2> QED
        BY <1>5, <1>7, <2>1, <2>3, KindsApart DEF Further, Inv
<1>8. CASE kind \in ByName
    <2>1. l > next /\ next' = l
        BY <1>4, <1>8, KindsApart DEF Rest, Cursor, Inv
    <2> QED
        BY <1>8, <2>1 DEF Further
<1>9. CASE kind \in ByStamp
    <2>1. stamp[e] <= next /\ stamp[e] >= stamp[l] /\ stamp[e] # stamp[l]
          /\ next' = stamp[l]
        BY <1>4, <1>9, KindsApart DEF Rest, Before, Cursor, Inv
    <2> QED
        BY <1>5, <1>9, <2>1, KindsApart DEF Further, Inv
<1> QED
    BY <1>6, <1>7, <1>8, <1>9, KindsApart DEF Inv

-----------------------------------------------------------------------------
(* The theorems.                                                            *)

\* Every state has the invariant that relates pages and cursor.
THEOREM ListingInvariant == Spec => []Inv
    BY InitHolds, StepKeeps, PTL DEF Spec

\* Types, whatever is listed and however it changes.
THEOREM ListingTyped == Spec => []TypeOK
<1>1. Inv => TypeOK
    BY DEF Inv
<1> QED
    BY <1>1, ListingInvariant, PTL

\* A client that reached the null cursor has seen what was there all along, on
\* each list whose cursor is the entry left for the next page.
THEOREM EveryEntryIsSeen == Spec => []EveryEntrySeen
<1>1. Inv => EveryEntrySeen
    BY DEF Inv
<1> QED
    BY <1>1, ListingInvariant, PTL

\* No entry that stayed is on two pages.
THEOREM NoEntryComesTwice == Spec => []NoEntryTwice
<1>1. Inv => NoEntryTwice
    BY DEF Inv
<1> QED
    BY <1>1, ListingInvariant, PTL

\* No client is sent round and round.
THEOREM CursorsAdvance == Spec => CursorAdvances
<1>1. Inv => [Fetch /\ next # None /\ ~done' /\ kind \notin Oldest /\ ~tied'
              => Further(next', next)]_vars
    BY StepAdvances
<1> QED
    BY <1>1, ListingInvariant, PTL DEF CursorAdvances
=============================================================================
