------------------------------ MODULE Listing ------------------------------
(***************************************************************************)
(* The cursors of the GraphQL API.  A client follows one list from its      *)
(* first page to a null cursor, one request and one read-only transaction   *)
(* per page, while others insert, remove and touch what is listed.  The     *)
(* server keeps nothing between two pages but what the cursor says, and the *)
(* kinds of list differ in what it says and in how the next page starts.    *)
(*                                                                          *)
(* An entry is the number that orders the list: the id of a row, the place  *)
(* of a name among the names, the place of a commit by committer time.      *)
(***************************************************************************)
EXTENDS Naturals, FiniteSets

CONSTANTS
    Kinds,     \* the lists followed
    Entries,   \* what a list may hold, as numbers
    Stamps,    \* values of repository.updated
    Count,     \* entries of a page (Cursor.Count)
    Changes,   \* bound: changes of the list while it is followed
    Ancestors, \* for each commit, itself and the commits it is made from
    None

Newest == {"acls", "artifacts", "user deliveries", "git deliveries"}
Oldest == {"keys", "user subscriptions", "git subscriptions"}
ByName == {"references", "entries"}
ByStamp == {"repositories", "own repositories"}

ASSUME KindsAssumption ==
    Kinds \subseteq Newest \cup Oldest \cup ByName \cup ByStamp \cup {"log"}
ASSUME NumbersAssumption ==
    /\ Entries \subseteq Nat /\ IsFiniteSet(Entries)
    /\ Stamps \subseteq Nat /\ Stamps # {}
    /\ Count \in Nat \ {0} /\ Changes \in Nat
    /\ None \notin Nat
\* Commits are dated after those they are made from, and are made from what
\* those are made from.
ASSUME HistoryAssumption ==
    /\ Ancestors \in [Entries -> SUBSET Entries]
    /\ \A c \in Entries :
          /\ c \in Ancestors[c]
          /\ \A d \in Ancestors[c] : d <= c /\ Ancestors[d] \subseteq Ancestors[c]

VARIABLES
    kind,   \* the list that is followed
    rows,   \* the entries the resolver's query selects
    used,   \* ids given out so far, committed or not
    stamp,  \* repository.updated of each row
    changes, \* how often the list was changed
    next,   \* the cursor: where the next page starts, None before the first
    done,   \* whether the client was handed a null cursor
    seen,   \* history: the entries of the pages so far
    twice,  \* history: those that were on more than one page
    kept,   \* history: entries there, and not touched, since the first page
    tied    \* history: whether a page ended between two equal stamps

\* The stamp of no row.
NoStamp == CHOOSE s \in Stamps : TRUE

table == <<rows, used, stamp, changes>>
history == <<seen, twice, kept, tied>>
vars == <<kind, table, next, done, history>>

-----------------------------------------------------------------------------
(* What is listed, while it is listed; nobody looks after the last page.    *)

\* A commit's history and a tree's entries never change.
Change ==
    /\ kind \notin {"log", "entries"} /\ ~done
    /\ changes < Changes
    /\ changes' = changes + 1

\* Sequences hand out ids in order; the rows are committed in any order.
Insert(e) ==
    /\ Change
    /\ e \notin rows
    /\ kind \notin ByName => e \notin used
    /\ rows' = rows \cup {e}
    /\ used' = used \cup {e}
    /\ \E s \in Stamps :
          /\ kind \notin ByStamp => s = NoStamp
          /\ stamp' = [stamp EXCEPT ![e] = s]
    /\ UNCHANGED <<kind, next, done, history>>

Remove(e) ==
    /\ Change
    /\ e \in rows
    /\ rows' = rows \ {e}
    /\ kept' = kept \ {e}
    /\ stamp' = [stamp EXCEPT ![e] = NoStamp]
    /\ UNCHANGED <<kind, used, next, done, seen, twice, tied>>

\* updateRepository sets updated to NOW(), the start of its transaction.
Touch(e) ==
    /\ Change
    /\ kind \in ByStamp
    /\ e \in rows
    /\ \E s \in Stamps : stamp' = [stamp EXCEPT ![e] = s]
    /\ kept' = kept \ {e}
    /\ UNCHANGED <<kind, rows, used, next, done, seen, twice, tied>>

-----------------------------------------------------------------------------
(* Pages.  Each query asks for one entry more than a page has; the last     *)
(* one, l, is left for the next page and becomes the cursor.                *)

TurnPage(page, cursor) ==
    /\ next' = cursor
    /\ done' = (cursor = None)
    /\ seen' = seen \cup page
    /\ twice' = twice \cup (seen \cap page)
    /\ UNCHANGED <<kind, table, kept>>

\* Everything that is left fits on the page.
LastPage(C) ==
    /\ Cardinality(C) <= Count
    /\ TurnPage(C, None)
    /\ UNCHANGED tied

\* Mutant of ACLPage: the next page starts behind the cursor.
ACLPageBehind ==
    LET C == {e \in rows : next = None \/ e < next}
    IN  \/ LastPage(C)
        \/ \E l \in C :
              /\ Cardinality({e \in C : e > l}) = Count
              /\ TurnPage({e \in C : e > l}, l)
              /\ UNCHANGED tied

\* Mutant of ACLPage: the cursor is the last entry shown, as it would be with
\* one row fewer in the query.
ACLPageLastShown ==
    LET C == {e \in rows : next = None \/ e <= next}
    IN  \/ LastPage(C)
        \/ \E l \in C :
              /\ Cardinality({e \in C : e >= l}) = Count
              /\ TurnPage({e \in C : e >= l}, l)
              /\ UNCHANGED tied

\* ORDER BY id DESC, going on with id <= the cursor.
ACLPage ==
    LET C == {e \in rows : next = None \/ e <= next}
    IN  \/ LastPage(C)
        \/ \E l \in C :
              /\ Cardinality({e \in C : e > l}) = Count
              /\ TurnPage({e \in C : e > l}, l)
              /\ UNCHANGED tied

ArtifactPage == ACLPage
DeliveryPage == ACLPage

\* ORDER BY id, going on with id <= the cursor all the same.
KeyPage ==
    LET C == {e \in rows : next = None \/ e <= next}
    IN  \/ LastPage(C)
        \/ \E l \in C :
              /\ Cardinality({e \in C : e < l}) = Count
              /\ TurnPage({e \in C : e < l}, l)
              /\ UNCHANGED tied

UserSubscriptionPage == KeyPage
GitSubscriptionPage == KeyPage

\* Mutant of RepositoryPage: the cursor is the id of the row, as it is in the
\* other lists of rows.
RepositoryPageById ==
    LET C == {e \in rows : next = None \/ stamp[e] <= next}
    IN  \/ LastPage(C)
        \/ \E l \in C : \E page \in SUBSET (C \ {l}) :
              /\ Cardinality(page) = Count
              /\ \A e \in page : stamp[e] >= stamp[l]
              /\ \A e \in C \ page : stamp[e] <= stamp[l]
              /\ TurnPage(page, l)
              /\ tied' = (tied \/ \E e \in page : stamp[e] = stamp[l])

\* ORDER BY updated DESC, going on with updated <= the cursor; PostgreSQL
\* returns rows with one timestamp in any order.
RepositoryPage ==
    LET C == {e \in rows : next = None \/ stamp[e] <= next}
    IN  \/ LastPage(C)
        \/ \E l \in C : \E page \in SUBSET (C \ {l}) :
              /\ Cardinality(page) = Count
              /\ \A e \in page : stamp[e] >= stamp[l]
              /\ \A e \in C \ page : stamp[e] <= stamp[l]
              /\ TurnPage(page, stamp[l])
              /\ tied' = (tied \/ \E e \in page : stamp[e] = stamp[l])

\* Sorted by name; sort.Search finds the first name after the cursor and the
\* page starts with the one behind it.
NamePage ==
    LET after == {e \in rows : next = None \/ e > next}
        C == {e \in after : next = None \/ \E d \in after : d < e}
    IN  \/ LastPage(C)
        \/ \E l \in C :
              /\ Cardinality({e \in C : e < l}) = Count
              /\ TurnPage({e \in C : e < l}, l)
              /\ UNCHANGED tied

\* Mutant of LogPage: the cursor is the first commit of the page.
LogPageFirst ==
    LET C == IF next = None THEN rows ELSE Ancestors[next]
    IN  \/ LastPage(C)
        \/ \E l, m \in C :
              /\ Cardinality({e \in C : e > l}) = Count
              /\ \A e \in C : e <= m
              /\ TurnPage({e \in C : e > l}, m)
              /\ UNCHANGED tied

\* The newest of what the cursor's commit is made from, or what HEAD is.
LogPage ==
    LET C == IF next = None THEN rows ELSE Ancestors[next]
    IN  \/ LastPage(C)
        \/ \E l \in C :
              /\ Cardinality({e \in C : e > l}) = Count
              /\ TurnPage({e \in C : e > l}, l)
              /\ UNCHANGED tied

-----------------------------------------------------------------------------
(* The resolvers, each with the page of what it lists.                      *)

Acls == kind = "acls" /\ ACLPage
Artifacts == kind = "artifacts" /\ ArtifactPage
UserDeliveries == kind = "user deliveries" /\ DeliveryPage
GitDeliveries == kind = "git deliveries" /\ DeliveryPage
DeployKeys == kind = "keys" /\ KeyPage
UserWebhooks == kind = "user subscriptions" /\ UserSubscriptionPage
GitWebhooks == kind = "git subscriptions" /\ GitSubscriptionPage
OwnRepositories == kind = "own repositories" /\ RepositoryPage
Repositories == kind = "repositories" /\ RepositoryPage
References == kind = "references" /\ NamePage
TreeEntries == kind = "entries" /\ NamePage
Log == kind = "log" /\ LogPage

Fetch ==
    /\ ~done
    /\ \/ Acls \/ Artifacts \/ UserDeliveries \/ GitDeliveries \/ DeployKeys
       \/ UserWebhooks \/ GitWebhooks \/ OwnRepositories \/ Repositories
       \/ References \/ TreeEntries \/ Log

Init ==
    /\ kind \in Kinds
    /\ rows \in (IF kind = "log" THEN {Ancestors[c] : c \in Entries}
                                 ELSE SUBSET Entries)
    /\ used = rows
    /\ stamp \in [Entries -> Stamps]
    /\ \A e \in Entries :
          (kind \in ByStamp /\ e \in rows) \/ stamp[e] = NoStamp
    /\ changes = 0
    /\ next = None
    /\ done = FALSE
    /\ seen = {}
    /\ twice = {}
    /\ kept = rows
    /\ tied = FALSE

Next ==
    \/ Fetch
    \/ \E e \in Entries : Insert(e) \/ Remove(e) \/ Touch(e)

Spec == Init /\ [][Next]_vars

-----------------------------------------------------------------------------
(* Properties.                                                              *)

\* The types, and what a cursor is: a timestamp where the list is ordered by
\* one, an entry of the list everywhere else.
TypeOK ==
    /\ kind \in Kinds
    /\ rows \subseteq Entries
    /\ used \subseteq Entries
    /\ stamp \in [Entries -> Stamps]
    /\ changes \in 0 .. Changes
    /\ next \in (IF kind \in ByStamp THEN Stamps ELSE Entries) \cup {None}
    /\ done \in BOOLEAN
    /\ seen \subseteq Entries
    /\ twice \subseteq seen
    /\ kept \subseteq rows
    /\ tied \in BOOLEAN

\* No merge among the commits listed: each is made from all the older ones.
Linear == \A d, e \in rows : d <= e => d \in Ancestors[e]

\* A client that has followed the cursors to the end has seen every entry that
\* was there from its first request on, whatever was inserted, removed or
\* touched meanwhile.  So it is for ACLs, artifacts, deliveries, repositories
\* and a log without merges (model/acl.go 60-102 and its copies, Log).
EveryEntrySeen ==
    /\ done
    /\ kind \in Newest \cup ByStamp \cup {"log"}
    /\ kind = "log" => Linear
    => kept \subseteq seen

\* No entry comes twice, except a key or subscription, one that was touched in
\* between, or a repository whose timestamp is that of another one across the
\* end of a page.
NoEntryTwice ==
    kind \notin Oldest /\ ~tied => twice \cap kept = {}

Further(n, m) == IF kind \in ByName THEN n > m ELSE n < m

\* Each page moves the cursor on, so that a client is not sent round and round
\* with it: keys and subscriptions excepted, and equal timestamps.
CursorAdvances ==
    [][Fetch /\ next # None /\ ~done' /\ kind \notin Oldest /\ ~tied'
       => Further(next', next)]_vars

\* What api/graph/schema.graphqls says of every cursor: "If there are additional
\* results available, the cursor object may be passed back into the same
\* endpoint to retrieve another page.  If the cursor is null, there are no
\* remaining results to return."
NothingRemains == done => kept \subseteq seen
=============================================================================
