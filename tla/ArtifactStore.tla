--------------------------- MODULE ArtifactStore ---------------------------
(***************************************************************************)
(* The artifacts of one user's repositories: rows of table "artifacts" and  *)
(* objects in an S3 bucket.  A row belongs to a repository by its id, the   *)
(* object is found by names: artifacts/~user/<repository name>/<filename>.  *)
(* uploadArtifact and deleteArtifact change both inside one transaction;    *)
(* deleteRepository deletes the rows and leaves the objects to a task of    *)
(* the repos work queue, which has one worker and is shared with the        *)
(* imports of new repositories.                                             *)
(*                                                                          *)
(* Creation and renaming of repositories are one step each here: RepoStore  *)
(* has their detail.  Keys of different users never meet.                   *)
(***************************************************************************)
EXTENDS Naturals, Sequences, FiniteSets

CONSTANTS
    Repos,     \* repository ids
    Names,     \* repository names
    Files,     \* artifact filenames
    Contents,  \* what is uploaded; its SHA-256 stands for it
    Requests,  \* goroutines serving mutations
    Imports,   \* those of Repos that may be created by an import
    QueueSize, \* tasks the repos work queue holds, the one that runs among them
    Env,       \* "abort": transactions and the bucket fail; "crash": the API dies
    None       \* no name, no object

ASSUME EnvAssumption == Env \subseteq {"abort", "crash"}
ASSUME QueueAssumption == QueueSize \in Nat \ {0}
ASSUME ImportsAssumption == Imports \subseteq Repos
ASSUME NoneAssumption == None \notin Names \cup Contents \cup Repos

Keys == Names \X Files
Row == [repo : Repos, file : Files, sum : Contents]

\* A task of the queue: objects to remove, or a repository to import into.
Task == [name : Names, files : SUBSET Files, repo : {None}]
          \cup [name : {None}, files : {{}}, repo : Repos]
Removal(n, files) == [name |-> n, files |-> files, repo |-> None]
Import(r) == [name |-> None, files |-> {}, repo |-> r]

Tx == [pc   : {"idle", "upload", "inserted", "completed", "adel", "adelgone",
               "rsweep", "rqueue", "orphan", "rdel", "import"},
       repo : Repos \cup {None},
       name : Names \cup {None},  \* the repository's name when it was read
       rows : SUBSET Row,         \* rows to insert, or deleted
       found : SUBSET Files]      \* objects to be removed with the repository

Idle == [pc |-> "idle", repo |-> None, name |-> None, rows |-> {}, found |-> {}]

Importing(r) ==
    [pc |-> "import", repo |-> r, name |-> None, rows |-> {}, found |-> {}]

Damage == {"renamed", "removed", "rolled", "reused", "uncommitted", "raced",
           "lost", "unremoved"}

VARIABLES
    name,    \* committed name of each repository, None before and after
    fresh,   \* ids not yet drawn
    rows,    \* committed rows of table artifacts
    store,   \* the bucket
    queue,   \* tasks of the repos work queue, one worker
    tx,      \* the requests in flight
    torn     \* history: the ways rows and objects were let part

vars == <<name, fresh, rows, store, queue, tx, torn>>

Live(r) == name[r] # None
Key(n, row) == <<n, row.file>>
SameKey(a, b) == a.repo = b.repo /\ a.file = b.file
Queued == {queue[i] : i \in DOMAIN queue}

-----------------------------------------------------------------------------
(* What PostgreSQL makes a statement wait for.                              *)

Pending(t) == IF tx[t].pc \in {"inserted", "completed"} THEN tx[t].rows ELSE {}
Deleted(t) ==
    IF tx[t].pc \in {"adel", "adelgone", "rsweep", "rqueue", "rdel"}
    THEN tx[t].rows ELSE {}

\* Another transaction has inserted or deleted a row with this unique key.
KeyPending(t, row) ==
    \E s \in Requests \ {t} : \E o \in Pending(s) \cup Deleted(s) :
        SameKey(o, row)

\* FOR KEY SHARE on the repository: the foreign key of an inserted row.
Shares(r) == \E s \in Requests : \E o \in Pending(s) : o.repo = r
\* Another transaction has deleted an artifact of the repository.
Sweeping(t, r) ==
    \E s \in Requests \ {t} : \E o \in Deleted(s) : o.repo = r
\* FOR UPDATE on the repository: a DELETE not yet committed.
Dropping(r) ==
    \E s \in Requests : tx[s].pc \in {"rqueue", "rdel"} /\ tx[s].repo = r

RowsOf(r) == {row \in rows : row.repo = r}
Taken(row) == \E o \in rows : SameKey(o, row)

-----------------------------------------------------------------------------
Init ==
    /\ name = [r \in Repos |-> None]
    /\ fresh = Repos
    /\ rows = {}
    /\ store = [k \in Keys |-> None]
    /\ queue = <<>>
    /\ tx = [t \in Requests |-> Idle]
    /\ torn = {}

Goto(t, pc) == tx' = [tx EXCEPT ![t].pc = pc]
End(t) == tx' = [tx EXCEPT ![t] = Idle]

NameFree(n) == \A r \in Repos : name[r] # n

CreateRepository(r, n) ==
    /\ r \in fresh
    /\ NameFree(n)
    /\ name' = [name EXCEPT ![r] = n]
    /\ fresh' = fresh \ {r}
    /\ torn' = torn \cup (IF \E task \in Queued : task.name = n
                          THEN {"reused"} ELSE {})
    /\ UNCHANGED <<rows, store, queue, tx>>

\* createRepository with a cloneUrl: once it is committed, Clone waits for a
\* place in the queue.
CreateImport(t, r, n) ==
    /\ tx[t].pc = "idle"
    /\ r \in fresh \cap Imports
    /\ NameFree(n)
    /\ name' = [name EXCEPT ![r] = n]
    /\ fresh' = fresh \ {r}
    /\ tx' = [tx EXCEPT ![t] = Importing(r)]
    /\ torn' = torn \cup (IF \E task \in Queued : task.name = n
                          THEN {"reused"} ELSE {})
    /\ UNCHANGED <<rows, store, queue>>

Clone(t) ==
    /\ tx[t].pc = "import"
    /\ Len(queue) < QueueSize
    /\ queue' = Append(queue, Import(tx[t].repo))
    /\ End(t)
    /\ UNCHANGED <<name, fresh, rows, store, torn>>

\* UpdateRepository with a new name: nothing in it knows of the bucket.
RenameRepository(r, n) ==
    /\ Live(r)
    /\ NameFree(n)
    /\ ~Shares(r)
    /\ ~Dropping(r)
    /\ name' = [name EXCEPT ![r] = n]
    /\ torn' = torn
         \cup (IF \/ RowsOf(r) # {}
                  \/ \E t \in Requests : tx[t].pc = "upload" /\ tx[t].repo = r
               THEN {"renamed"} ELSE {})
         \cup (IF \E task \in Queued : task.name = n
               THEN {"reused"} ELSE {})
    /\ UNCHANGED <<fresh, rows, store, queue, tx>>

-----------------------------------------------------------------------------
(* uploadArtifact                                                           *)

\* The repository is loaded, the key made of its name and the multipart
\* upload created, outside of the transaction.
UploadBegin(t, row) ==
    /\ tx[t].pc = "idle"
    /\ Live(row.repo)
    /\ tx' = [tx EXCEPT ![t] = [pc |-> "upload", repo |-> row.repo,
                                name |-> name[row.repo], rows |-> {row},
                                found |-> {}]]
    /\ UNCHANGED <<name, fresh, rows, store, queue, torn>>

\* Mutant of UploadInsert: only committed rows are looked at.
UploadInsertNoWait(t) ==
    /\ tx[t].pc = "upload"
    /\ ~Dropping(tx[t].repo)
    /\ \A row \in tx[t].rows :
          IF Taken(row) \/ ~Live(row.repo) THEN End(t) ELSE Goto(t, "inserted")
    /\ UNCHANGED <<name, fresh, rows, store, queue, torn>>

\* Mutant of UploadInsert: no unique constraint.
UploadInsertReplaces(t) ==
    /\ tx[t].pc = "upload"
    /\ ~Dropping(tx[t].repo)
    /\ \A row \in tx[t].rows :
          /\ ~KeyPending(t, row)
          /\ IF ~Live(row.repo) THEN End(t) ELSE Goto(t, "inserted")
    /\ UNCHANGED <<name, fresh, rows, store, queue, torn>>

\* INSERT INTO artifacts: waits for the unique key and for the repository; a
\* key that is taken or a repository that is gone ends the request, and the
\* multipart upload is aborted.
UploadInsert(t) ==
    /\ tx[t].pc = "upload"
    /\ ~Dropping(tx[t].repo)
    /\ \A row \in tx[t].rows :
          /\ ~KeyPending(t, row)
          /\ IF Taken(row) \/ ~Live(row.repo)
             THEN End(t) ELSE Goto(t, "inserted")
    /\ UNCHANGED <<name, fresh, rows, store, queue, torn>>

\* CompleteMultipartUpload: the object is there from now on, whatever was.
UploadComplete(t) ==
    /\ tx[t].pc = "inserted"
    /\ \A row \in tx[t].rows :
          store' = [store EXCEPT ![Key(tx[t].name, row)] = row.sum]
    /\ Goto(t, "completed")
    /\ UNCHANGED <<name, fresh, rows, queue, torn>>

UploadCommit(t) ==
    /\ tx[t].pc = "completed"
    /\ rows' = rows \cup tx[t].rows
    /\ End(t)
    /\ UNCHANGED <<name, fresh, store, queue, torn>>

-----------------------------------------------------------------------------
(* deleteArtifact                                                           *)

\* DELETE FROM artifacts USING repository ... RETURNING repo.name
ArtifactDelete(t, row) ==
    /\ tx[t].pc = "idle"
    /\ row \in rows
    /\ \A s \in Requests : row \notin Deleted(s)
    /\ tx' = [tx EXCEPT ![t] = [pc |-> "adel", repo |-> row.repo,
                                name |-> name[row.repo], rows |-> {row},
                                found |-> {}]]
    /\ UNCHANGED <<name, fresh, rows, store, queue, torn>>

\* DeleteObject, before the transaction commits.
ArtifactRemove(t) ==
    /\ tx[t].pc = "adel"
    /\ store' = [k \in Keys |->
                    IF \E row \in tx[t].rows : k = Key(tx[t].name, row)
                    THEN None ELSE store[k]]
    /\ Goto(t, "adelgone")
    /\ UNCHANGED <<name, fresh, rows, queue, torn>>

ArtifactCommit(t) ==
    /\ tx[t].pc = "adelgone"
    /\ rows' = rows \ tx[t].rows
    /\ End(t)
    /\ UNCHANGED <<name, fresh, store, queue, torn>>

-----------------------------------------------------------------------------
(* deleteRepository                                                         *)

\* DELETE FROM artifacts WHERE repo_id: rows being inserted are not seen.
RepoSweep(t, r) ==
    /\ tx[t].pc = "idle"
    /\ Live(r)
    /\ ~Sweeping(t, r)
    /\ tx' = [tx EXCEPT ![t] = [pc |-> "rsweep", repo |-> r, name |-> None,
                                rows |-> RowsOf(r), found |-> {}]]
    /\ UNCHANGED <<name, fresh, rows, store, queue, torn>>

\* Mutant of RepoDelete: the objects are left to nobody.
RepoDeleteQuiet(t) ==
    LET r == tx[t].repo IN
    /\ tx[t].pc = "rsweep"
    /\ ~Shares(r)
    /\ ~Dropping(r)
    /\ ~Sweeping(t, r)
    /\ IF ~Live(r) THEN End(t) /\ UNCHANGED torn
       ELSE /\ tx' = [tx EXCEPT ![t].pc = "rdel", ![t].name = name[r],
                                ![t].rows = RowsOf(r)]
            /\ torn' = torn \cup
                  (IF tx[t].rows # RowsOf(r) THEN {"raced"} ELSE {})
    /\ UNCHANGED <<name, fresh, rows, store, queue>>

\* Mutant of RepoDelete: that there was nothing to delete is not noticed.
RepoDeleteUnchecked(t) ==
    LET r == tx[t].repo IN
    /\ tx[t].pc = "rsweep"
    /\ ~Shares(r)
    /\ ~Dropping(r)
    /\ tx' = [tx EXCEPT ![t].pc = "rqueue", ![t].name = name[r],
                        ![t].found = {row.file : row \in tx[t].rows}]
    /\ UNCHANGED <<name, fresh, rows, store, queue, torn>>

\* DELETE FROM repository waits for uploads that have inserted a row, which
\* then goes by ON DELETE CASCADE, and for deletions of such rows.  What is
\* removed with it are the objects found before, under the name it has now.
RepoDelete(t) ==
    LET r == tx[t].repo IN
    /\ tx[t].pc = "rsweep"
    /\ ~Shares(r)
    /\ ~Dropping(r)
    /\ ~Sweeping(t, r)
    /\ \/ ~Live(r) /\ End(t) /\ UNCHANGED torn
       \/ /\ Live(r)
          /\ tx' = [tx EXCEPT ![t].pc = IF tx[t].rows = {} THEN "rdel" ELSE "rqueue",
                              ![t].name = name[r], ![t].rows = RowsOf(r),
                              ![t].found = {row.file : row \in tx[t].rows}]
          /\ torn' = torn \cup
                (IF tx[t].rows # RowsOf(r) THEN {"raced"} ELSE {})
    /\ UNCHANGED <<name, fresh, rows, store, queue>>

\* The removal is queued before the commit, and waits for a place in the queue
\* with the repository locked.
RepoQueue(t) ==
    /\ tx[t].pc = "rqueue"
    /\ Len(queue) < QueueSize
    /\ queue' = Append(queue, Removal(tx[t].name, tx[t].found))
    /\ Goto(t, "rdel")
    /\ UNCHANGED <<name, fresh, rows, store, torn>>

\* Mutant of Expire: the deadline is looked at when there is a place.
ExpireLate(t) ==
    /\ tx[t].pc = "rqueue"
    /\ Len(queue) < QueueSize
    /\ tx' = [tx EXCEPT ![t].pc = "orphan", ![t].rows = {}]
    /\ torn' = torn \cup {"rolled"}
    /\ UNCHANGED <<name, fresh, rows, store, queue>>

\* The request's deadline, max-duration, rolls its transaction back; it goes on
\* waiting for the queue, whose Enqueue knows of none.
Expire(t) ==
    /\ tx[t].pc = "rqueue"
    /\ tx' = [tx EXCEPT ![t].pc = "orphan", ![t].rows = {}]
    /\ torn' = torn \cup {"rolled"}
    /\ UNCHANGED <<name, fresh, rows, store, queue>>

OrphanQueue(t) ==
    /\ tx[t].pc = "orphan"
    /\ Len(queue) < QueueSize
    /\ queue' = Append(queue, Removal(tx[t].name, tx[t].found))
    /\ End(t)
    /\ UNCHANGED <<name, fresh, rows, store, torn>>

\* Two deletions of one repository, one of which holds the repository and
\* waits for artifacts the other deleted: PostgreSQL aborts either.
DeadlockVictim(t) ==
    /\ tx[t].pc = "rsweep"
    /\ \E s \in Requests \ {t} :
          tx[s].pc = "rsweep" /\ tx[s].repo = tx[t].repo
    /\ End(t)
    /\ UNCHANGED <<name, fresh, rows, store, queue, torn>>

RepoCommit(t) ==
    LET r == tx[t].repo IN
    /\ tx[t].pc = "rdel"
    /\ name' = [name EXCEPT ![r] = None]
    /\ rows' = rows \ RowsOf(r)
    /\ End(t)
    /\ UNCHANGED <<fresh, store, queue, torn>>

\* DeleteArtifactsBlocking, run by the worker of the queue: it ends at the first
\* object it cannot remove, and nothing tries it again.
DeleteArtifacts ==
    LET task == Head(queue) IN
    /\ queue # <<>> /\ task.repo = None
    /\ \E gone \in SUBSET task.files :
          /\ gone = task.files \/ "abort" \in Env
          /\ store' = [k \in Keys |->
                          IF k[1] = task.name /\ k[2] \in gone
                          THEN None ELSE store[k]]
          /\ torn' = torn \cup (IF gone # task.files THEN {"unremoved"} ELSE {})
    /\ queue' = Tail(queue)
    /\ UNCHANGED <<name, fresh, rows, tx>>

\* An import ends with UPDATE repository, which waits for a deletion of it.
CloneDone ==
    /\ queue # <<>> /\ Head(queue).repo # None
    /\ ~Dropping(Head(queue).repo)
    /\ queue' = Tail(queue)
    /\ UNCHANGED <<name, fresh, rows, store, tx, torn>>

-----------------------------------------------------------------------------
(* What Env adds.                                                           *)

\* What a rollback of t where it stands leaves behind.
Harm(t) ==
    CASE tx[t].pc = "completed" -> {"uncommitted"}
      [] tx[t].pc = "adelgone" -> {"removed"}
      [] tx[t].pc = "rdel" /\ tx[t].rows # {} -> {"rolled"}
      [] OTHER -> {}

\* Who waits for the queue is in no call that could fail.
Abort(t) ==
    /\ "abort" \in Env
    /\ tx[t].pc \notin {"idle", "rqueue", "orphan", "import"}
    /\ End(t)
    /\ torn' = torn \cup Harm(t)
    /\ UNCHANGED <<name, fresh, rows, store, queue>>

\* The queue is in memory.
Crash ==
    /\ "crash" \in Env
    /\ tx' = [t \in Requests |-> Idle]
    /\ queue' = <<>>
    /\ torn' = torn \cup (UNION {Harm(t) : t \in Requests})
                    \cup (IF queue # <<>> THEN {"lost"} ELSE {})
    /\ UNCHANGED <<name, fresh, rows, store>>

-----------------------------------------------------------------------------
Step(t) ==
    \/ UploadInsert(t) \/ UploadComplete(t) \/ UploadCommit(t)
    \/ ArtifactRemove(t) \/ ArtifactCommit(t)
    \/ RepoDelete(t) \/ DeadlockVictim(t) \/ RepoQueue(t) \/ RepoCommit(t)
    \/ Expire(t) \/ OrphanQueue(t)
    \/ Clone(t)

Work == DeleteArtifacts \/ CloneDone

Next ==
    \/ \E r \in Repos, n \in Names :
          CreateRepository(r, n) \/ RenameRepository(r, n)
    \/ \E t \in Requests :
          \/ \E row \in Row : UploadBegin(t, row) \/ ArtifactDelete(t, row)
          \/ \E r \in Repos : RepoSweep(t, r)
          \/ \E r \in Repos, n \in Names : CreateImport(t, r, n)
          \/ Step(t)
          \/ Abort(t)
    \/ Work
    \/ Crash

Spec == Init /\ [][Next]_vars

\* Goroutines run until they return, their deadline passes, PostgreSQL queues
\* those that wait for a lock, the worker among them, and the worker takes the
\* next task.
FairSpec ==
    /\ Spec
    /\ \A t \in Requests : SF_vars(Step(t))
    /\ SF_vars(Work)

-----------------------------------------------------------------------------
(* Properties.                                                              *)

TypeOK ==
    /\ name \in [Repos -> Names \cup {None}]
    /\ fresh \subseteq Repos
    /\ rows \subseteq Row
    /\ store \in [Keys -> Contents \cup {None}]
    /\ queue \in Seq(Task)
    /\ tx \in [Requests -> Tx]
    /\ torn \subseteq Damage

Deleting(row) == \E t \in Requests : row \in Deleted(t)

\* The object a download of this row reads (/query/artifact in cmd/api).
Served(row) == store[Key(name[row.repo], row)]

\* Unless rows and objects were let part, a row nobody is deleting has its
\* object, with the bytes its checksum was made of: uploads of one filename,
\* deletions and the queued removals never take or replace it.
RowsHaveObjects ==
    torn \subseteq {"uncommitted", "raced", "lost", "unremoved"} =>
      \A row \in rows : ~Deleting(row) => Served(row) = row.sum

\* As long as no repository with artifacts was renamed, what is served under
\* a checksum is what has that checksum, or nothing, whatever failed.
ChecksumHolds ==
    "renamed" \notin torn =>
      \A row \in rows : Served(row) \in {row.sum, None}

\* Unless torn, every object belongs to a row, to an upload about to commit
\* or to a removal that is queued: no deleted artifact stays in the bucket.  A
\* removal that ends at an object it cannot remove is one way of being torn.
ObjectsHaveRows ==
    torn = {} =>
      \A k \in Keys : store[k] # None =>
        \/ \E row \in rows : k = Key(name[row.repo], row)
        \/ \E t \in Requests : \E row \in Pending(t) : k = Key(tx[t].name, row)
        \/ \E task \in Queued : k[1] = task.name /\ k[2] \in task.files

\* "Once this finishes we know we are the exclusive writer of this artifact":
\* two uploads past their INSERT do not write one object.  The unique key has
\* the repository's id in it, the object its name as it was read before, so it
\* is not so once a repository with an upload under way was renamed.
ExclusiveWriter ==
    "renamed" \notin torn =>
    \A s, t \in Requests : s # t =>
      \A o \in Pending(s), p \in Pending(t) :
        Key(tx[s].name, o) # Key(tx[t].name, p)

\* What a download of each artifact gets, and the artifacts being deleted, as
\* ArtifactService sees them.
Offer ==
    [a \in Repos \X Files |->
        IF \E row \in rows : row.repo = a[1] /\ row.file = a[2]
        THEN store[<<name[a[1]], a[2]>>] ELSE None]
Arts(S) == {<<row.repo, row.file>> : row \in S}
Doomed == Arts(UNION {Deleted(t) : t \in Requests})
AS == INSTANCE ArtifactService
        WITH Artifacts <- Repos \X Files, offer <- Offer, doomed <- Doomed

\* Rows and objects implement the artifact service, uploads, deletions and the
\* worker of the queue in any order, until the objects are looked for under a
\* new name, or a removal is queued under a name that is given again, or whose
\* deletion was rolled back.
Misplaced == torn \cap {"renamed", "reused", "rolled"} # {}
ImplementsOffers ==
    AS!Init /\ [][AS!Next \/ Misplaced']_<<Offer, Doomed>>

\* Every mutation ends, and the worker stops at no task that is queued: a
\* deletion that waits for a place in the queue while the worker waits for the
\* repository it has locked is ended by its deadline.
RequestsEnd ==
    /\ \A t \in Requests : tx[t].pc # "idle" ~> tx[t].pc = "idle"
    /\ []<>(queue = <<>>) \/ []<><<Work>>_vars

-----------------------------------------------------------------------------
(* The inductive invariants ArtifactStoreProofs works with.                 *)

Uploading(t) == tx[t].pc \in {"upload", "inserted", "completed"}

\* What a request has in hand, by where it stands.
RequestsShaped ==
    \A t \in Requests :
        /\ Uploading(t) =>
              /\ tx[t].repo \in Repos \ fresh
              /\ tx[t].name \in Names
              /\ \E row \in Row : tx[t].rows = {row} /\ row.repo = tx[t].repo
        /\ tx[t].pc \in {"adel", "adelgone"} =>
              \E row \in rows : tx[t].rows = {row} /\ row.repo = tx[t].repo
        /\ tx[t].pc = "rsweep" =>
              /\ tx[t].repo \in Repos
              /\ tx[t].rows \subseteq RowsOf(tx[t].repo)
        /\ tx[t].pc \in {"rqueue", "rdel"} =>
              /\ tx[t].repo \in Repos
              /\ Live(tx[t].repo)
              /\ tx[t].rows = RowsOf(tx[t].repo)
        /\ tx[t].pc = "rqueue" =>
              tx[t].name = name[tx[t].repo] /\ tx[t].rows # {}
        /\ tx[t].pc = "import" => tx[t].repo \in Repos

\* Who waits to queue a removal has found what is deleted with the repository;
\* who does so without its transaction has let it be rolled back.
WaitersShaped ==
    \A t \in Requests :
        /\ tx[t].pc = "rqueue" /\ "raced" \notin torn =>
              \A row \in tx[t].rows : row.file \in tx[t].found
        /\ tx[t].pc = "orphan" => "rolled" \in torn /\ tx[t].name \in Names

\* Names and rows are unique, and rows are those of repositories that exist.
RowsKeyed ==
    /\ \A r \in fresh : ~Live(r)
    /\ \A q, r \in Repos : Live(q) /\ name[q] = name[r] => q = r
    /\ \A row \in rows : Live(row.repo)
    /\ \A a, b \in rows : SameKey(a, b) => a = b

\* What PostgreSQL's locks and pending keys exclude.
LocksHold ==
    /\ \A t \in Requests : \A o \in Pending(t) :
          Live(o.repo) /\ ~Dropping(o.repo) /\ ~Taken(o)
    /\ \A s, t \in Requests : s # t =>
          \A o \in Pending(s), p \in Pending(t) : ~SameKey(o, p)
    /\ \A s, t \in Requests : s # t => Deleted(s) \cap Deleted(t) = {}
    /\ \A s, t \in Requests :
          /\ tx[s].pc \in {"rqueue", "rdel"} /\ tx[t].pc \in {"rqueue", "rdel"}
          /\ tx[s].repo = tx[t].repo
          => s = t

RowInv == RequestsShaped /\ RowsKeyed /\ LocksHold

\* Until a repository with artifacts is renamed requests use its name.
NamesHold ==
    "renamed" \notin torn =>
      \A t \in Requests :
        /\ Uploading(t) \/ tx[t].pc \in {"adel", "adelgone"}
        /\ Live(tx[t].repo)
        => tx[t].name = name[tx[t].repo]

CompletedHold ==
    "renamed" \notin torn =>
      \A t \in Requests : tx[t].pc = "completed" =>
        \A row \in tx[t].rows : store[Key(tx[t].name, row)] \in {row.sum, None}

SumInv == NamesHold /\ CompletedHold /\ ChecksumHolds

Removed(row) ==
    \E t \in Requests :
        tx[t].pc \in {"adelgone", "rdel"} /\ row \in tx[t].rows

RowsServed == \A row \in rows : ~Removed(row) => Served(row) = row.sum

UploadsServed ==
    \A t \in Requests : tx[t].pc = "completed" =>
      \A row \in tx[t].rows : store[Key(tx[t].name, row)] = row.sum

\* A removal is queued under a name no repository has, or one that is going.
NamesGone ==
    \A task \in Queued : \A r \in Repos : Live(r) /\ name[r] = task.name =>
      \E t \in Requests : tx[t].pc = "rdel" /\ tx[t].repo = r /\ tx[t].rows # {}

\* What ImplementsOffers needs of the queue, whatever else was let part.
QueueInv == torn \cap {"reused", "rolled"} = {} => NamesGone

ObjectInv ==
    torn \subseteq {"uncommitted", "raced", "lost", "unremoved"} =>
        RowsServed /\ UploadsServed /\ NamesGone

Awaited(k) == \E task \in Queued : k[1] = task.name /\ k[2] \in task.files

ArtifactsGone ==
    \A t \in Requests : tx[t].pc = "adelgone" =>
      \A row \in tx[t].rows : store[Key(tx[t].name, row)] = None

RemovalsQueued ==
    \A t \in Requests : tx[t].pc = "rdel" =>
      \A row \in tx[t].rows :
        Served(row) # None => Awaited(Key(name[row.repo], row))

ObjectsOwned ==
    \A k \in Keys : store[k] # None =>
      \/ \E row \in rows : k = Key(name[row.repo], row)
      \/ \E t \in Requests :
            /\ tx[t].pc = "completed"
            /\ \E row \in tx[t].rows : k = Key(tx[t].name, row)
      \/ Awaited(k)

OwnerInv == torn = {} => ArtifactsGone /\ RemovalsQueued /\ ObjectsOwned
=============================================================================
