# git.sr.ht in TLA+

git.sr.ht hosts git repositories.  Everything it knows is spread over four
stores that share no transaction: PostgreSQL rows, directories below the
repository root, objects in an S3 bucket, and keys in redis.  Its GraphQL API,
its SSH shell, its git hooks and its work queues change two of them at a time,
concurrently, and may fail between one and the other.  These modules say what
the stores promise each other, under which interleavings and failures the code
keeps that promise, and name every way in which it does not.

Paths below are relative to the repository's root; `G` stands for
`api/graph/schema.resolvers.go`.

## 1. The system

### Components, their state and their operations

| Component | State | Operations | Code | Modules |
|---|---|---|---|---|
| Repository mutations | tables `repository`, `redirect`; one directory per repository | createRepository, updateRepository, deleteRepository | `G` 224–643, `schema.sql` | RepoStore, NameService |
| Artifacts | table `artifacts`; S3 objects; the repos work queue | uploadArtifact, deleteArtifact, the removal queued by deleteRepository, download | `G` 818–1001, `api/repos/middleware.go` 89–133, `cmd/api/main.go` 151–221 | ArtifactStore, ArtifactService; Listing (its pages) |
| SSH shell and HTTP clone | the push context, handed to git and its hooks in the environment | lookup, redirect, autocreation, access decision, deploy keys, exec of git | `cmd/shell/main.go`, `cmd/http-clone/main.go` | Access (every lookup and decision), Push (what a push carries on) |
| Push hooks | redis keys of a push; refs and HEAD of a repository; builds at builds.sr.ht | pre-receive, update, post-receive, post-update | `update-hook/`, `cmd/update-hook/main.go` | Push |
| Access control | tables `access` and `sshkey`, visibility | updateACL, deleteACL, createDeployKey, deleteDeployKey, and the decision itself, made in five places | `G` 645–815, 1275, 1664, 2103; `gitsrht/access.py`; `cmd/shell/main.go` 356–388; `api/loaders/middleware.go` | Access |
| Background tasks | queues repos and account, in memory | clone of an import, account deletion | `api/repos/middleware.go` 21–86, `api/account/middleware.go` | Tasks |
| Search index | shards of a Zoekt index, one set per repository | index, purge, both queued | `api/search/` | Tasks |
| Webhooks | subscriptions and deliveries | what a git event does to the index; the pages of both tables | `G` 1004–1220, `api/graph/model/webhooks.go` | Tasks, Listing; delivery is core-go's |
| Pagination and loaders | none: cursors travel with the client | the twelve lists of the API; the loaders of repositories | `G` 1563–2053, `api/graph/model/*.go`, `api/loaders/middleware.go` | Listing, Access |
| Patchset session | the web session of the send-email pages | the steps of preparing a patchset | `gitsrht/blueprints/email.py` | not modelled |
| Web pages, object model, start-up | none | rendering and field mapping | `gitsrht/`, `api/graph/model/` | not modelled |

### How they interact

```
   browser / API client            git client over ssh
        |  GraphQL                      |
        v                               v
  +-----------+   createRepository  +---------+  exec   +------------------+
  |    API    |<--------------------|  shell  |-------->| git-receive-pack |
  |           |<--+                 +---------+ context |  and the hooks   |
  +-----------+   | updateRepository,                   +------------------+
    |  |    |     | deliverGitHook                        |     |      |
    |  |    |     +---------------------------------------+   redis  builds
    |  |    +--> repos queue --> worker --> S3              refs, HEAD
    |  +-------> directories <-------------------------------+
    +----------> PostgreSQL  <-- lookups of the shell
```

 - API and disk.  Every repository mutation opens a transaction and, inside it,
   creates, renames or removes a directory.  A rollback undoes the rows only;
   the code has a deferred function for each operation that is to undo the
   directory half.
 - API and bucket.  An upload inserts its row, completes the object, commits.
   The deletion of a repository deletes rows and leaves the objects to a task.
   Rows know the repository by id, objects are found by names.
 - Shell, hooks and API.  The shell looks the repository up once and hands what
   it learnt (id, path, visibility) to hooks that run seconds later, each in a
   process of its own.  They pass options and update keys to each other through
   redis with an expiry of ten minutes, call the API by repository id and open
   the directory by path.

### What is hard

 - *Interleaving.*  PostgreSQL serialises what touches one row or one unique key
   and nothing else.  Statements read snapshots taken before they waited for a
   lock; directory and object operations take no lock at all.
 - *Partial failure.*  A transaction fails after a directory was moved or an
   object removed; an API call of a hook fails after some builds are submitted.
 - *Crash.*  Removals, imports, index updates and account deletions run in
   goroutines and in-memory queues.
 - *Stale values.*  Paths and names are read, then used to find a directory or an
   object after another request gave them to another repository.
 - *Timeouts.*  Redis keys of a slow push are gone when its last hook runs.
 - *Ordering.*  A task is queued after its request has committed: two requests
   commit in one order and queue in the other, and a task runs when the repository
   it was given is somewhere else, or gone.
 - *Pages.*  A list is read page by page while it changes, each list with a cursor
   of its own.
 - *One rule, five times.*  Who may do what is written out in two languages and
   five queries.
 - *Deadlock.*  A rename takes a shared lock on a row by a foreign key before it
   needs an exclusive one on the same row.

`PROJECT.json` lists each hazard at its line with the properties that cover it.

### What makes each component correct

 - Repositories: names are unique; a name, once given, leads to its repository
   until that is deleted or the name is given again; each row has its directory,
   each directory its row; what git-daemon may serve is what is not private; a
   mutation always ends.
 - Artifacts: a row has its object, with the bytes of its checksum; an object has
   its row; a removal that is queued is made.
 - Pushes: refs go to the repository the push was authorised for; each pushed
   commit is built, within the limit, as visibly as its repository; HEAD names a
   branch when there is one.
 - Access: the shell, the web pages, the loaders, the resolvers and the lists
   decide alike; a caller whose path leads to a repository of theirs is not told
   that there is none.
 - Tasks: every import ends with a status and brings its own contents; a deleted
   account leaves no directories; the index has the repositories that exist, as
   they are.
 - Pagination: following the cursors to null gives every entry once.

## 2. The modules

### RepoStore: rows and directories

One member of `Requests` is a goroutine of the API serving a mutation.  `tx[t]`
is its transaction: where it stands (`pc`), the repository (`id`), the old path
it read (`from`), the path and visibility of the row it is writing (`to`, `vis`).
What it has written is visible to others only after its commit action; what
PostgreSQL makes others wait for is not stored but derived from `pc`
(`KeyShares`, `NoKeyUpdates`, `ForUpdates`, `Claims`).

| Variable | In the code |
|---|---|
| `repo`, `redirect`, `used` | committed rows of `repository` and `redirect`, the sequence of ids |
| `disk` | directories: whose objects, `git-daemon-export-ok`, whether HEAD is there |
| `reapers` | `go os.RemoveAll(path)` not yet run |
| `tx` | the requests |
| `held`, `torn` | history only: paths each live repository was committed under; which kinds of damage a step did |

| Actions | Code |
|---|---|
| CreateInsert, CreateExists, CreateInit, CreateRefused, CreateUndo, CreateCommit | createRepository: INSERT, `git.PlainInit` and configuration, its deferred `os.RemoveAll`, COMMIT |
| RenameRead, RenameLock, RenameFails, RenameMove, UpdateRow, UpdateTaken, DeadlockVictim | updateRepository with a name: the redirect's INSERT … SELECT (snapshot first, foreign key lock afterwards), `os.Rename`, UPDATE |
| Touch, SyncRefused, SyncExport, UpdateCommit | updateRepository with or without a name: UPDATE, HEAD, export file, COMMIT |
| DeleteRow, DeleteCommit, Reap | deleteRepository: DELETE, the goroutine it starts before COMMIT, COMMIT |
| Abort, Crash, RemoveHalf | what `Env` allows: a failing transaction, a dying process, a RemoveAll seen half done |

`torn` names seven kinds of damage: `stranded` (a moved directory is not moved
back), `removed` (a directory is removed although its row stays), `stale` (a
rename worked on a path its repository no longer had), `foreign` (and moved
another repository's directory), `overlap` (a creation into a directory being
removed), `litter` (a crash leaves a directory), `unsynced` (an export file
changed and the row not).  The safety properties have the form "unless one of
these happened": each says which kinds excuse it, so that a run that holds says
that no *other* interleaving or failure does damage.

### NameService: what the names promise

`cur` gives each repository its name, `alias` the older names.  `Register`,
`Rename` and `Forget` are its only steps and `KeepsLeading` what no step may break.
`RepoStore` implements it with `cur` the path of each row and `alias` the
redirects (`ImplementsNames`, `LinksKept`).  Access is built on it: its names
change by these steps.

### ArtifactStore: rows and objects

Rows of `artifacts`, objects keyed by repository name and filename, the repos
queue with its one worker.  UploadBegin / Insert / Complete / Commit and
ArtifactDelete / Remove / Commit are the statements and S3 calls of the two
mutations; RepoSweep / RepoDelete / RepoCommit the artifact side of
deleteRepository, and between the two RepoQueue, which waits for a place in the
queue with the repository's row locked.  CreateImport and Clone are the imports
that share the queue.  DeleteArtifacts and CloneDone are the worker: a removal may
end at any object the bucket does not delete (`"abort"` in `Env`), and an import
ends with an UPDATE that waits for a deletion of its repository.  Such a deletion
and the worker wait for each other when the queue is full; the request's deadline
(Expire, `max-duration` of `config.example.ini`) rolls the deletion back, and the
goroutine, which Enqueue tells nothing of it, queues the removal all the same
(OrphanQueue).  Creation and renaming of a repository are one step each, since
RepoStore has their detail.  `torn` names
`renamed` (the objects stay under the old name, where downloads no longer look),
`removed` and `rolled` (an object is removed and the transaction rolled back),
`reused` (a name is given again while a removal under it is queued),
`uncommitted` (an object without its row), `raced` (an upload loses its row to
the deletion of its repository), `lost` (the queue is in memory) and `unremoved`
(the worker gives up a removal at an object it cannot delete).

### ArtifactService: what the artifacts promise

`offer` gives each artifact (a repository and a filename) what a download of it
gets, `doomed` the artifacts that requests have deleted and not committed.
`Publish`, `Ask`, `Withdraw`, `Delete` and `Spare` are its only steps: a content
comes under a free name, and goes only after a deletion was asked for.
`KeepsOffering` is what every step keeps: an offer stays as it is, or its deletion
was asked for and it goes.  ArtifactStore implements it with `offer` the object
at the key each row now has and `doomed` the rows deleted in open transactions
(`ImplementsOffers`), until an object is looked for under a new name (`renamed`),
or removed under a name that is given again (`reused`) or whose deletion was
rolled back (`rolled`).  The other five kinds of damage do not excuse it: an
upload that fails after its object is complete offers nothing, and one whose row
is swept away takes back what was being deleted anyway.

### Push: the shell, the hooks and git

A push goes through Lookup, LookupRedirect, Autocreate and Exec in the shell,
PreReceive, UpdateRef for each ref (the hook and git's compare-and-swap), Updated,
PostReceive, PostUpdate (options, updateRepository), BuildRef for each ref, then
HeadCheck and HeadSet.  `push[p].repo` and `.path` are the context the shell
fixed, `push[p].dir` the directory git has open, and they may be three different
repositories by the time the last hook runs.  The owner's other requests
(Create, Rename, Delete, SetVisibility) and Expire happen at any time.  A call of
the API may fail before or after it had its effect, and SubmitBuild at any manifest,
with as many submitted as came before it.  `Rules` has what each manifest says of
being submitted (`Allowed`).  `torn` keeps per push what its hooks missed.

### Access: the rules and the callers

`ShellAccess`, `GetAccess`, `Visible` with the loaders, `Repository` and `ModeOf`,
and `Listed` are the five places where the code decides, each translated for
itself; `Rights` is the rule they stand for.  Names change as NameService says
(`cur`, `alias`), and so do visibilities, ACL rows (`grant`) and deploy keys
(`key`).  A caller is a connection or a request: a shell with a user's key
(ShellLookup, ShellRedirect, Autocreate), one with a deploy key (KeyLookup), a
web page (WebLookup, WebAccess, WebRedirect), user.repository of the API (ApiLookup,
ApiRedirect) or an HTTP clone, whose two root fields are resolved side by side
(RepositoryByDiskPath, RedirectByDiskPath, RedirectRepository, HttpAnswer).  Every
lookup is a query of its own, others change the tables in between, and any of them
may fail (QueryFails): the shell then goes on to look for a redirect, a deploy key
is told that there is no repository, and the others that there was an error.
`steady[s]` is history: the repository the caller's path led to alone, and that
the caller might use, from the request until now.  Three callers lose it though
nothing was taken from them, because the code does not serve them: an HTTP clone
when a rename falls between its two reads; a guest whose page read the repository as
PRIVATE and whose ACL is removed before the page reads it, though the repository is
public by then (`Opening`); and a shell or a deploy key whose query failed.

### Listing: pages and cursors

One client follows one list.  `kind` says which of the twelve: five go on with
`id <= cursor` in descending order (`Newest`), three with the same condition in
ascending order (`Oldest`), two by name (`ByName`), two by timestamp (`ByStamp`),
and the log by commit.  Insert, Remove and Touch are what others do between two
pages; a page is one query for `Count + 1` rows whose last becomes the cursor.
`kept` is history: what was there, and untouched, since the first page; `seen` and
`twice` what the pages had; `tied` whether a page ended between two equal
timestamps.

### Tasks: the queues

`due` holds the calls that committed requests are about to make, in the order of
their commits; Clone, Index and Delete queue any of them.  Index drops the task
when the queue is full, the others wait.  Each task carries the row as its request saw
it.  CloneAsk, CloneFetch, CloneHead and CloneDone are the import's git commands,
each in the directory at the path the task has; IndexRun and PurgeRun the search
worker; AccountFiles and AccountRows the two halves of an account's deletion.  The
mutations, whose detail RepoStore has, are one step each, and Strand is what is left
of one that fails half way; a directory is `[repo, got]`: whose it is and what an
import brought.  The queue of the imports also has the removals of artifacts, which
DeleteArtifacts queues before a deletion commits and ObjectsGo works off (what they
remove is ArtifactStore's).  Crash empties the queues.

A task that fails is not tried again.  An import's last UPDATE may fail (ClonePanics),
the index may be kept as it was by a refresh or a removal (`IndexKept`), the artifacts
of a leaving user may not be listed (AccountFails), `os.RemoveAll` may leave some of
the user's directories, whole or in part (AccountFiles), and the DELETE of the user
may fail with the files gone (AccountRowsFail).

The history says what the properties except: `off` (the index was not told: dropped,
overtaken, lost, failed, stranded, or the account went), `lost` (an import or an
account's deletion that ended in a crash or at a failing statement), `moved` (a path
a task was given is not what it was), `late` (a repository created while its owner was
being deleted), `littered` (a user whose directories were not all removed) and
`stranded` (a repository whose directory a failed mutation took away).

## 3. What the runs show

Names, ids, requests, pushes and repositories are symmetric; symmetry is used in
safety runs only.  Deadlock is not checked: ids, and pushes, are finite, so every
model ends where they are used up.

| Run | Question | Bounds | Answer |
|---|---|---|---|
| repositories | Do concurrent mutations keep names unique, names leading where they led, redirects truthful, and implement NameService? | 1 owner, 3 names, 2 ids, 2 requests, no faults | yes; a name is lost only by a rename that was `stale` |
| repositories_faults | Do rows and directories stay together when transactions fail, the process dies and RemoveAll is slow? | 2 names, 2 ids, 2 requests, all of `Env`, at most `DamageBound` kinds of damage | only the seven kinds of damage part them |
| repositories_progress | Does every mutation end? | 2 requests, fair | yes, the lock cycle of two renames included |
| artifacts | Do rows and objects stay together, and does a download get what was offered? | 2 repositories, 2 names, 1 file, 2 contents, queue of 2, faults | only the eight kinds of damage part them; a wrong content is served only after a rename; they implement ArtifactService until `renamed`, `reused` or `rolled` |
| artifacts_progress | Does every mutation and queued task end, a full queue included? | 2 repositories with an artifact each or one imported, 2 requests, queue of 1, fair | yes; a deletion that waits for the queue while the worker waits for its row ends by its deadline |
| push_builds | What does one push build, how much and how visibly? | a branch and a tag, 3 commits with 1, 3 and 2 manifests, of which one is disabled and one limited to tags, `Limit` 2, every option, faults | at most `Limit` a ref, less than twice that in all, every pushed commit, with the repository's visibility |
| push_races | Where do the refs of two pushes go, and where does HEAD end? | 2 repositories and names, 2 branches, renames, deletions, failing calls | to the repository authorised, unless it moved; HEAD at a branch, unless a last hook was cut off or late |
| moved_back | Is a directory moved back when the update fails after the move? (`G`:410) | 1 request, no faults | no |
| access | Do the five rules agree, and is a caller on a steady path answered? | every kind of caller, one at a time; 1 owner, 1 guest, 2 names, 2 repositories, 1 deploy key, 3 visibilities | yes; the exceptions are a rename between the two reads of an HTTP clone, an ACL removed between those of a web page, and a query of the shell that fails |
| listing | What does a client see that follows a list to its end? | all twelve lists, 5 entries, pages of 2, 2 changes, 2 timestamps, a log with a merge | everything that stayed, once, on the lists `EveryEntrySeen` and `NoEntryTwice` name; keys and subscriptions start again at the first page, names lose two at every boundary, a merge hides its other side |
| tasks | What do imports, the index and account deletion leave behind? | 1 user, 2 names, 2 repositories, queues of 1, 2 requests on the way, 2 changes, failures or restarts; fair | every import ends unless it was `lost`, and brings what it was to bring unless `moved`; the index tells the truth but for `off`; a deleted user leaves no directory but for `late` and `littered`; a row has its directory unless `stranded`, or its owner is leaving or `lost` |
| pages_lose | Is nothing left when the cursor is null? (`api/graph/schema.graphqls`:468) | references, 5 names, pages of 2 | no |

`moved_back` and `pages_lose` must find a counterexample; "Findings" tells them.

### Why the bounds are enough

 - *Two requests.*  Every hazard listed is a race of two requests, or of one
   request and a goroutine or worker started by an earlier one.  Three requests
   on one row add queueing, which `CanForUpdate` and its siblings treat alike.
   The theorems below hold for any number.
 - *Two ids, three names.*  A stale redirect needs two repositories and a name
   that changes hands twice; with three names it still has one to go to.
 - *One owner.*  Paths of different owners never meet (`Paths` is a product) and
   no mutation changes an owner; `RedirectsTruthful` over many owners is proved.
 - *`Env`.*  Faults are split off: `repositories` shows what concurrency alone
   does, `repositories_faults` adds the rest.  `DamageBound` cuts a behaviour
   after that many kinds of damage: a property is excused by a kind from then on.
 - *`MaxReapers` 1.*  Two pending removals of one path need a repository deleted,
   its name given again and that one deleted too; what the second finds is what
   the first found.
 - *`Limit` 2 and 1 for the code's 4.*  What matters is a commit with more
   manifests than the limit, one with as many, and one with fewer.
 - *`QueueSize`, `Room`.*  The code's queues are sized by the configuration; 1 and 2
   make these fill up: in `artifacts_progress` the removals of two repositories, or
   one and an import, contend for one place.  `MaxDue` 2 lets two requests queue in the wrong order.
 - *One caller.*  Callers do not see each other but through the tables, and a shell
   that creates a repository does so by the mutation others use.  The theorems hold
   for any number of callers.
 - *Five entries, pages of two.*  Three pages: a first, one between two cursors, and
   a last.  Two changes put an insertion and a removal in one walk.  The theorems
   hold for any number of entries, changes and any page size.
 - *`Changes` 2 in Tasks.*  It counts updates, deletions, pushes, restarts and
   failures.  With the creations, which only the ids bound: an import whose
   repository is renamed and whose path is taken; a change and a restart; a refresh
   and a removal that overtake each other; a rename whose refresh fails; an account
   whose deletion fails at either half.  A failure counts so that a run does not
   consist of failures; the theorems hold for any number.

### Fairness

`repositories_progress` and `artifacts_progress` assume strong fairness of each
request's own steps: a goroutine is scheduled until it returns, and PostgreSQL
keeps a queue per row and key, so that a request that waits is not passed over
for ever.  Weak fairness would not do, since a waiting statement is enabled and
disabled again by others.  So it is of the worker's `Work` in ArtifactStore, whose
import waits for a row lock that one deletion after another may take.  A deadline
passes, so Expire is among a request's steps.  Reapers need only weak fairness:
what they wait for cannot be taken from them.  New requests are never forced.
`RequestsEnd` of ArtifactStore says of the worker that it empties the queue again
and again or works again and again, since new tasks may keep coming.

`tasks` assumes weak fairness: of `Enqueue`, since a request that committed runs
on to its call, and of each queue's one worker (core-go starts one goroutine per
queue), which nothing disables but its own work or a crash.  Users, failures and
crashes are not forced, and a failing step still takes its task off the queue.  The git commands of an import end: the task has a context of 30
minutes, after which they fail, and a fetch may fail in the model at any time.

## 4. Findings

 1. *The directory is not moved back* (`G`:422).  `origPath` and `repoPath` of the
    deferred function are shadowed inside the transaction's closure (`G`:452, 477)
    and empty outside.  An update with a new name and a HEAD that names no branch
    moves the directory and leaves it there.
 2. *Pages lose names* (`G`:1814, and 2031 for tree entries).  The cursor is the
    first name not shown; the next page looks for the first name after it and then
    starts one behind that.  Two names are lost at every page boundary.

Three more disagreements are stated in the properties as what they except, and the
comment at each says how it comes about: a redirect is lost by a rename that read
its old path before it waited for another rename's lock (`NamesKept`, `G`:453);
two uploads write one object once a repository with an upload under way was
renamed, for the row is unique by repository id and the object by repository name
(`ExclusiveWriter`, `G`:845); HEAD ends at a deleted branch when a last hook sets a
branch it chose before another push deleted it (`HeadResolves`,
`update-hook/post-update.go`:262).

The histories name further damage that no comment of the repository denies:
renaming a repository leaves all its artifacts behind; removal is started before
the COMMIT it belongs to, and given up at the first object that cannot be deleted;
keys and subscriptions cannot be paged; an import goes into whatever repository is at
its path; an index task that was overtaken brings a deleted repository back to the
index, and one that failed leaves the old name and visibility there; an account whose
files could not all be removed is deleted all the same, and one whose row could not
be deleted is left without files.

## 5. What is proved

Every safety property, action property and refinement that a passing run checks is
stated by a theorem, for all values of the constants that the modules' assumptions
admit.  The runs came first: each invariant below, the inductive ones included,
was checked with TLC before it was proved.

### Repositories

`RepoStoreProofs` and `RepoDiskProofs` hold for any sets of owners, names, ids
and requests, every `Env` and every `MaxReapers`, from `EnvAssumption`,
`VisibilityAssumption`, `BoundAssumption` and `NoneAssumption` of RepoStore only:

| Theorem | States | Rests on |
|---|---|---|
| TypeCorrect | `Spec => []TypeOK` | one lemma per action |
| KeysStayUnique | `[]KeysUnique` | `KeyInv` |
| NamesAreKept | `[]NamesKept` | `NameInv`, `KeyInv` |
| RedirectsStayTruthful | `[]RedirectsTruthful` | `NameInv`, `KeyInv` |
| NamesImplemented | `ImplementsNames`: RepoStore implements NameService | both |
| LinksAreKept | `LinksKept` | the refinement |
| DirectoriesStayOne | `[]OneDirectory` | `DirInv` |
| DirectoriesStayWithRows | `[]RowsHaveDirectories` | `HomeInv` and all of the above |
| NoNameIsBlocked | `[]DirectoriesHaveRows` | `RowInv`, `HomeInv`, `DirInv`, `KeyInv` |
| ExportsFollowVisibility | `[]ExportFollowsVisibility` | `ExportInv`, `HomeInv`, `KeyInv` |

`KeysUnique` is not inductive: two rows with one path arise from two pending
ones.  `KeyInv` adds what keeps those apart: locks exclude each other and keep
their row alive (`LocksHold`), each id is drawn once (`IdsFresh`), and a pending
path is neither in use nor pending twice (`KeysPending`).  `NameInv` says that
history and redirects tell one story and that a rename that moved the right
directory will redirect from the path its row still has: the lock it holds is
why.

For the disk, `DirInv` keeps a directory's repository drawn and not yet to
be initialised, and `HomeInv` says where everything is that an open request or a
pending removal is going to touch, as long as nothing was torn.  `RowInv` is the
way back from a directory to who is responsible for it (`Kept`): a row that is
here to stay, a creation that will commit or undo, or a goroutine that will remove
it.  Each action hands a directory from one of the three to another, and the
hand-over of deleteRepository happens before its commit.  For git-daemon's file the
row is the wrong place to look while a request is at work: `Due` says who decides
what a directory may be served as (its creation, the one update that has synced
it, or else its row), and `ExportInv` that the file says the same.  That there is
one such update only, and that a rename does not leave the file behind, are facts
of `KeyInv` and `HomeInv`.

### Artifacts

`ArtifactStoreProofs` holds for any sets of repositories, names, filenames,
contents, requests and imports, every `Env` and every `QueueSize`, from the
assumptions of ArtifactStore:

| Theorem | States | Rests on |
|---|---|---|
| ArtifactsTyped | `Spec => []TypeOK` | one lemma per action |
| RowsCorrect | `[](RowInv /\ WaitersShaped)` | itself |
| ChecksumsStayTrue | `[]ChecksumHolds` | `SumInv`, `RowInv` |
| RowsKeepObjects | `[]RowsHaveObjects` | `ObjectInv`, `SumInv`, `RowInv` |
| WritersExclusive | `[]ExclusiveWriter` | `SumInv`, `RowInv` |
| ObjectsKeepRows | `[]ObjectsHaveRows` | `OwnerInv`, `SumInv`, `RowInv` |
| RemovalsHaveNoOwner | `[]QueueInv` | itself, `RowInv` |
| OffersImplemented | `ImplementsOffers`: ArtifactStore implements ArtifactService | `QueueInv`, `SumInv`, `RowInv` |
| DownloadsLast | each step keeps every offer, or is `Misplaced` | the refinement |

None of these properties is inductive, since each speaks of committed rows and
what breaks it is prepared by requests in flight.  `RowInv` is what PostgreSQL
guarantees them: no pending row has a key another row has or waits for, no row is
deleted twice, a repository that is being deleted has no pending rows.  `SumInv`
adds that until a rename a request's key is the one its row will be found by; so
(lemma `KeyOwn`) an upload past its INSERT writes an object that no other row and
no other request has.
`ObjectInv` adds that a queued removal runs under a
name no repository has, or one whose deletion is about to commit, and `OwnerInv`
that a deletion has queued the removal of every object whose row it takes.

The refinement maps each step of the store to one of the service: the commit of an
upload to `Publish`, the first DELETE of a deletion to `Ask`, DeleteObject and the
worker to `Withdraw`, the commits of deletions to `Delete`, and whatever ends a
request without a commit to `Spare`, a crash being `Spare` of everything.  Two steps
need an argument.  Completing an upload must change no offer (`KeyOwn`).  The worker
removes by name and may take only what is doomed: `QueueInv` says that a queued
name is that of no repository but one whose deletion holds its rows.

### Pushes

`PushProofs` and `PushBuildsProofs` hold for any users, names, repositories,
branches, tags, commits and pushes, any `Limit` above 0, any finite sets of
manifests, any options and `Env`, from the assumptions of Push.
`VisibilityAssumption` says that PRIVATE is a visibility, which autocreation asks for
and `Init` gives to ids not yet drawn.  `NoneAssumption` keeps the null
value apart from the others.

| Theorem | States | Rests on |
|---|---|---|
| PushTyped | `Spec => []TypeOK` | `TypeInv`: with `PhaseInv` and `StoreInv` |
| WritesLand | `[]PushesLand` | `ContextInv`: `LandInv` and `KnownInv` |
| BuildsAreVisibleAlike | `[]BuildsVisibleAlike` | `ContextInv` |
| HeadAlwaysResolves | `[]HeadResolves` | `HeadInv` |
| BuildsAreBounded | `[]BuildsBounded` | `CountInv` |
| CommitsAreBuilt | `[]CommitsBuilt` | `LoopInv`: `AskedInv`, `KeyedInv` and `SettledInv` |

`PhaseInv` says what the push context holds at each hook, which is what lets one
hook rely on what another process left.  `PushesLand` is about the moment git opens
a directory; `LandInv` carries the lookup to it: while nothing moved the repository
it is at the path of the push.  `BuildsVisibleAlike` likewise needs `KnownInv`, for
the visibility is learnt by the shell, or by the last hook from updateRepository.
`HeadResolves` speaks of a repository all of whose pushes have ended; `HeadInv`
holds all the time: as long as HEAD dangles, somebody is still minding it (`Minding`:
a push that wrote there and will look, or is about to set a branch that exists), or
history says why nobody is.  The step that matters is the deletion of HEAD's branch
by one push while another is at its last hook.

`BuildsBounded` needs that what was submitted came from refs whose turn is over and
commits seen (`CountInv`), so that a ref's own builds are counted from nothing; then
one ref adds at most `Limit` to fewer than `Limit`.  For `CommitsBuilt`, `SettledInv`
says of each commit seen and of each ref whose turn is over why nothing more is to be
built of it (`Settled`), and `KeyedInv` that a ref without an update key is one redis
has dropped: such a ref is skipped without a word.

### Lists, access and tasks

`ListingProofs` proves, for any finite set of entries, any page size and any number
of changes, from the assumptions of Listing (commits are dated after what they are
made from, and ancestry is transitive):

| Theorem | States | Rests on |
|---|---|---|
| ListingTyped | `Spec => []TypeOK` | `PageInv` |
| EveryEntryIsSeen | `[]EveryEntrySeen` | `PageInv` |
| NoEntryComesTwice | `[]NoEntryTwice` | `PageInv` |
| CursorsAdvance | `CursorAdvances` | `PageInv` |

`PageInv` says where a client stands between two pages: what it has seen lies before
the cursor and what was kept and not seen yet lies at or behind it, in the order of
its kind of list; it is what a page must hand to the next one, and no property says
it.

`AccessProofs` proves, for any sets of users, names, repositories, keys and callers,
from the assumptions of Access:

| Theorem | States | Rests on |
|---|---|---|
| AccessTyped | `Spec => []TypeOK` | `Inv` |
| AllDecideAlike | `[]DecisionsAgree` | `TypeOK`, `Unique`; the lemmas ShellRule, WebRule, QueryRule, LoaderRule |
| ListsShowWhatIsRead | `[]ListsAgree` | `TypeOK` |
| RenamesLoseNoOne | `[]SteadyPathsAreFound` | `SteadyInv` |

That the rules agree is a fact about each state: it needs that a path is one
repository's (`Unique`), for the loaders search by path, and that no owner has a row
of access (`RowsBelong`), for the web pages look at the owner first and the shell
too, but a list does not.  `SteadyPathsAreFound` speaks of answers, and what decides
them is known earlier: `Waiting` says it for each place a caller waits at.  Who has
gone on to the redirects knows that all redirects from the path lead to the one
repository (`Sole`), and that is preserved by every rename, for a path that goes on
leading to one repository alone keeps its redirect (lemma PathKeeps).  A web page
that asks for the ACL has the repository's id and its visibility as it was: it was
not PRIVATE, or the ACL is still there, for whoever removed it took the page's steady
path (`Excuses`).

`TasksProofs` proves, for any users, repositories, tasks, failures and restarts and
queues of any length, from `NumbersAssumption` and `NoneAssumption` of Tasks:

| Theorem | States | Rests on |
|---|---|---|
| TasksTyped | `Spec => []TypeOK` | `Jobs` |
| ImportsHaveTasks | `[]InProgressHasTask` | `Jobs` |
| ImportsAreOwn | `[]ImportIsOwn` | `ImportInv`, `OwnDisk`, `StrandedOut`, `IdsDrawn` |
| IndexStaysTruthful | `[]IndexTruthful` | `IndexInv`, `OwnDisk`, `PathsUnique`, `StrandedOut` |
| DeletedUsersLeaveNothing | `[]DeletedUserLeavesNothing` | `FilesGone` |
| FilesStayWithRows | `[]RowsHaveFiles` | `OwnDisk`, `PathsUnique` |

`ImportIsOwn` and `IndexTruthful` speak of what is there when a task is done; what
makes them true is in the queues long before.  `ImportInv` says that, as long as i
has not moved, the imports given the path of i are those of i, lead to what was
wanted, and have fetched that if they have fetched anything.  `IndexInv` says where
the last word on i is: the last task about i among the calls still to be queued says
what i is now; if there are none, the last in the queue does; and if there are none
either, the index itself.  A call that is queued while an earlier one about i is not
would break it, and that is what `Overtakes` gives up.  The lemmas on `Ours`,
`LastIn` and `Without` say what appending a task and taking one out does to it.
`StrandedOut` ties the exceptions together: whose directory a failed mutation took is
`stranded`, and is then out of `ImportInv` and `IndexInv` as well, along with every
import it was the source of; nothing that follows, a creation from it included,
brings one of those back in.  An account's deletion that fails half way needs no such
fact, since each half is excused by its own set and no queue is given its paths.

The proofs are laid out as one step or lemma per action, and under it one per
conjunct the action can disturb.  `*Frame` lemmas cover the actions that touch
nothing an invariant reads.

## 6. What is only model-checked, and what is not modelled

Only model-checked: liveness (`RequestsEnd` of RepoStore and of ArtifactStore,
`ImportsEnd` of Tasks), since fairness and ENABLED are beyond the prover.  It is
also without induction over data, which nothing here needs: sequences are reasoned
about by what appending and taking the head does.  The two runs that expect a
violation are counterexamples, which a proof cannot replace.

Left out of the modules that exist:

 - RepoStore: readme, description and the HEAD column, which no property reads;
   the calls it makes after the commit, which Tasks has.
 - ArtifactStore: which tag an artifact is listed under; account deletion.
 - Access: suspended accounts, OAuth scopes, who may administer.  Redirects are
   answered by the web pages and the API to whoever asks, as in the code.  An id is
   never given out again; the model reuses those nobody has read, to stay finite.
 - Listing: what a list's rows contain; the artifacts of a lightweight tag, which
   come with the cursor that was asked with.
 - Tasks: the artifacts of a deleted account (their removal is ArtifactStore's race);
   queries of the index and the column `indexed`.
 - Push: reading through the shell (Access has it); how a manifest is found and rewritten; notes and tags of a build.
 - The patchset session: one user's form, its later steps recomputed from commits.
 - Webhook delivery: a queue and tables of core-go, whose source is not here.
 - Loaders: the cache of one request, since no request changes what it reads again.
 - Everything: what git itself does beyond compare-and-swap of refs, the wording of
   messages, rendering.

## 7. Plan

What is left, in this order:

 1. A push service as an abstract specification: refs of a repository change only by
    an authorised push, which Push implements until `moved`.
 2. An index as an abstract specification, which Tasks implements but for `off`.
 3. Suspended accounts in Access, which need the mirror of the user table.

## 8. Running

```
tlc -config repositories.cfg MCRepoStore.tla
tlapm RepoStoreProofs.tla
tlapm RepoDiskProofs.tla
tlapm ArtifactStoreProofs.tla
tlapm ListingProofs.tla
tlapm AccessProofs.tla
tlapm TasksProofs.tla
tlapm PushProofs.tla
tlapm PushBuildsProofs.tla
```

`MC*.tla` add the symmetry sets, the bounds and the values a `.cfg` cannot spell.
Definitions commented "Mutant of X" are X with a plausible bug; no specification
uses them.  `PROJECT.json` says which run must then fail, and gives the source
lines each definition stands for.
