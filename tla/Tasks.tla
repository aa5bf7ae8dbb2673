------------------------------- MODULE Tasks -------------------------------
(***************************************************************************)
(* What the API leaves to its work queues once a request has committed: the *)
(* import of a repository from a clone URL, the code search index, and the  *)
(* deletion of an account.  The queues are in memory, one worker each.  A   *)
(* task keeps the repository as its request saw it, path, name and          *)
(* visibility, and runs when its turn comes: others have renamed, deleted   *)
(* or replaced the repository by then.                                      *)
(*                                                                          *)
(* The mutations themselves, which RepoStore has in detail, are one step    *)
(* here: rows and directories change together.                              *)
(***************************************************************************)
EXTENDS Naturals, Sequences, FiniteSets, SequencesExt

CONSTANTS
    Users, Names,
    Ids,        \* repository.id, given out in order
    Visibility,
    Remote,     \* what a clone URL of another host has to offer
    Room,       \* bound: tasks a queue holds (queue-size in the configuration)
    MaxDue,     \* bound: requests between their commit and their queueing
    Changes,    \* bound: updates, deletions, pushes, failures and restarts
    None

Paths == Users \X Names
Sources == {Remote, None} \cup Paths   \* of an import: a URL, or a local path
Contents == {Remote, None} \cup Ids    \* what an import brings

ASSUME NumbersAssumption ==
    Ids \subseteq Nat /\ Room \in Nat \ {0} /\ MaxDue \in Nat /\ Changes \in Nat

Status == {"NONE", "IN_PROGRESS", "COMPLETE", "ERROR"}
Row == [path : Paths, vis : Visibility, clone : Status]
Dir == [repo : Ids, got : Contents]
Shards == [path : Paths, vis : Visibility, of : Ids]
Task == [job  : {"clone", "objects", "index", "purge"},
         id   : Ids,
         path : Paths,
         vis  : Visibility,
         from : Sources,
         step : {"ask", "fetch", "head", "good", "bad", "objects"}]

ASSUME NoneAssumption ==
    /\ None \notin Ids \cup Paths \cup Users \cup Visibility \cup {Remote}
    /\ None \notin Row \cup Dir \cup Shards
    /\ Remote \notin Ids \cup Paths

VARIABLES
    repo,    \* rows of table repository
    used,    \* ids drawn from the sequence
    disk,    \* the directory at each path, or None
    index,   \* the shards of each repository in the search index, or None
    user,    \* rows of table "user"
    due,     \* calls of Clone, Index and Delete by requests that have committed
    repos,   \* queue "repos"
    search,  \* queue "search"
    account, \* queue "account": what is done of each deletion
    changes, \* how many of those there were
    off,     \* history: repositories whose index is not what was last asked for
    lost,    \* history: those whose import, users whose deletion, did not end
    moved,   \* history: those that left, or came to, a path a task was given
    wanted,  \* history: what each import was to bring
    late,    \* history: users who created a repository while being deleted
    littered, \* history: users whose directories were not all removed
    stranded \* history: those whose directory a failed mutation took away

tables == <<repo, used, user>>
queues == <<repos, search, account>>
history == <<off, lost, moved, wanted, late, littered, stranded>>
vars == <<tables, disk, index, due, queues, changes, history>>

Live(i) == repo[i] # None
At(p) == {i \in Ids : Live(i) /\ repo[i].path = p}
Call(job, i, row, from) ==
    [job |-> job, id |-> i, path |-> row.path, vis |-> row.vis, from |-> from,
     step |-> "ask"]
Schedule(c) == Len(due) < MaxDue /\ due' = Append(due, c)

Init ==
    /\ repo = [i \in Ids |-> None]
    /\ used = {}
    /\ disk = [p \in Paths |-> None]
    /\ index = [i \in Ids |-> None]
    /\ user = Users
    /\ due = <<>>
    /\ repos = <<>> /\ search = <<>> /\ account = <<>>
    /\ changes = 0
    /\ off = {} /\ lost = {} /\ moved = {} /\ late = {}
    /\ littered = {} /\ stranded = {}
    /\ wanted = [i \in Ids |-> None]

-----------------------------------------------------------------------------
(* Requests.                                                                *)

\* The files of u are gone, the row of u is still there.
Leaving(u) == \E n \in DOMAIN account : account[n] = [user |-> u, step |-> "rows"]

\* The repositories of an import still to be made into p.
Expected(p) == {t.id : t \in {s \in Range(due) \cup Range(repos) :
                                 s.job = "clone" /\ s.path = p}}

\* Those whose tasks, or whose readers' tasks, find nothing of theirs at the
\* path i leaves, and i if it comes to a path p where another is expected.
Strayed(i) == {i} \cup {j \in Ids : wanted[j] = i}
Disturbed(i, p) == IF Expected(p) \subseteq {i} THEN {} ELSE {i}

\* createRepository, with a clone URL or without.  A URL of this very server
\* becomes the path of the repository it names.
CreateRepository(i, p, v, from) ==
    LET row == [path |-> p, vis |-> v,
                clone |-> IF from = None THEN "NONE" ELSE "IN_PROGRESS"]
        source == IF from \in Paths THEN CHOOSE j \in At(from) : TRUE ELSE from
    IN  /\ i \notin used /\ \A j \in Ids \ used : i <= j
        /\ used' = used \cup {i}
        /\ p[1] \in user
        /\ At(p) = {} /\ disk[p] = None
        /\ from \in Paths => At(from) # {}
        /\ repo' = [repo EXCEPT ![i] = row]
        /\ disk' = [disk EXCEPT ![p] = [repo |-> i, got |-> None]]
        /\ IF from = None THEN UNCHANGED due
                          ELSE Schedule(Call("clone", i, row, from))
        /\ wanted' = [wanted EXCEPT ![i] = source]
        /\ late' = IF Leaving(p[1]) THEN late \cup {p[1]} ELSE late
        /\ moved' = moved \cup Disturbed(i, p)
                          \cup (IF source \in stranded THEN {i} ELSE {})
        /\ UNCHANGED <<index, user, queues, changes, off, lost, littered, stranded>>

Counted == changes < Changes /\ changes' = changes + 1

Change ==
    /\ Counted
    /\ UNCHANGED <<used, user, index, search, account, lost, wanted, late, littered>>

\* Mutant of UpdateRepository: the index call has the row as it was.
UpdateRepositoryBefore(i, p, v) ==
    LET q == repo[i].path
        row == [repo[i] EXCEPT !.path = p, !.vis = v]
    IN  /\ Live(i) /\ p[1] = q[1] /\ row # repo[i]
        /\ p # q => At(p) = {} /\ disk[p] = None
        /\ disk[q] = None => p = q /\ v = "PRIVATE"
        /\ repo' = [repo EXCEPT ![i] = row]
        /\ disk' = [disk EXCEPT ![q] = None, ![p] = disk[q]]
        /\ Schedule(Call("index", i, repo[i], None))
        /\ moved' = moved \cup (IF p = q THEN {}
                              ELSE Strayed(i) \cup Disturbed(i, p))
        /\ UNCHANGED <<repos, off, stranded>>
        /\ Change

\* updateRepository: rename, visibility, and a refresh of the index.  Without
\* its directory a repository can only be made private.
UpdateRepository(i, p, v) ==
    LET q == repo[i].path
        row == [repo[i] EXCEPT !.path = p, !.vis = v]
    IN  /\ Live(i) /\ p[1] = q[1] /\ row # repo[i]
        /\ p # q => At(p) = {} /\ disk[p] = None
        /\ disk[q] = None => p = q /\ v = "PRIVATE"
        /\ repo' = [repo EXCEPT ![i] = row]
        /\ disk' = [disk EXCEPT ![q] = None, ![p] = disk[q]]
        /\ Schedule(Call("index", i, row, None))
        /\ moved' = moved \cup (IF p = q THEN {}
                              ELSE Strayed(i) \cup Disturbed(i, p))
        /\ UNCHANGED <<repos, off, stranded>>
        /\ Change

\* The artifacts of i, when it has any, are left to queue "repos", which must
\* have room, before the deletion commits.
DeleteArtifacts(i) ==
    \/ UNCHANGED repos
    \/ /\ Len(repos) < Room
       /\ repos' = Append(repos, [Call("objects", i, repo[i], None)
                                     EXCEPT !.step = "objects"])

DeleteRepository(i) ==
    /\ Live(i)
    /\ repo' = [repo EXCEPT ![i] = None]
    /\ disk' = [disk EXCEPT ![repo[i].path] = None]
    /\ DeleteArtifacts(i)
    /\ Schedule(Call("purge", i, repo[i], None))
    /\ moved' = moved \cup Strayed(i)
    /\ UNCHANGED <<off, stranded>>
    /\ Change

\* What RepoStore shows of mutations that fail: an update that was refused after
\* it moved the directory leaves it at p, and a deletion that does not commit has
\* it removed (p is None) all the same.  The row stays as it is.
Strand(i, p) ==
    LET q == repo[i].path IN
    /\ Live(i)
    /\ IF p = None THEN DeleteArtifacts(i)
       ELSE /\ p[1] = q[1] /\ p # q
            /\ disk[p] = None /\ disk[q] # None
            /\ UNCHANGED repos
    /\ disk' = [d \in Paths |-> IF d = q THEN None
                                ELSE IF d = p THEN disk[q] ELSE disk[d]]
    /\ stranded' = stranded \cup {i} \cup At(p)
    /\ off' = off \cup {i} \cup At(p)
    /\ moved' = moved \cup UNION {Strayed(j) : j \in {i} \cup At(p)}
    /\ UNCHANGED <<repo, due>>
    /\ Change

\* deliverGitHook after a push: the repository is read, then indexed.
DeliverGitEvent(i) ==
    /\ Live(i)
    /\ Schedule(Call("index", i, repo[i], None))
    /\ UNCHANGED <<repo, disk, repos, off, moved, stranded>>
    /\ Change

\* deleteUser
DeleteUser(u) ==
    /\ u \in user
    /\ \A n \in DOMAIN account : account[n].user # u
    /\ Len(account) < Room /\ Counted
    /\ account' = Append(account, [user |-> u, step |-> "files"])
    /\ UNCHANGED <<tables, disk, index, due, repos, search, history>>

-----------------------------------------------------------------------------
(* Queueing.  Requests that have committed come to it in any order.         *)

\* Calls for the index of the same repository, committed before the n-th.
Overtakes(n) ==
    \E m \in 1 .. n - 1 : due[m].id = due[n].id /\ due[m].job # "clone"

\* Mutant of Clone: the queue has no limit.
CloneUnbounded(n) ==
    /\ due[n].job = "clone"
    /\ repos' = Append(repos, due[n])
    /\ due' = RemoveAt(due, n)
    /\ UNCHANGED <<tables, disk, index, search, account, changes, history>>

Clone(n) ==
    /\ due[n].job = "clone"
    /\ Len(repos) < Room
    /\ repos' = Append(repos, due[n])
    /\ due' = RemoveAt(due, n)
    /\ UNCHANGED <<tables, disk, index, search, account, changes, history>>

\* TryEnqueue: with no room the refresh is dropped.
Index(n) ==
    /\ due[n].job = "index"
    /\ due' = RemoveAt(due, n)
    /\ IF Len(search) < Room
       THEN /\ search' = Append(search, due[n])
            /\ off' = IF Overtakes(n) THEN off \cup {due[n].id} ELSE off
       ELSE /\ UNCHANGED search
            /\ off' = off \cup {due[n].id}
    /\ UNCHANGED <<tables, disk, index, repos, account, changes, lost, moved,
                   wanted, late, littered, stranded>>

\* Mutant of Delete: as for Index, with no room it is dropped.
DeleteDropped(n) ==
    /\ due[n].job = "purge"
    /\ search' = IF Len(search) < Room THEN Append(search, due[n]) ELSE search
    /\ due' = RemoveAt(due, n)
    /\ off' = IF Overtakes(n) THEN off \cup {due[n].id} ELSE off
    /\ UNCHANGED <<tables, disk, index, repos, account, changes, lost, moved,
                   wanted, late, littered, stranded>>

\* Enqueue: with no room the request waits.
Delete(n) ==
    /\ due[n].job = "purge"
    /\ Len(search) < Room
    /\ search' = Append(search, due[n])
    /\ due' = RemoveAt(due, n)
    /\ off' = IF Overtakes(n) THEN off \cup {due[n].id} ELSE off
    /\ UNCHANGED <<tables, disk, index, repos, account, changes, lost, moved,
                   wanted, late, littered, stranded>>

-----------------------------------------------------------------------------
(* The worker of queue "repos".  Each git command is run in the directory   *)
(* at the path the task was given.                                          *)

Importing(step) == repos # <<>> /\ Head(repos).step = step
Then(step) == repos' = <<[Head(repos) EXCEPT !.step = step]>> \o Tail(repos)
Cloning == UNCHANGED <<tables, index, due, search, account, changes, history>>

\* What there is to fetch, or nothing: another host may not answer, and the
\* import may have had its 30 minutes.
Offer(from) ==
    {None} \cup (IF from = Remote THEN {Remote}
                 ELSE IF disk[from] = None THEN {} ELSE {disk[from].repo})

\* git ls-remote, for the branch HEAD names.
CloneAsk ==
    LET t == Head(repos) IN
    /\ Importing("ask")
    /\ \E c \in Offer(t.from) :
          Then(IF disk[t.path] # None /\ c # None THEN "fetch" ELSE "bad")
    /\ UNCHANGED disk
    /\ Cloning

\* Mutant of CloneFetch: a fetch that fails is not looked at.
CloneFetchUnchecked ==
    LET t == Head(repos) IN
    /\ Importing("fetch")
    /\ \E c \in Offer(t.from) :
          disk' = IF disk[t.path] # None /\ c # None
                  THEN [disk EXCEPT ![t.path].got = c] ELSE disk
    /\ Then("head")
    /\ Cloning

\* git fetch
CloneFetch ==
    LET t == Head(repos) IN
    /\ Importing("fetch")
    /\ \E c \in Offer(t.from) :
          IF disk[t.path] # None /\ c # None
          THEN disk' = [disk EXCEPT ![t.path].got = c] /\ Then("head")
          ELSE UNCHANGED disk /\ Then("bad")
    /\ Cloning

\* git symbolic-ref HEAD, if the other side named a branch: without a directory
\* it fails, and with one it may have run out of time.
CloneHead ==
    /\ Importing("head")
    /\ \E end \in {"good", "bad"} : Then(end)
    /\ UNCHANGED disk
    /\ Cloning

\* Mutant of CloneDone: a failure is returned before the row is written.
CloneDoneReturned ==
    LET t == Head(repos) IN
    /\ Importing("good") \/ Importing("bad")
    /\ repo' = [repo EXCEPT ![t.id] =
                    IF @ = None \/ t.step = "bad" THEN @
                    ELSE [@ EXCEPT !.clone = "COMPLETE"]]
    /\ repos' = Tail(repos)
    /\ UNCHANGED <<used, user, disk, index, due, search, account, changes,
                   history>>

\* UPDATE repository SET clone_status, by id.
CloneDone ==
    LET t == Head(repos) IN
    /\ Importing("good") \/ Importing("bad")
    /\ repo' = [repo EXCEPT ![t.id] =
                    IF @ = None THEN None
                    ELSE [@ EXCEPT !.clone = IF t.step = "good" THEN "COMPLETE"
                                                                ELSE "ERROR"]]
    /\ repos' = Tail(repos)
    /\ UNCHANGED <<used, user, disk, index, due, search, account, changes,
                   history>>

\* The UPDATE fails, the task panics, and the status stays.
ClonePanics ==
    /\ Importing("good") \/ Importing("bad")
    /\ repos' = Tail(repos)
    /\ lost' = lost \cup {Head(repos).id}
    /\ Counted
    /\ UNCHANGED <<tables, disk, index, due, search, account, off, moved, wanted,
                   late, littered, stranded>>

\* DeleteArtifactsBlocking, of which ArtifactStore has the detail.
ObjectsGo ==
    /\ Importing("objects")
    /\ repos' = Tail(repos)
    /\ UNCHANGED disk
    /\ Cloning

CloneStep ==
    CloneAsk \/ CloneFetch \/ CloneHead \/ CloneDone \/ ClonePanics \/ ObjectsGo

-----------------------------------------------------------------------------
(* The workers of the other two.                                            *)

Searching(job) == search # <<>> /\ Head(search).job = job
Searched ==
    /\ search' = Tail(search)
    /\ UNCHANGED <<tables, disk, due, repos, account, lost, moved, wanted, late,
                   littered, stranded>>

\* The task fails and leaves the index as it is.
IndexKept(i) == UNCHANGED index /\ off' = off \cup {i} /\ Counted

\* gitindex.IndexGitRepo, of what is at the task's path.  It fails without a
\* directory, and with one for reasons of its own.
IndexRun ==
    LET t == Head(search) IN
    /\ Searching("index")
    /\ \/ disk[t.path] = None /\ UNCHANGED <<index, off, changes>>
       \/ /\ disk[t.path] # None
          /\ index' = [index EXCEPT ![t.id] = [path |-> t.path, vis |-> t.vis,
                                               of |-> disk[t.path].repo]]
          /\ UNCHANGED <<off, changes>>
       \/ disk[t.path] # None /\ IndexKept(t.id)
    /\ Searched

\* The shards with the id of the repository in their name, if the directory of
\* the index can be read.
PurgeRun ==
    LET t == Head(search) IN
    /\ Searching("purge")
    /\ \/ index' = [index EXCEPT ![t.id] = None] /\ UNCHANGED <<off, changes>>
       \/ IndexKept(t.id)
    /\ Searched

Theirs(u) == {i \in Ids : Live(i) /\ repo[i].path[1] = u}

\* Mutant of AccountFiles: the row goes first, and the task ends with it.
AccountFilesLast ==
    LET u == Head(account).user IN
    /\ account # <<>> /\ Head(account).step = "files"
    /\ account' = Tail(account)
    /\ user' = user \ {u}
    /\ repo' = [i \in Ids |-> IF Live(i) /\ repo[i].path[1] = u THEN None
                              ELSE repo[i]]
    /\ UNCHANGED <<used, disk, index, due, repos, search, changes, history>>

\* The artifacts of u, which go first, cannot be listed.
AccountFails ==
    /\ account # <<>> /\ Head(account).step = "files"
    /\ account' = Tail(account)
    /\ Counted
    /\ UNCHANGED <<tables, disk, index, due, repos, search, history>>

\* os.RemoveAll of ~user, before the rows.  That it fails is only logged: some
\* directories are left, and of some of those a part.
AccountFiles ==
    LET u == Head(account).user IN
    /\ account # <<>> /\ Head(account).step = "files"
    /\ account' = <<[user |-> u, step |-> "rows"]>> \o Tail(account)
    /\ off' = off \cup Theirs(u)
    /\ \E left \in SUBSET {p \in Paths : p[1] = u /\ disk[p] # None} :
          /\ disk' = [p \in Paths |-> IF p[1] = u /\ p \notin left THEN None
                                      ELSE disk[p]]
          /\ IF left = {} THEN UNCHANGED <<littered, moved, changes>>
             ELSE /\ Counted
                  /\ littered' = littered \cup {u}
                  /\ moved' = moved \cup UNION {Strayed(i) : i \in Theirs(u)}
    /\ UNCHANGED <<tables, index, due, repos, search, lost, wanted, late, stranded>>

\* Mutant of AccountRows: the repositories stay.
AccountRowsAlone ==
    LET u == Head(account).user
    IN  /\ account # <<>> /\ Head(account).step = "rows"
        /\ account' = Tail(account)
        /\ user' = user \ {u}
        /\ UNCHANGED <<repo, used, disk, index, due, repos, search, changes,
                       history>>

\* DELETE FROM "user", which takes the repositories along, and leaves what the
\* search index has of them.
AccountRows ==
    LET u == Head(account).user
    IN  /\ account # <<>> /\ Head(account).step = "rows"
        /\ account' = Tail(account)
        /\ user' = user \ {u}
        /\ repo' = [i \in Ids |-> IF i \in Theirs(u) THEN None ELSE repo[i]]
        /\ off' = off \cup Theirs(u)
        /\ moved' = moved \cup UNION {Strayed(i) : i \in Theirs(u)}
        /\ UNCHANGED <<used, disk, index, due, repos, search, changes, lost,
                       wanted, late, littered, stranded>>

\* It fails: the user stays, and the repositories, without their files.
AccountRowsFail ==
    /\ account # <<>> /\ Head(account).step = "rows"
    /\ account' = Tail(account)
    /\ lost' = lost \cup {Head(account).user}
    /\ Counted
    /\ UNCHANGED <<tables, disk, index, due, repos, search, off, moved, wanted,
                   late, littered, stranded>>

AccountStep == AccountFails \/ AccountFiles \/ AccountRows \/ AccountRowsFail

\* The API is restarted.
Crash ==
    LET tasks == Range(due) \cup Range(repos) \cup Range(search)
        of(jobs) == {t.id : t \in {s \in tasks : s.job \in jobs}}
    IN  /\ Counted
        /\ due' = <<>> /\ repos' = <<>> /\ search' = <<>> /\ account' = <<>>
        /\ off' = off \cup of({"index", "purge"})
        /\ lost' = lost \cup of({"clone"}) \cup {a.user : a \in Range(account)}
        /\ UNCHANGED <<tables, disk, index, moved, wanted, late, littered, stranded>>

Enqueue == \E n \in DOMAIN due : Clone(n) \/ Index(n) \/ Delete(n)
Worker == CloneStep \/ IndexRun \/ PurgeRun \/ AccountStep

Request ==
    \/ \E i \in Ids, p \in Paths, v \in Visibility :
          \/ \E from \in Sources : CreateRepository(i, p, v, from)
          \/ UpdateRepository(i, p, v)
    \/ \E i \in Ids : DeleteRepository(i) \/ DeliverGitEvent(i)
    \/ \E i \in Ids, p \in Paths \cup {None} : Strand(i, p)
    \/ \E u \in Users : DeleteUser(u)

Next == Request \/ Enqueue \/ Worker \/ Crash

\* A request that has committed goes on, and each queue has its worker.  What
\* users ask for, and restarts, need not happen.
Fairness ==
    /\ WF_vars(Enqueue)
    /\ WF_vars(CloneStep)
    /\ WF_vars(IndexRun \/ PurgeRun)
    /\ WF_vars(AccountStep)

Spec == Init /\ [][Next]_vars /\ Fairness

-----------------------------------------------------------------------------
(* Properties.                                                              *)

TypeOK ==
    /\ repo \in [Ids -> Row \cup {None}]
    /\ used \subseteq Ids
    /\ disk \in [Paths -> Dir \cup {None}]
    /\ index \in [Ids -> Shards \cup {None}]
    /\ user \subseteq Users
    /\ due \in Seq(Task) /\ repos \in Seq(Task) /\ search \in Seq(Task)
    /\ account \in Seq([user : Users, step : {"files", "rows"}])
    /\ Len(repos) <= Room /\ Len(search) <= Room /\ Len(account) <= Room
    /\ changes \in 0 .. Changes
    /\ off \subseteq Ids /\ lost \subseteq Ids \cup Users
    /\ moved \subseteq Ids /\ late \subseteq Users
    /\ littered \subseteq Users /\ stranded \subseteq Ids
    /\ wanted \in [Ids -> Contents]

Underway(i) == \E t \in Range(due) \cup Range(repos) : t.job = "clone" /\ t.id = i
InProgress(i) == Live(i) /\ repo[i].clone = "IN_PROGRESS"

\* clone_status is IN_PROGRESS only as long as there is a task to end it, or it
\* went in a crash (the call comes after the commit, CreateRepository 379-383), or
\* the UPDATE that was to end it failed.
InProgressHasTask ==
    \A i \in Ids : InProgress(i) => Underway(i) \/ i \in lost

\* An import ends, COMPLETE or ERROR, unless the API was restarted meanwhile or
\* the last UPDATE failed.
ImportsEnd ==
    \A i \in Ids : InProgress(i) ~> (~InProgress(i) \/ i \in lost)

\* clone_status COMPLETE means that the repository's own directory has what the
\* URL led to.  Excepted are those that were renamed, or whose source was: the
\* task keeps the paths it was given; those that came to such a path, for they are
\* given what was meant for another; and those a failed mutation or a failed
\* removal of the owner's files took the directory from, or a part of it, or did
\* so to their source.
ImportIsOwn ==
    \A i \in Ids \ moved :
        Live(i) /\ repo[i].clone = "COMPLETE" /\ disk[repo[i].path] # None
        => disk[repo[i].path] = [repo |-> i, got |-> wanted[i]]

Quiet == due = <<>> /\ search = <<>>

\* Once the queue has been worked off, the index has nothing of a repository
\* that is gone, and of the others their present name and visibility and their
\* own contents.  Excepted are those whose refresh was dropped for want of room,
\* overtaken on the way to the queue or lost in a crash, those of which the task
\* itself failed, the stranded, and what belonged to a deleted account.
IndexTruthful ==
    Quiet => \A i \in Ids \ off :
                index[i] # None =>
                    /\ Live(i)
                    /\ index[i] = [path |-> repo[i].path, vis |-> repo[i].vis,
                                   of |-> i]

\* A user who is gone has no directory left, but for a repository created
\* between the removal of the files and that of the rows, and what the removal
\* of the files left.
DeletedUserLeavesNothing ==
    \A p \in Paths : p[1] \notin user \cup late \cup littered => disk[p] = None

\* A repository there is a row of has its directory, unless a mutation of it
\* failed half way, or its owner is being deleted, or the deletion did not end.
RowsHaveFiles ==
    \A i \in Ids \ stranded : Live(i) =>
        \/ disk[repo[i].path] # None /\ disk[repo[i].path].repo = i
        \/ Leaving(repo[i].path[1]) \/ repo[i].path[1] \in lost
=============================================================================
