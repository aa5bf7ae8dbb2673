----------------------------- MODULE RepoStore -----------------------------
(***************************************************************************)
(* The repositories of git.sr.ht as the GraphQL API keeps them: rows of the *)
(* PostgreSQL tables "repository" and "redirect", and one directory per     *)
(* repository below the configured repository root.  Every mutation changes *)
(* both: a database transaction is open while the resolver creates, renames *)
(* or removes a directory, and only the database half can be rolled back.   *)
(*                                                                          *)
(* One member of Requests is one goroutine serving one mutation at a time.  *)
(* A transaction's writes are kept in its request (tx) until it commits;    *)
(* what PostgreSQL makes other transactions wait for (row locks, pending    *)
(* unique keys) is derived from where each request stands.  A mutation that *)
(* is refused before it changed anything is a stuttering step.              *)
(***************************************************************************)
EXTENDS Naturals, FiniteSets

CONSTANTS
    Users,       \* repository owners
    Names,       \* repository names
    Ids,         \* values of the serial repository.id
    Requests,    \* goroutines serving mutations
    Env,         \* what goes wrong around the program, see EnvAssumption
    Visibility,  \* the visibilities requests ask for
    MaxReapers,  \* bound: pending os.RemoveAll goroutines per path
    None         \* no row, no directory, no value

\* "abort": a transaction fails at any statement, or at COMMIT (the request
\* context expires, the connection is lost).  "crash": the API process dies.
\* "slow_remove": os.RemoveAll is seen half done by the other requests.
ASSUME EnvAssumption == Env \subseteq {"abort", "crash", "slow_remove"}
ASSUME VisibilityAssumption ==
    Visibility \subseteq {"PUBLIC", "UNLISTED", "PRIVATE"}
ASSUME BoundAssumption == MaxReapers \in Nat

Paths == Users \X Names        \* <root>/~<user>/<name>
Owner(p) == p[1]

Exported(vis) == vis # "PRIVATE"

\* name, owner_id and path are always written together, by the statements
\* that make path = root/~owner/name: the row keeps the path.
Row == [path : Paths, vis : Visibility]

\* A directory: the repository whose objects it holds (git config
\* srht.repo-id), whether git-daemon-export-ok is there, and whether HEAD is.
Dir == [repo : Ids, export : BOOLEAN, head : BOOLEAN]

Entry == [path : Paths, repo : Ids]

Tx == [pc   : {"idle", "init", "built", "undo",
               "lock", "move", "update", "sync", "synced", "deleted"},
       id   : Ids \cup {None},            \* the repository concerned
       from : Paths \cup {None},          \* path the redirect was made for
       to   : Paths \cup {None},          \* path of the pending row
       vis  : Visibility \cup {"KEEP"}]   \* visibility asked for, then pending

Idle == [pc |-> "idle", id |-> None, from |-> None, to |-> None,
         vis |-> "KEEP"]

Damage == {"stranded", "removed", "stale", "foreign", "overlap", "litter",
           "unsynced"}

ASSUME NoneAssumption ==
    /\ None \notin Ids
    /\ None \notin Paths
    /\ None \notin Row
    /\ None \notin Dir

VARIABLES
    repo,      \* committed rows of table repository
    redirect,  \* committed rows of table redirect
    used,      \* ids drawn from the sequence, rolled back or not
    disk,      \* the directories
    reapers,   \* os.RemoveAll goroutines not yet run, per path
    tx,        \* the requests in flight
    held,      \* history: the paths each live repository was committed under
    torn       \* history: the ways a request has let disk and database part

db == <<repo, redirect, used>>
fs == <<disk, reapers>>
vars == <<db, fs, tx, held, torn>>

Live(i) == repo[i] # None

-----------------------------------------------------------------------------
(* What PostgreSQL makes a statement wait for.                              *)

Renames(t) == tx[t].from # None

\* FOR KEY SHARE: the foreign key of the redirect row inserted by t.
KeyShares(t, i) == tx[t].id = i /\ tx[t].pc \in {"move", "update"}

\* FOR NO KEY UPDATE: an UPDATE that leaves the unique columns alone.
NoKeyUpdates(t, i) ==
    tx[t].id = i /\ tx[t].pc \in {"sync", "synced"} /\ ~Renames(t)

\* FOR UPDATE: an UPDATE of name and path, or a DELETE.
ForUpdates(t, i) ==
    /\ tx[t].id = i
    /\ \/ tx[t].pc \in {"sync", "synced"} /\ Renames(t)
       \/ tx[t].pc = "deleted"

CanKeyShare(t, i) == \A s \in Requests \ {t} : ~ForUpdates(s, i)
CanNoKeyUpdate(t, i) ==
    \A s \in Requests \ {t} : ~ForUpdates(s, i) /\ ~NoKeyUpdates(s, i)
CanForUpdate(t, i) ==
    \A s \in Requests \ {t} :
        ~ForUpdates(s, i) /\ ~NoKeyUpdates(s, i) /\ ~KeyShares(s, i)

\* Unique keys t has written or freed without having committed yet.
Claims(t) ==
    CASE tx[t].pc \in {"init", "built"} -> {tx[t].to}
      [] tx[t].pc \in {"sync", "synced"} -> {tx[t].to, repo[tx[t].id].path}
      [] tx[t].pc = "deleted" -> {repo[tx[t].id].path}
      [] OTHER -> {}

Claimed(t, p) == \E s \in Requests \ {t} : p \in Claims(s)
InUse(p) == \E i \in Ids : Live(i) /\ repo[i].path = p

-----------------------------------------------------------------------------
Init ==
    /\ repo = [i \in Ids |-> None]
    /\ redirect = {}
    /\ used = {}
    /\ disk = [p \in Paths |-> None]
    /\ reapers = [p \in Paths |-> 0]
    /\ tx = [t \in Requests |-> Idle]
    /\ held = {}
    /\ torn = {}

Goto(t, pc) == tx' = [tx EXCEPT ![t].pc = pc]
End(t) == tx' = [tx EXCEPT ![t] = Idle]

\* The damage done when the transaction of t is rolled back where t stands.
\* A moved directory stays where it is: the deferred function of
\* UpdateRepository reads the outer origPath and repoPath, which the closure
\* shadows, so it renames "" to "" and panics.
Harm(t) ==
    (IF Renames(t) /\ tx[t].pc \in {"update", "sync", "synced"}
     THEN {"stranded"} ELSE {})
    \cup (IF tx[t].pc = "synced" /\ tx[t].vis # repo[tx[t].id].vis
          THEN {"unsynced"} ELSE {})
    \cup (IF tx[t].pc = "deleted" THEN {"removed"} ELSE {})

-----------------------------------------------------------------------------
(* createRepository                                                         *)

\* Mutant of CreateInsert: the unique index does not make it wait.
CreateInsertNoWait(t, p, vis) ==
    /\ tx[t].pc = "idle"
    /\ ~InUse(p) \/ Claimed(t, p)
    /\ \E i \in Ids \ used :
        /\ used' = used \cup {i}
        /\ tx' = [tx EXCEPT ![t] = [pc |-> "init", id |-> i, from |-> None,
                                    to |-> p, vis |-> vis]]
    /\ UNCHANGED <<repo, redirect, fs, held, torn>>

\* INSERT INTO repository.  A taken name is refused; a name another
\* transaction has a pending claim on makes the statement wait.
CreateInsert(t, p, vis) ==
    /\ tx[t].pc = "idle"
    /\ ~InUse(p)
    /\ ~Claimed(t, p)
    /\ \E i \in Ids \ used :
        /\ used' = used \cup {i}
        /\ tx' = [tx EXCEPT ![t] = [pc |-> "init", id |-> i, from |-> None,
                                    to |-> p, vis |-> vis]]
    /\ UNCHANGED <<repo, redirect, fs, held, torn>>

\* Mutant of CreateExists: repoCreated is set before PlainInit is called.
CreateExistsUndone(t) ==
    /\ tx[t].pc = "init"
    /\ disk[tx[t].to] # None
    /\ disk[tx[t].to].head
    /\ Goto(t, "undo")
    /\ UNCHANGED <<db, fs, held, torn>>

\* git.PlainInit: a directory that has a HEAD is refused, before repoCreated.
CreateExists(t) ==
    /\ tx[t].pc = "init"
    /\ disk[tx[t].to] # None
    /\ disk[tx[t].to].head
    /\ End(t)
    /\ UNCHANGED <<db, fs, held, torn>>

\* git.PlainInit, the configuration, the hooks and git-daemon-export-ok.
\* Inside the remains of a directory that is being removed it succeeds.
CreateInit(t) ==
    LET p == tx[t].to IN
    /\ tx[t].pc = "init"
    /\ disk[p] # None => ~disk[p].head
    /\ disk' = [disk EXCEPT ![p] = [repo |-> tx[t].id,
                                    export |-> Exported(tx[t].vis),
                                    head |-> TRUE]]
    /\ Goto(t, "built")
    /\ torn' = torn \cup (IF disk[p] # None \/ reapers[p] > 0
                          THEN {"overlap"} ELSE {})
    /\ UNCHANGED <<db, reapers, held>>

\* Mutant of CreateRefused: no deferred RemoveAll.
CreateRefusedKept(t) ==
    /\ tx[t].pc = "built"
    /\ End(t)
    /\ UNCHANGED <<db, fs, held, torn>>

\* The clone URL is refused (any creation may carry such an input): roll
\* back, then run the deferred RemoveAll.
CreateRefused(t) ==
    /\ tx[t].pc = "built"
    /\ Goto(t, "undo")
    /\ UNCHANGED <<db, fs, held, torn>>

CreateUndo(t) ==
    /\ tx[t].pc = "undo"
    /\ disk' = [disk EXCEPT ![tx[t].to] = None]
    /\ End(t)
    /\ UNCHANGED <<db, reapers, held, torn>>

CreateCommit(t) ==
    /\ tx[t].pc = "built"
    /\ repo' = [repo EXCEPT ![tx[t].id] =
                    [path |-> tx[t].to, vis |-> tx[t].vis]]
    /\ held' = held \cup {[path |-> tx[t].to, repo |-> tx[t].id]}
    /\ End(t)
    /\ UNCHANGED <<redirect, used, fs, torn>>

-----------------------------------------------------------------------------
(* updateRepository                                                         *)

\* INSERT INTO redirect SELECT ... FROM repository: the statement's snapshot
\* of the row supplies origPath; the foreign key is checked afterwards.
RenameRead(t, i, p, vis) ==
    /\ tx[t].pc = "idle"
    /\ Live(i)
    /\ Owner(repo[i].path) = Owner(p)
    /\ tx' = [tx EXCEPT ![t] = [pc |-> "lock", id |-> i,
                                from |-> repo[i].path, to |-> p,
                                vis |-> vis]]
    /\ UNCHANGED <<db, fs, held, torn>>

\* The foreign key check of that INSERT takes FOR KEY SHARE on the row as it
\* is now, waiting for a pending rename or delete; a row that is gone is a
\* constraint violation.
RenameLock(t) ==
    /\ tx[t].pc = "lock"
    /\ CanKeyShare(t, tx[t].id)
    /\ IF Live(tx[t].id) THEN Goto(t, "move") ELSE End(t)
    /\ UNCHANGED <<db, fs, held, torn>>

\* os.Rename: no source is ENOENT, an existing target is EEXIST.
RenameFails(t) ==
    /\ tx[t].pc = "move"
    /\ disk[tx[t].from] = None \/ disk[tx[t].to] # None
    /\ End(t)
    /\ UNCHANGED <<db, fs, held, torn>>

\* Mutant of RenameMove: the old directory is copied and stays.
RenameMoveCopies(t) ==
    /\ tx[t].pc = "move"
    /\ disk[tx[t].from] # None
    /\ disk[tx[t].to] = None
    /\ disk' = [disk EXCEPT ![tx[t].to] = disk[tx[t].from]]
    /\ Goto(t, "update")
    /\ UNCHANGED <<db, reapers, held, torn>>

RenameMove(t) ==
    LET from == tx[t].from
        to   == tx[t].to
    IN  /\ tx[t].pc = "move"
        /\ disk[from] # None
        /\ disk[to] = None
        /\ disk' = [disk EXCEPT ![to] = disk[from], ![from] = None]
        /\ Goto(t, "update")
        /\ torn' = torn
             \cup (IF from # repo[tx[t].id].path THEN {"stale"} ELSE {})
             \cup (IF disk[from].repo # tx[t].id THEN {"foreign"} ELSE {})
        /\ UNCHANGED <<db, reapers, held>>

\* Mutant of UpdateRow: the index on (owner_id, name) is not unique.
UpdateRowUnchecked(t) ==
    LET i == tx[t].id IN
    /\ tx[t].pc = "update"
    /\ CanForUpdate(t, i)
    /\ tx' = [tx EXCEPT ![t].pc = "sync",
                        ![t].vis = IF @ = "KEEP" THEN repo[i].vis ELSE @]
    /\ UNCHANGED <<db, fs, held, torn>>

\* UPDATE repository SET name, path: waits for the row and for the key, then
\* a key held by another row is a unique violation.
UpdateRow(t) ==
    LET i == tx[t].id IN
    /\ tx[t].pc = "update"
    /\ CanForUpdate(t, i)
    /\ ~Claimed(t, tx[t].to)
    /\ \A j \in Ids \ {i} : Live(j) => repo[j].path # tx[t].to
    /\ tx' = [tx EXCEPT ![t].pc = "sync",
                        ![t].vis = IF @ = "KEEP" THEN repo[i].vis ELSE @]
    /\ UNCHANGED <<db, fs, held, torn>>

\* Mutant of UpdateTaken: the unique violation is retried for ever.
UpdateTakenRetried(t) == FALSE

UpdateTaken(t) ==
    LET i == tx[t].id IN
    /\ tx[t].pc = "update"
    /\ CanForUpdate(t, i)
    /\ ~Claimed(t, tx[t].to)
    /\ \E j \in Ids \ {i} : Live(j) /\ repo[j].path = tx[t].to
    /\ End(t)
    /\ torn' = torn \cup Harm(t)
    /\ UNCHANGED <<db, fs, held>>

\* Two renames of one repository that both moved a directory wait for each
\* other's FOR KEY SHARE: PostgreSQL aborts one of them.
DeadlockVictim(t) ==
    /\ tx[t].pc = "update"
    /\ \E s \in Requests \ {t} : tx[s].pc = "update" /\ tx[s].id = tx[t].id
    /\ End(t)
    /\ torn' = torn \cup Harm(t)
    /\ UNCHANGED <<db, fs, held>>

\* An update without a new name: the UPDATE is the first statement, and
\* returns the row as it is once the row lock is granted.
Touch(t, i, vis) ==
    /\ tx[t].pc = "idle"
    /\ Live(i)
    /\ CanNoKeyUpdate(t, i)
    /\ tx' = [tx EXCEPT ![t] =
                [pc |-> "sync", id |-> i, from |-> None,
                 to |-> repo[i].path,
                 vis |-> IF vis = "KEEP" THEN repo[i].vis ELSE vis]]
    /\ UNCHANGED <<db, fs, held, torn>>

\* The HEAD asked for names no branch (any update may carry such an input),
\* or there is no directory to create git-daemon-export-ok in.
SyncRefused(t) ==
    /\ tx[t].pc = "sync"
    /\ End(t)
    /\ torn' = torn \cup Harm(t)
    /\ UNCHANGED <<db, fs, held>>

\* Mutant of SyncExport: the file is created but never removed.
SyncExportOnlyCreates(t) ==
    LET p == tx[t].to IN
    /\ tx[t].pc = "sync"
    /\ Exported(tx[t].vis) => disk[p] # None
    /\ disk' = IF ~Exported(tx[t].vis) THEN disk
               ELSE [disk EXCEPT ![p].export = TRUE]
    /\ Goto(t, "synced")
    /\ UNCHANGED <<db, reapers, held, torn>>

\* git-daemon-export-ok is created, or removed: that it was not there, or
\* that the whole directory is not there, is no error when removing it.
SyncExport(t) ==
    LET p == tx[t].to IN
    /\ tx[t].pc = "sync"
    /\ Exported(tx[t].vis) => disk[p] # None
    /\ disk' = IF disk[p] = None THEN disk
               ELSE [disk EXCEPT ![p].export = Exported(tx[t].vis)]
    /\ Goto(t, "synced")
    /\ UNCHANGED <<db, reapers, held, torn>>

\* Mutant of UpdateCommit: the redirect is made for the new path.
UpdateCommitNewPath(t) ==
    LET i == tx[t].id IN
    /\ tx[t].pc = "synced"
    /\ repo' = [repo EXCEPT ![i] = [path |-> tx[t].to, vis |-> tx[t].vis]]
    /\ redirect' = redirect \cup
          (IF Renames(t) THEN {[path |-> tx[t].to, repo |-> i]} ELSE {})
    /\ held' = held \cup {[path |-> tx[t].to, repo |-> i]}
    /\ End(t)
    /\ UNCHANGED <<used, fs, torn>>

\* Mutant of UpdateCommit: a rename replaces the redirects made before.
UpdateCommitLastOnly(t) ==
    LET i == tx[t].id IN
    /\ tx[t].pc = "synced"
    /\ repo' = [repo EXCEPT ![i] = [path |-> tx[t].to, vis |-> tx[t].vis]]
    /\ redirect' = IF ~Renames(t) THEN redirect
                   ELSE {d \in redirect : d.repo # i}
                          \cup {[path |-> tx[t].from, repo |-> i]}
    /\ held' = held \cup {[path |-> tx[t].to, repo |-> i]}
    /\ End(t)
    /\ UNCHANGED <<used, fs, torn>>

UpdateCommit(t) ==
    LET i == tx[t].id IN
    /\ tx[t].pc = "synced"
    /\ repo' = [repo EXCEPT ![i] = [path |-> tx[t].to, vis |-> tx[t].vis]]
    /\ redirect' = redirect \cup
          (IF Renames(t) THEN {[path |-> tx[t].from, repo |-> i]} ELSE {})
    /\ held' = held \cup {[path |-> tx[t].to, repo |-> i]}
    /\ End(t)
    /\ UNCHANGED <<used, fs, torn>>

-----------------------------------------------------------------------------
(* deleteRepository                                                         *)

\* DELETE FROM repository, and the goroutine that removes the directory: it
\* is started before the transaction commits.
DeleteRow(t, i) ==
    /\ tx[t].pc = "idle"
    /\ Live(i)
    /\ CanForUpdate(t, i)
    /\ reapers[repo[i].path] < MaxReapers
    /\ reapers' = [reapers EXCEPT ![repo[i].path] = @ + 1]
    /\ tx' = [tx EXCEPT ![t] = [Idle EXCEPT !.pc = "deleted", !.id = i]]
    /\ UNCHANGED <<db, disk, held, torn>>

\* Mutant of DeleteCommit: the redirects stay.
DeleteCommitKeepsRedirects(t) ==
    /\ tx[t].pc = "deleted"
    /\ repo' = [repo EXCEPT ![tx[t].id] = None]
    /\ held' = {h \in held : h.repo # tx[t].id}
    /\ End(t)
    /\ UNCHANGED <<redirect, used, fs, torn>>

\* COMMIT; the redirects to the repository go with it (ON DELETE CASCADE).
DeleteCommit(t) ==
    /\ tx[t].pc = "deleted"
    /\ repo' = [repo EXCEPT ![tx[t].id] = None]
    /\ redirect' = {d \in redirect : d.repo # tx[t].id}
    /\ held' = {h \in held : h.repo # tx[t].id}
    /\ End(t)
    /\ UNCHANGED <<used, fs, torn>>

\* Mutant of Reap: it runs whether or not a deletion asked for it.
ReapAnytime(p) ==
    /\ reapers' = [reapers EXCEPT ![p] = @ - 1]
    /\ disk' = [disk EXCEPT ![p] = None]
    /\ UNCHANGED <<db, tx, held, torn>>

\* The goroutine of a deleteRepository: os.RemoveAll(path), whatever is there.
Reap(p) ==
    /\ reapers[p] > 0
    /\ reapers' = [reapers EXCEPT ![p] = @ - 1]
    /\ disk' = [disk EXCEPT ![p] = None]
    /\ UNCHANGED <<db, tx, held, torn>>

-----------------------------------------------------------------------------
(* What Env adds.                                                           *)

\* os.RemoveAll has unlinked HEAD and not yet the rest.
RemoveHalf(p) ==
    /\ "slow_remove" \in Env
    /\ disk[p] # None /\ disk[p].head
    /\ reapers[p] > 0 \/ \E t \in Requests : tx[t].pc = "undo" /\ tx[t].to = p
    /\ disk' = [disk EXCEPT ![p].head = FALSE]
    /\ UNCHANGED <<db, reapers, tx, held, torn>>

\* The transaction of t fails where it stands and is rolled back.
Abort(t) ==
    /\ "abort" \in Env
    /\ tx[t].pc \notin {"idle", "undo"}
    /\ IF tx[t].pc = "built" THEN Goto(t, "undo") ELSE End(t)
    /\ torn' = torn \cup Harm(t)
    /\ UNCHANGED <<db, fs, held>>

\* The API process dies: PostgreSQL rolls back what was open, goroutines that
\* were to remove a directory are gone.
Crash ==
    /\ "crash" \in Env
    /\ tx' = [t \in Requests |-> Idle]
    /\ reapers' = [p \in Paths |-> 0]
    /\ torn' = torn \cup (UNION {Harm(t) : t \in Requests})
         \cup (IF \/ \E t \in Requests : tx[t].pc \in {"built", "undo"}
                  \/ \E p \in Paths : reapers[p] > 0
               THEN {"litter"} ELSE {})
    /\ UNCHANGED <<db, disk, held>>

-----------------------------------------------------------------------------
\* What t does next on its own, once the mutation it serves has begun.
Step(t) ==
    \/ CreateExists(t) \/ CreateInit(t) \/ CreateRefused(t)
    \/ CreateUndo(t) \/ CreateCommit(t)
    \/ RenameLock(t) \/ RenameFails(t) \/ RenameMove(t)
    \/ UpdateRow(t) \/ UpdateTaken(t) \/ DeadlockVictim(t)
    \/ SyncRefused(t) \/ SyncExport(t) \/ UpdateCommit(t)
    \/ DeleteCommit(t)

\* A mutation arrives, and its first statement is not refused.
Begin(t) ==
    \/ \E p \in Paths, vis \in Visibility : CreateInsert(t, p, vis)
    \/ \E i \in Ids, vis \in Visibility \cup {"KEEP"} :
          \/ Touch(t, i, vis)
          \/ \E p \in Paths : RenameRead(t, i, p, vis)
    \/ \E i \in Ids : DeleteRow(t, i)

Next ==
    \/ \E t \in Requests : Begin(t) \/ Step(t) \/ Abort(t)
    \/ \E p \in Paths : Reap(p) \/ RemoveHalf(p)
    \/ Crash

Spec == Init /\ [][Next]_vars

\* A goroutine is scheduled until it returns, and PostgreSQL queues those that
\* wait for a row or a key: one that is passed over again and again gets it.
Fairness ==
    /\ \A t \in Requests : SF_vars(Step(t))
    /\ \A p \in Paths : WF_vars(Reap(p))

FairSpec == Spec /\ Fairness

-----------------------------------------------------------------------------
(* Properties.                                                              *)

TypeOK ==
    /\ repo \in [Ids -> Row \cup {None}]
    /\ redirect \subseteq Entry
    /\ used \subseteq Ids
    /\ disk \in [Paths -> Dir \cup {None}]
    /\ reapers \in [Paths -> Nat]
    /\ tx \in [Requests -> Tx]
    /\ held \subseteq Entry
    /\ torn \subseteq Damage

\* No two repositories have one path, whatever order the creations, renames
\* and deletions of that path commit in.
KeysUnique ==
    \A i, j \in Ids : Live(i) /\ Live(j) /\ repo[i].path = repo[j].path => i = j

\* The rename of repository i has moved a directory and is not committed.
Moving(t, i) ==
    Renames(t) /\ tx[t].id = i /\ tx[t].pc \in {"update", "sync", "synced"}
Deleting(i) == \E t \in Requests : tx[t].pc = "deleted" /\ tx[t].id = i

IsHome(p, i) == disk[p] # None /\ disk[p].repo = i

\* Unless a request was cut off between its disk and its database half, or
\* met another one's remains, the directory of every repository holds that
\* repository: at the path its row has, or where its one open rename put it.
RowsHaveDirectories ==
    torn \subseteq {"litter"} =>
      \A i \in Ids :
        Live(i) /\ ~Deleting(i) =>
          \/ \E t \in Requests : Moving(t, i) /\ IsHome(tx[t].to, i)
          \/ (\A t \in Requests : ~Moving(t, i)) /\ IsHome(repo[i].path, i)

\* Unless torn, a directory belongs to a repository, to a request in flight
\* or to a goroutine that is going to remove it: no name is blocked for good.
DirectoriesHaveRows ==
    torn = {} =>
      \A p \in Paths : disk[p] # None =>
        \/ Live(disk[p].repo)
        \/ reapers[p] > 0
        \/ \E t \in Requests : tx[t].pc \in {"built", "undo"} /\ tx[t].to = p

\* Unless torn, the directory of a repository no request is working on may be
\* served by git-daemon exactly when the repository is not private, however
\* a rename and a change of visibility were interleaved.
ExportFollowsVisibility ==
    torn \subseteq {"litter"} =>
      \A i \in Ids :
        Live(i) /\ (\A t \in Requests : tx[t].id # i) =>
          disk[repo[i].path].export = Exported(repo[i].vis)

\* With one request at a time and nothing going wrong around it, the row and
\* the directory of every repository agree.  "If an error occurs after the
\* directory has been moved on disk, we have to move it back."
MovedBack ==
    \A i \in Ids :
        Live(i) /\ (\A t \in Requests : tx[t].id # i) => IsHome(repo[i].path, i)

\* The objects of a repository are in one directory at most, always.
OneDirectory ==
    \A p, q \in Paths :
        disk[p] # None /\ disk[q] # None /\ disk[p].repo = disk[q].repo => p = q

\* Every path a repository was ever committed under leads to it for as long
\* as it lives: as its path or by a redirect.
RedirectInPlace ==
    \A h \in held : h \in redirect \/ repo[h.repo].path = h.path

\* The one way to lose such a path: a rename that read the old path before
\* another rename committed and still found a directory there.
NamesKept == "stale" \in torn \/ RedirectInPlace

\* A redirect leads from a path its target did have to a live repository of
\* the same owner.
RedirectsTruthful ==
    \A d \in redirect :
        /\ d \in held
        /\ Live(d.repo)
        /\ Owner(repo[d.repo].path) = Owner(d.path)

\* The path of every repository, as NameService sees it.
Cur == [i \in Ids |-> IF Live(i) THEN repo[i].path ELSE None]
NS == INSTANCE NameService WITH cur <- Cur, alias <- redirect

\* The committed rows and redirects implement the name service, until a rename
\* worked on a path its repository no longer had.
ImplementsNames ==
    NS!Init /\ [][NS!Next \/ "stale" \in torn']_<<Cur, redirect>>

\* A path that leads to a repository, as its path or by a redirect, leads to
\* it until it is deleted or another repository is at that path.
LinksKept ==
    [][NS!KeepsLeading \/ "stale" \in torn']_<<Cur, redirect>>

\* No mutation waits forever, whatever the others hold.
RequestsEnd == \A t \in Requests : tx[t].pc # "idle" ~> tx[t].pc = "idle"

-----------------------------------------------------------------------------
(* The inductive invariants RepoStoreProofs works with.                     *)

Creating(t) == tx[t].pc \in {"init", "built"}
Updating(t) == tx[t].pc \in {"sync", "synced"}

\* Rows stay while they are locked, and locks exclude each other.
LocksHold ==
    /\ \A t \in Requests :
          tx[t].pc \in {"move", "update", "sync", "synced", "deleted"} =>
              tx[t].id \in Ids /\ Live(tx[t].id)
    /\ \A s, t \in Requests : \A i \in Ids :
          s # t /\ ForUpdates(s, i) =>
              ~KeyShares(t, i) /\ ~NoKeyUpdates(t, i) /\ ~ForUpdates(t, i)
    /\ \A s, t \in Requests : \A i \in Ids :
          s # t /\ NoKeyUpdates(s, i) => ~NoKeyUpdates(t, i)

\* What a request has in hand, by where it stands.
RequestsShaped ==
    \A t \in Requests :
        /\ tx[t].pc \in {"init", "built", "undo"} =>
              /\ tx[t].id \in Ids
              /\ tx[t].to \in Paths
              /\ ~Renames(t)
              /\ tx[t].vis # "KEEP"
        /\ tx[t].pc \in {"lock", "move", "update"} =>
              tx[t].id \in Ids /\ tx[t].from \in Paths /\ tx[t].to \in Paths
        /\ Updating(t) =>
              tx[t].id \in Ids /\ tx[t].to \in Paths /\ tx[t].vis # "KEEP"
        /\ tx[t].pc \in {"idle", "deleted"} => ~Renames(t)
        /\ tx[t].pc # "idle" => tx[t].id \in Ids
        /\ tx[t].pc = "idle" => tx[t].id = None

\* Ids are drawn once: a row, a directory or a request that has one came
\* after it was drawn, and a repository being created has one of its own.
IdsFresh ==
    /\ \A i \in Ids : Live(i) => i \in used
    /\ \A t \in Requests : tx[t].id \in used \cup {None}
    /\ \A t \in Requests : Creating(t) \/ tx[t].pc = "undo" =>
          /\ ~Live(tx[t].id)
          /\ \A s \in Requests \ {t} : tx[s].id # tx[t].id

\* A path about to be committed is nobody else's, now or pending.
KeysPending ==
    /\ \A t \in Requests : Creating(t) => ~InUse(tx[t].to)
    /\ \A t \in Requests : Updating(t) =>
          \A j \in Ids \ {tx[t].id} : Live(j) => repo[j].path # tx[t].to
    /\ \A t \in Requests : Updating(t) /\ ~Renames(t) =>
          tx[t].to = repo[tx[t].id].path
    /\ \A s, t \in Requests :
          /\ s # t
          /\ Creating(s) \/ Updating(s)
          /\ Creating(t) \/ Updating(t)
          => tx[s].to # tx[t].to

KeyInv == LocksHold /\ RequestsShaped /\ IdsFresh /\ KeysPending /\ KeysUnique

\* History and redirects tell the same story, and a rename that is not stale
\* will redirect from the path its row still has.
NameInv ==
    /\ \A h \in held : Live(h.repo)
    /\ \A i \in Ids : Live(i) => [path |-> repo[i].path, repo |-> i] \in held
    /\ \A h \in held : Owner(h.path) = Owner(repo[h.repo].path)
    /\ \A t \in Requests : Renames(t) /\ Live(tx[t].id) =>
          /\ [path |-> tx[t].from, repo |-> tx[t].id] \in held
          /\ Owner(tx[t].to) = Owner(tx[t].from)
    /\ "stale" \notin torn =>
          \A t \in Requests : Moving(t, tx[t].id) =>
              tx[t].from = repo[tx[t].id].path

\* No directory holds a repository that is still to be initialised.
DirInv ==
    /\ OneDirectory
    /\ \A p \in Paths : disk[p] # None => disk[p].repo \in used
    /\ \A t \in Requests : tx[t].pc = "init" =>
          \A p \in Paths : ~IsHome(p, tx[t].id)

\* Unless torn: where everything a request or a goroutine will touch is.
HomeInv ==
    torn \subseteq {"litter"} =>
      /\ \A t \in Requests : tx[t].pc \in {"built", "undo"} =>
            IsHome(tx[t].to, tx[t].id)
      /\ \A t \in Requests : Moving(t, tx[t].id) => tx[t].from # tx[t].to
      /\ \A s, t \in Requests : \A i \in Ids :
            Moving(s, i) /\ Moving(t, i) => s = t
      /\ \A p \in Paths : reapers[p] > 0 =>
            /\ reapers[p] = 1
            /\ disk[p] # None
            /\ Deleting(disk[p].repo) \/ ~Live(disk[p].repo)
            /\ \A t \in Requests :
                  Creating(t) \/ tx[t].pc = "undo" => tx[t].id # disk[p].repo

\* Unless torn: a directory that is neither on its way out nor in the hands of
\* a creation holds a repository that is here to stay.
Kept(p) ==
    \/ reapers[p] > 0
    \/ Live(disk[p].repo) /\ ~Deleting(disk[p].repo)
    \/ \E t \in Requests : tx[t].pc \in {"built", "undo"} /\ tx[t].to = p
RowInv == torn = {} => \A p \in Paths : disk[p] # None => Kept(p)

\* t has a change of repository i on disk, or is about to commit one.
Touching(t, i) == Moving(t, i) \/ (tx[t].pc = "synced" /\ tx[t].id = i)

\* What a directory may be served as, once committed: its creation or its one
\* update in hand decides, and otherwise the row does.
Due(i, p, vis) ==
    \/ \E t \in Requests :
          /\ tx[t].pc = "built" /\ tx[t].id = i
          /\ tx[t].to = p /\ tx[t].vis = vis
    \/ \E t \in Requests :
          /\ tx[t].pc = "synced" /\ tx[t].id = i
          /\ \A s \in Requests \ {t} : ~Moving(s, i)
          /\ tx[t].to = p /\ tx[t].vis = vis
    \/ /\ Live(i) /\ ~Deleting(i)
       /\ \A t \in Requests : ~Touching(t, i)
       /\ repo[i] = [path |-> p, vis |-> vis]
ExportInv ==
    torn \subseteq {"litter"} =>
      \A i \in Ids, p \in Paths, vis \in Visibility :
        Due(i, p, vis) => disk[p].export = Exported(vis)
=============================================================================
