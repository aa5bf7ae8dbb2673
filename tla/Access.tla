------------------------------- MODULE Access -------------------------------
(***************************************************************************)
(* Who may read and write a repository, and whether a caller finds it.  The *)
(* rules are written out in five places: the SSH shell, the Python web      *)
(* pages, the data loaders, two resolvers and a list query, each with a     *)
(* query of its own.  A caller names a path; the program looks for a        *)
(* repository and then for a redirect, in separate transactions, while      *)
(* owners rename and delete repositories and edit ACLs and deploy keys.     *)
(*                                                                          *)
(* Names change as NameService says; RepoStore shows that they do.          *)
(***************************************************************************)
EXTENDS Naturals, FiniteSets

CONSTANTS
    Users,      \* with an account
    Owners,     \* those of them who have repositories
    Nobody,     \* the caller without an account, and a deploy key's pusher
    Names,      \* repository names
    Ids,        \* repository.id
    Keys,       \* deploy keys, by fingerprint
    Visibility, \* visibilities repositories are given
    Sessions,   \* callers
    Kinds,      \* what callers use
    None

Paths == Owners \X Names
Modes == {"RO", "RW"}
Needs == {"read", "write"}

ASSUME OwnersAssumption == Owners \subseteq Users
ASSUME VisibilityAssumption ==
    Visibility \subseteq {"PUBLIC", "UNLISTED", "PRIVATE"} /\ "PRIVATE" \in Visibility
ASSUME KindsAssumption == Kinds \subseteq {"shell", "key", "web", "api", "http"}
ASSUME NoneAssumption ==
    /\ Nobody \notin Users
    /\ None \notin Ids \cup Paths \cup Users \cup Keys \cup {Nobody}
    /\ None \notin Modes \cup Visibility \cup {"unread", "public"}
    /\ Ids \cap {"unread", "public"} = {}

VARIABLES
    cur,    \* the path of each repository, or None
    alias,  \* the redirects
    vis,    \* repository.visibility
    grant,  \* table access: the mode of each user, or None
    key,    \* table sshkey: the access of each deploy key, or None
    call,   \* the callers
    steady  \* history: the repository each caller's path led to all along, for
            \* those who may count on being told of it

rows == <<cur, alias, vis, grant, key>>
vars == <<rows, call, steady>>

NS == INSTANCE NameService

Live(i) == cur[i] # None
OwnerOf(i) == cur[i][1]

Call == [kind : Kinds \cup {None},
         who  : Users \cup Keys \cup {Nobody, None},
         path : Paths \cup {None},
         need : Needs,
         pc   : {"idle", "lookup", "access", "redirect", "create", "answered"},
         direct : {"unread"} \cup {None} \cup Visibility,
         moved  : {"unread", "public"} \cup {None} \cup Ids,
         answer : {"none", "served", "moved", "denied", "missing", "error"}]

Idle == [kind |-> None, who |-> None, path |-> None, need |-> "read",
         pc |-> "idle", direct |-> "unread", moved |-> "unread",
         answer |-> "none"]

-----------------------------------------------------------------------------
(* The rules, place by place.                                               *)

\* git.sr.ht-shell: hasAccess, of a pusher with the grant g (or none).
ShellAccess(i, u, g) ==
    CASE u = OwnerOf(i) -> {"read", "write", "manage"}
      [] u # OwnerOf(i) /\ g = None ->
            IF vis[i] \in {"PUBLIC", "UNLISTED"} THEN {"read"} ELSE {}
      [] u # OwnerOf(i) /\ g = "RO" -> {"read"}
      [] OTHER -> {"read", "write"}

\* LEFT JOIN access ON (access.repo_id = repo.id AND access.user_id = $1)
GrantOf(i, u) == IF u \in Users THEN grant[i][u] ELSE None

\* Mutant of WebRights: the mode of the row is not looked at.
WebRightsAnyMode(u, o, v, g) ==
    CASE u = Nobody -> IF v \in {"PUBLIC", "UNLISTED"} THEN {"read"} ELSE {}
      [] u = o -> {"read", "write", "manage"}
      [] u \notin {Nobody, o} /\ g # None -> {"read", "write"}
      [] OTHER -> IF v = "PRIVATE" THEN {} ELSE {"read"}

\* gitsrht.access.get_access of a repository of o's, whose visibility was read
\* with it, and of the grant u is found to have.
WebRights(u, o, v, g) ==
    CASE u = Nobody -> IF v \in {"PUBLIC", "UNLISTED"} THEN {"read"} ELSE {}
      [] u = o -> {"read", "write", "manage"}
      [] u \notin {Nobody, o} /\ g # None ->
            IF g = "RO" THEN {"read"} ELSE {"read", "write"}
      [] OTHER -> IF v = "PRIVATE" THEN {} ELSE {"read"}
GetAccess(i, u) == WebRights(u, OwnerOf(i), vis[i], GrantOf(i, u))

\* WHERE ? IN (access.user_id, repo.owner_id) OR visibility != 'PRIVATE', over
\* all the rows of access a repository has.
Visible(i, u) == GrantOf(i, u) # None \/ u = OwnerOf(i) \/ vis[i] # "PRIVATE"

\* The batch functions of the data loaders: what is found for each thing asked.
RepositoriesByID(ids, u) ==
    [i \in ids |-> IF Live(i) /\ Visible(i, u) THEN i ELSE None]
ByPath(paths, u) ==
    [p \in paths |->
        IF \E i \in Ids : cur[i] = p /\ Visible(i, u)
        THEN CHOOSE i \in Ids : cur[i] = p /\ Visible(i, u)
        ELSE None]
RepositoriesByOwnerRepoName(paths, u) == ByPath(paths, u)
RepositoriesByOwnerIDRepoName(paths, u) == ByPath(paths, u)

\* repository(rid), and the mode its field access tells.
Repository(i, u) == Live(i) /\ Visible(i, u)
ModeOf(i, u) ==
    IF u = OwnerOf(i) THEN "RW"
    ELSE IF GrantOf(i, u) = None THEN "RO" ELSE GrantOf(i, u)

\* Mutant of Listed: what is not private is listed, as elsewhere.
ListedUnlisted(o, u) ==
    {i \in Ids : /\ Live(i)
                 /\ OwnerOf(i) = o
                 /\ \/ vis[i] # "PUBLIC" /\ GrantOf(i, u) # None
                    \/ u = o
                    \/ vis[i] # "PRIVATE"}

\* user.repositories
Listed(o, u) ==
    {i \in Ids : /\ Live(i)
                 /\ OwnerOf(i) = o
                 /\ \/ vis[i] # "PUBLIC" /\ GrantOf(i, u) # None
                    \/ u = o
                    \/ vis[i] = "PUBLIC"}

-----------------------------------------------------------------------------
(* The rule the five stand for, and what a caller may rely on.              *)

Rights(i, u) ==
    (IF u = OwnerOf(i) THEN {"read", "write", "manage"} ELSE {})
    \cup (IF GrantOf(i, u) = "RW" THEN {"read", "write"} ELSE {})
    \cup (IF GrantOf(i, u) = "RO" \/ vis[i] # "PRIVATE" THEN {"read"} ELSE {})

KeyRights(i, k) ==
    CASE key[i][k] = "RW" -> {"read", "write"}
      [] key[i][k] = "RO" -> {"read"}
      [] OTHER -> {}

\* The repository c's path leads to, if it leads to one that c may use.
Usable(c) ==
    {i \in Ids : /\ c.pc # "idle"
                 /\ IF c.kind = "key"
                    THEN cur[i] = c.path /\ c.need \in KeyRights(i, c.who)
                    ELSE NS!Leads(c.path) = {i} /\ c.need \in Rights(i, c.who)}

\* Every step that changes a table.  Those it excuses are told what no longer
\* holds, or never did.
ChangedFor(excused) ==
    steady' = [s \in Sessions |->
        IF s \in excused THEN {} ELSE steady[s] \cap Usable(call[s])']
Changed == ChangedFor({})

\* The two fields of an HTTP clone's query are resolved side by side.
Cloning == {s \in Sessions : call[s].kind = "http" /\ call[s].pc = "lookup"}

\* A web page that has read i as private, and reads the ACL of u next.
Opening(i, u) ==
    {s \in Sessions : /\ call[s].pc = "access" /\ call[s].who = u
                      /\ call[s].moved = i /\ call[s].direct = "PRIVATE"}

-----------------------------------------------------------------------------
Init ==
    /\ cur = [i \in Ids |-> None]
    /\ alias = {}
    /\ vis = [i \in Ids |-> None]
    /\ grant = [i \in Ids |-> [u \in Users |-> None]]
    /\ key = [i \in Ids |-> [k \in Keys |-> None]]
    /\ call = [s \in Sessions |-> Idle]
    /\ steady = [s \in Sessions |-> {}]

\* Ids are not given out again: i stands for one that no caller has read.
New(i) == \A s \in Sessions : call[s].moved # i

CreateRepository(i, p, v) ==
    /\ New(i) /\ NS!Register(i, p)
    /\ vis' = [vis EXCEPT ![i] = v]
    /\ UNCHANGED <<grant, key, call>>
    /\ Changed

\* updateRepository with a name, and with a visibility.
RenameRepository(i, p) ==
    /\ Live(i) /\ p[1] = OwnerOf(i) /\ p # cur[i]
    /\ NS!Rename(i, p)
    /\ UNCHANGED <<vis, grant, key, call>>
    /\ ChangedFor(Cloning)

ShowRepository(i, v) ==
    /\ Live(i) /\ vis[i] # v
    /\ vis' = [vis EXCEPT ![i] = v]
    /\ UNCHANGED <<cur, alias, grant, key, call>>
    /\ Changed

\* ON DELETE CASCADE takes redirects, ACLs and deploy keys.
DeleteRepository(i) ==
    /\ NS!Forget(i)
    /\ vis' = [vis EXCEPT ![i] = None]
    /\ grant' = [grant EXCEPT ![i] = [u \in Users |-> None]]
    /\ key' = [key EXCEPT ![i] = [k \in Keys |-> None]]
    /\ UNCHANGED call
    /\ Changed

\* Mutant of UpdateACL: the owner may have a row as well.
UpdateACLAnyone(i, u, mode) ==
    /\ Live(i)
    /\ grant' = [grant EXCEPT ![i][u] = mode]
    /\ UNCHANGED <<cur, alias, vis, key, call>>
    /\ Changed

\* By the owner, who is refused a row of their own; an upsert.
UpdateACL(i, u, mode) ==
    /\ Live(i) /\ u # OwnerOf(i)
    /\ grant' = [grant EXCEPT ![i][u] = mode]
    /\ UNCHANGED <<cur, alias, vis, key, call>>
    /\ Changed

DeleteACL(i, u) ==
    /\ Live(i) /\ grant[i][u] # None
    /\ grant' = [grant EXCEPT ![i][u] = None]
    /\ UNCHANGED <<cur, alias, vis, key, call>>
    /\ ChangedFor(Opening(i, u))

\* One key may serve several repositories, and one repository once.
CreateDeployKey(i, k, mode) ==
    /\ Live(i) /\ key[i][k] = None
    /\ key' = [key EXCEPT ![i][k] = mode]
    /\ UNCHANGED <<cur, alias, vis, grant, call>>
    /\ Changed

DeleteDeployKey(i, k) ==
    /\ Live(i) /\ key[i][k] # None
    /\ key' = [key EXCEPT ![i][k] = None]
    /\ UNCHANGED <<cur, alias, vis, grant, call>>
    /\ Changed

-----------------------------------------------------------------------------
(* Callers.                                                                 *)

Step(s, c) == call' = [call EXCEPT ![s] = c]
Answer(s, a) ==
    Step(s, [call[s] EXCEPT !.pc = "answered", !.answer = a,
                            !.direct = "unread", !.moved = "unread"])
Goto(s, pc) == Step(s, [call[s] EXCEPT !.pc = pc])
At(s, kind, pc) == call[s].kind = kind /\ call[s].pc = pc
Asked == UNCHANGED <<rows, steady>>

\* acceptSSHKey: a deploy key is let in if any repository has it.
AcceptSSHKey(k) == \E i \in Ids : key[i][k] # None

\* An HTTP request "reads" if it is one of service=git-upload-pack.
Start(s, kind, u, p, need) ==
    LET c == [Idle EXCEPT !.kind = kind, !.who = u, !.path = p, !.need = need,
                          !.pc = "lookup"]
    IN  /\ call[s].pc = "idle"
        /\ CASE kind = "shell" -> u \in Users
             [] kind = "key" -> u \in Keys /\ AcceptSSHKey(u)
             [] kind = "web" -> u \in Users \cup {Nobody} /\ need = "read"
             [] kind = "api" -> u \in Users /\ need = "read"
             [] OTHER -> u = Nobody
        /\ Step(s, c)
        /\ steady' = [steady EXCEPT ![s] = Usable(c)]
        /\ UNCHANGED rows

Finish(s) ==
    /\ call[s].pc = "answered"
    /\ Step(s, Idle)
    /\ steady' = [steady EXCEPT ![s] = {}]
    /\ UNCHANGED rows

Decide(s, i, g) ==
    IF call[s].need \in ShellAccess(i, call[s].who, g)
    THEN Answer(s, "served")
    ELSE Answer(s, "denied")

\* The shell: the repository with that path and the pusher's grant.
ShellLookup(s) ==
    /\ At(s, "shell", "lookup")
    /\ \/ \E i \in Ids : /\ cur[i] = call[s].path
                         /\ Decide(s, i, GrantOf(i, call[s].who))
       \/ NS!Free(call[s].path) /\ Goto(s, "redirect")
    /\ Asked

\* Mutant of ShellRedirect: the grant is not asked for.
ShellRedirectUngranted(s) ==
    /\ At(s, "shell", "redirect")
    /\ \/ \E d \in alias :
            /\ d.path = call[s].path
            /\ IF vis[d.repo] = "PRIVATE" /\ OwnerOf(d.repo) # call[s].who
               THEN Answer(s, "denied")
               ELSE Answer(s, "moved")
       \/ /\ \A d \in alias : d.path # call[s].path
          /\ Goto(s, "create")
    /\ Asked

\* Then a redirect from it, any of them.
ShellRedirect(s) ==
    /\ At(s, "shell", "redirect")
    /\ \/ \E d \in alias :
            /\ d.path = call[s].path
            /\ IF /\ vis[d.repo] = "PRIVATE"
                  /\ OwnerOf(d.repo) # call[s].who
                  /\ GrantOf(d.repo, call[s].who) = None
               THEN Answer(s, "denied")
               ELSE Answer(s, "moved")
       \/ /\ \A d \in alias : d.path # call[s].path
          /\ Goto(s, "create")
    /\ Asked

\* Then a push below the pusher's own name makes the repository, by the
\* mutation; it may be refused for reasons of its own.
Autocreate(s) ==
    /\ At(s, "shell", "create")
    /\ \/ /\ call[s].need = "write" /\ call[s].path[1] = call[s].who
          /\ \E i \in Ids : /\ New(i) /\ NS!Register(i, call[s].path)
                            /\ vis' = [vis EXCEPT ![i] = "PRIVATE"]
          /\ Answer(s, "served")
          /\ UNCHANGED <<grant, key>>
          /\ Changed
       \/ Answer(s, "missing") /\ Asked

\* UPDATE sshkey ... FROM (repository with that path) ... RETURNING, with the
\* key standing in for a grant of a pusher who owns nothing.
KeyLookup(s) ==
    /\ At(s, "key", "lookup")
    /\ \/ \E i \in Ids : /\ cur[i] = call[s].path
                         /\ key[i][call[s].who] # None
                         /\ IF call[s].need \in
                               ShellAccess(i, Nobody, key[i][call[s].who])
                            THEN Answer(s, "served")
                            ELSE Answer(s, "denied")
       \/ /\ \A i \in Ids :
                cur[i] = call[s].path => key[i][call[s].who] = None
          /\ Answer(s, "missing")
    /\ Asked

\* get_repo_or_redir: get_repo reads the repository, and get_access decides by
\* what was read, for nobody and for the owner.
WebLookup(s) ==
    LET c == call[s] IN
    /\ At(s, "web", "lookup")
    /\ \/ \E i \in Ids :
            /\ cur[i] = c.path
            /\ IF c.who \notin {Nobody, OwnerOf(i)}
               THEN Step(s, [c EXCEPT !.pc = "access", !.direct = vis[i],
                                      !.moved = i])
               ELSE IF "read" \in GetAccess(i, c.who)
               THEN Answer(s, "served") ELSE Answer(s, "missing")
       \/ NS!Free(c.path) /\ Goto(s, "redirect")
    /\ Asked

\* For others the ACL is a query of its own, and the visibility the one read
\* before.
WebAccess(s) ==
    LET c == call[s] IN
    /\ At(s, "web", "access")
    /\ IF "read" \in WebRights(c.who, c.path[1], c.direct, grant[c.moved][c.who])
       THEN Answer(s, "served") ELSE Answer(s, "missing")
    /\ Asked

\* get_access of a Redirect is all there is.
WebRedirect(s) ==
    /\ At(s, "web", "redirect")
    /\ IF \E d \in alias : d.path = call[s].path
       THEN Answer(s, "moved") ELSE Answer(s, "missing")
    /\ Asked

\* user.repository: the loader, then the redirect, whoever asks.
ApiLookup(s) ==
    /\ At(s, "api", "lookup")
    /\ IF RepositoriesByOwnerIDRepoName({call[s].path}, call[s].who)
             [call[s].path] # None
       THEN Answer(s, "served") ELSE Goto(s, "redirect")
    /\ Asked

ApiRedirect(s) ==
    /\ At(s, "api", "redirect")
    /\ IF \E d \in alias : d.path = call[s].path
       THEN Answer(s, "moved") ELSE Answer(s, "missing")
    /\ Asked

\* git.sr.ht-http-clone sends one query with two root fields; the server
\* resolves them side by side, and repository below redirect afterwards.
RepositoryByDiskPath(s) ==
    /\ At(s, "http", "lookup")
    /\ call[s].direct = "unread"
    /\ \/ \E i \in Ids : /\ cur[i] = call[s].path
                         /\ Step(s, [call[s] EXCEPT !.direct = vis[i]])
       \/ /\ NS!Free(call[s].path)
          /\ Step(s, [call[s] EXCEPT !.direct = None])
    /\ Asked

RedirectByDiskPath(s) ==
    /\ At(s, "http", "lookup")
    /\ call[s].moved = "unread"
    /\ \/ \E d \in alias : /\ d.path = call[s].path
                           /\ Step(s, [call[s] EXCEPT !.moved = d.repo])
       \/ /\ \A d \in alias : d.path # call[s].path
          /\ Step(s, [call[s] EXCEPT !.moved = None])
    /\ Asked

\* redirect.repository, asked for with no account.
RedirectRepository(s) ==
    /\ At(s, "http", "lookup")
    /\ call[s].moved \in Ids
    /\ Step(s, [call[s] EXCEPT !.moved =
                    IF RepositoriesByID({@}, Nobody)[@] = None
                    THEN None ELSE "public"])
    /\ Asked

HttpAnswer(s) ==
    /\ At(s, "http", "lookup")
    /\ call[s].direct # "unread"
    /\ call[s].moved \in {None, "public"}
    /\ CASE call[s].direct = "PRIVATE" -> Answer(s, "missing")
         [] call[s].direct \in {"PUBLIC", "UNLISTED"} -> Answer(s, "served")
         [] OTHER -> IF call[s].moved = "public" /\ call[s].need = "read"
                     THEN Answer(s, "moved") ELSE Answer(s, "missing")
    /\ Asked

\* A query fails.  The shell takes its first one for a path that no repository
\* has, whatever the error; a deploy key's is "Repository not found".
QueryFails(s) ==
    /\ call[s].pc \in {"lookup", "access", "redirect"}
    /\ CASE At(s, "shell", "lookup") -> Goto(s, "redirect")
         [] call[s].kind = "key" -> Answer(s, "missing")
         [] OTHER -> Answer(s, "error")
    /\ steady' = [steady EXCEPT ![s] =
                     IF call[s].kind \in {"shell", "key"} THEN {} ELSE @]
    /\ UNCHANGED rows

Shell(s) == ShellLookup(s) \/ ShellRedirect(s) \/ Autocreate(s)
Web(s) == WebLookup(s) \/ WebAccess(s) \/ WebRedirect(s)
Api(s) == ApiLookup(s) \/ ApiRedirect(s)
Http(s) ==
    \/ RepositoryByDiskPath(s) \/ RedirectByDiskPath(s)
    \/ RedirectRepository(s) \/ HttpAnswer(s)

\* An answered caller leaves before the tables change again: there is nothing
\* more to decide.
Mutation ==
    /\ \A s \in Sessions : call[s].pc # "answered"
    /\ \E i \in Ids :
        \/ \E p \in Paths, v \in Visibility : CreateRepository(i, p, v)
        \/ \E p \in Paths : RenameRepository(i, p)
        \/ \E v \in Visibility : ShowRepository(i, v)
        \/ DeleteRepository(i)
        \/ \E u \in Users, m \in Modes : UpdateACL(i, u, m)
        \/ \E u \in Users : DeleteACL(i, u)
        \/ \E k \in Keys, m \in Modes : CreateDeployKey(i, k, m)
        \/ \E k \in Keys : DeleteDeployKey(i, k)

Session(s) ==
    \/ \E kind \in Kinds, u \in Users \cup Keys \cup {Nobody}, p \in Paths,
          need \in Needs : Start(s, kind, u, p, need)
    \/ Shell(s) \/ KeyLookup(s) \/ Web(s) \/ Api(s) \/ Http(s)
    \/ QueryFails(s) \/ Finish(s)

Next == Mutation \/ \E s \in Sessions : Session(s)

Spec == Init /\ [][Next]_vars

-----------------------------------------------------------------------------
(* Properties.                                                              *)

\* Rows of access and sshkey belong to repositories there are, and no owner has
\* a row of access for what is theirs (UpdateACL, ON DELETE CASCADE).
RowsBelong ==
    \A i \in Ids :
        IF Live(i) THEN grant[i][OwnerOf(i)] = None
        ELSE /\ \A u \in Users : grant[i][u] = None
             /\ \A k \in Keys : key[i][k] = None

TypeOK ==
    /\ cur \in [Ids -> Paths \cup {None}]
    /\ alias \subseteq [path : Paths, repo : Ids]
    /\ vis \in [Ids -> Visibility \cup {None}]
    /\ \A i \in Ids : Live(i) <=> vis[i] # None
    /\ grant \in [Ids -> [Users -> Modes \cup {None}]]
    /\ key \in [Ids -> [Keys -> Modes \cup {None}]]
    /\ call \in [Sessions -> Call]
    /\ steady \in [Sessions -> SUBSET Ids]
    /\ RowsBelong

\* The shell, the web pages, the resolvers and the loaders give one person the
\* same rights in one repository.  gitsrht/access.py:43 asks for it: "when
\* updating push access logic, also update git.sr.ht/git.sr.ht-shell".
DecisionsAgree ==
    \A i \in {j \in Ids : Live(j)}, u \in Users \cup {Nobody} :
        /\ GetAccess(i, u) = Rights(i, u)
        /\ u \in Users => ShellAccess(i, u, GrantOf(i, u)) = Rights(i, u)
        /\ Repository(i, u) <=> "read" \in Rights(i, u)
        /\ RepositoriesByID(Ids, u)[i] = i <=> "read" \in Rights(i, u)
        /\ RepositoriesByOwnerRepoName(Paths, u)[cur[i]] = i
              <=> "read" \in Rights(i, u)
        /\ ModeOf(i, u) = "RW" <=> "write" \in Rights(i, u)

\* A user's list shows what its reader may read, but for what is unlisted to
\* those without an ACL of their own.
ListsAgree ==
    \A i \in {j \in Ids : Live(j)}, u \in Users :
        i \in Listed(OwnerOf(i), u)
          <=> /\ "read" \in Rights(i, u)
              /\ vis[i] = "UNLISTED" => u = OwnerOf(i) \/ GrantOf(i, u) # None

\* A caller whose path leads to one repository, theirs to use, from the request
\* to the answer is not told that there is nothing or that they may not, whatever
\* is renamed between the lookup of the repository and that of the redirect.
\* Three may not count on it, and have no steady path.  The two lookups of an
\* HTTP clone run side by side, so a rename can fall between them the wrong way
\* round.  A web page decides by the visibility it read before the ACL: a guest of
\* what was private then and is public now, whose ACL is removed in between, is
\* turned away.  And the shell takes a query that fails for one that finds nothing.
SteadyPathsAreFound ==
    \A s \in Sessions :
        /\ steady[s] # {}
        /\ call[s].pc = "answered"
        => call[s].answer \notin {"missing", "denied"}
=============================================================================
