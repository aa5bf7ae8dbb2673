-------------------------------- MODULE Push --------------------------------
(***************************************************************************)
(* A git push, from the SSH shell that authorises it to the builds its last *)
(* hook submits.  The shell (cmd/shell) looks the path up, fixes what it    *)
(* learnt as the push context and becomes git-receive-pack; git runs the    *)
(* hooks of update-hook, each a new process that knows that context and     *)
(* what an earlier one left in redis.  Meanwhile the repository may be      *)
(* renamed, deleted or given another visibility (one step each: RepoStore   *)
(* has their detail), and other pushes run.                                 *)
(***************************************************************************)
EXTENDS Naturals, FiniteSets

CONSTANTS
    Users,          \* accounts that push
    Owner,          \* the one whose repositories these are
    Names,          \* repository names
    Repos,          \* repository ids
    Pushes,         \* values of SRHT_PUSH
    Branches,       \* refs below refs/heads/
    Tags,           \* other refs
    Default,        \* the branch HEAD names in a new repository
    Commits,        \* what refs point to
    Manifests,      \* build manifests found in each commit
    Rules,          \* what each of them says of submitting it, see RuleAssumption
    Limit,          \* 4: builds for one ref, and what stops the next ref
    Visibility,     \* visibilities push options and settings ask for
    Asks,           \* push options clients send
    Env,            \* what happens around the pushes, see EnvAssumption
    None            \* no repository, no commit, no option

Refs == Branches \cup Tags

\* "rename", "delete", "visibility": the owner's other requests.  "expire":
\* ten minutes go by, redis drops a key.  "fail": an API call fails.
ASSUME EnvAssumption ==
    Env \subseteq {"rename", "delete", "visibility", "expire", "fail"}
ASSUME OwnerAssumption == Owner \in Users
ASSUME DefaultAssumption == Default \in Branches
ASSUME LimitAssumption == Limit \in Nat \ {0}
ASSUME AskAssumption ==
    Asks \subseteq [vis : Visibility \cup {None}, skip : BOOLEAN]
\* What schema.sql makes a repository by default, and autocreation asks for.
ASSUME VisibilityAssumption == "PRIVATE" \in Visibility
ASSUME NoneAssumption ==
    None \notin Users \cup Names \cup Repos \cup Refs \cup Commits \cup Visibility
ASSUME ManifestAssumption ==
    \A c \in Commits : IsFiniteSet(Manifests[c])
\* `submitter: git.sr.ht:` of a manifest: whether it is enabled, and the refs its
\* patterns match, none at all when it has no pattern.
ASSUME RuleAssumption ==
    \A c \in Commits : \A m \in Manifests[c] :
        Rules[c][m] \in [enabled : BOOLEAN, refs : SUBSET Refs]

VARIABLES
    name,      \* committed name of each repository, None before and after
    vis,       \* its visibility
    redirect,  \* redirects: old name, repository
    fresh,     \* ids not yet drawn
    refs,      \* the refs of each repository
    head,      \* the branch its HEAD names
    redis,     \* of each push: refs with an update key, and its options key
    push,      \* the pushes
    builds,    \* builds submitted
    torn       \* history: what happened to each push that its hooks missed

store == <<name, vis, redirect, fresh>>
git == <<refs, head>>
vars == <<store, git, redis, push, builds, torn>>

\* What the client asks for.
Options == [vis : Visibility \cup {None}, skip : BOOLEAN]
NoOptions == [vis |-> None, skip |-> FALSE]
Commands == UNION {[S -> Commits \cup {None}] : S \in SUBSET Refs \ {{}}}
NoCommands == [ref \in {} |-> None]

Build == [push : Pushes, ref : Refs, commit : Commits,
          manifest : UNION {Manifests[c] : c \in Commits},
          vis : Visibility, actual : Visibility]

Fresh == [pc |-> "idle", user |-> None, path |-> None, repo |-> None,
          vis |-> None, auto |-> FALSE, dir |-> None, asked |-> NoOptions,
          cmds |-> NoCommands, old |-> NoCommands, written |-> {},
          todo |-> {}, opts |-> NoOptions, seen |-> {}, nbuilds |-> 0,
          pick |-> None]

\* The repository whose directory is at this path.
At(n) == CHOOSE r \in Repos \cup {None} :
            IF r = None THEN \A q \in Repos : name[q] # n ELSE name[r] = n

NoBranch == [ref \in Refs |-> None]
HasRef(r, ref) == refs[r][ref] # None

Init ==
    /\ name = [r \in Repos |-> None]
    /\ vis = [r \in Repos |-> "PRIVATE"]
    /\ redirect = {}
    /\ fresh = Repos
    /\ refs = [r \in Repos |-> NoBranch]
    /\ head = [r \in Repos |-> Default]
    /\ redis = [p \in Pushes |-> [refs |-> {}, opts |-> FALSE]]
    /\ push = [p \in Pushes |-> Fresh]
    /\ builds = {}
    /\ torn = [p \in Pushes |-> {}]

Goto(p, pc) == push' = [push EXCEPT ![p].pc = pc]
InFlight(p) == push[p].pc \notin {"idle", "refused", "done"}

\* Marks every push under way that was authorised for r.
Missed(r, kind) ==
    torn' = [p \in Pushes |->
               IF InFlight(p) /\ push[p].repo = r
               THEN torn[p] \cup {kind} ELSE torn[p]]

-----------------------------------------------------------------------------
(* cmd/shell                                                                *)

\* SELECT ... WHERE repo.path: found, access is decided and the push context
\* fixed.  The owner may write; whether another user holds a grant is open.
Lookup(p, u, n) ==
    LET r   == At(n)
        who == [Fresh EXCEPT !.user = u, !.path = n]
    IN  /\ push[p].pc = "idle"
        /\ \/ /\ r = None
              /\ push' = [push EXCEPT ![p] = [who EXCEPT !.pc = "redirect"]]
           \/ /\ r # None
              /\ push' = [push EXCEPT ![p] = [who EXCEPT
                             !.pc = "exec", !.repo = r, !.vis = vis[r]]]
           \/ /\ r # None /\ u # Owner
              /\ push' = [push EXCEPT ![p] = [who EXCEPT !.pc = "refused"]]
        /\ UNCHANGED <<store, git, redis, builds, torn>>

\* SELECT ... FROM redirect: every repository that has moved is refused with
\* its new name; without a redirect only its own user may create one there.
LookupRedirect(p) ==
    /\ push[p].pc = "redirect"
    /\ IF (\E d \in redirect : d[1] = push[p].path) \/ push[p].user # Owner
       THEN Goto(p, "refused") ELSE Goto(p, "create")
    /\ UNCHANGED <<store, git, redis, builds, torn>>

\* Mutant of Autocreate: that the name is taken meanwhile goes unnoticed.
AutocreateAnyway(p) ==
    /\ push[p].pc = "create"
    /\ \E r \in fresh :
          /\ name' = [name EXCEPT ![r] = push[p].path]
          /\ fresh' = fresh \ {r}
          /\ push' = [push EXCEPT ![p].pc = "exec", ![p].repo = r,
                                  ![p].vis = "PRIVATE", ![p].auto = TRUE]
    /\ UNCHANGED <<vis, redirect, git, redis, builds, torn>>

\* createRepository(visibility: PRIVATE): any error is "not found", also one
\* that comes after the repository was made.
Autocreate(p) ==
    /\ push[p].pc = "create"
    /\ \/ /\ At(push[p].path) # None \/ "fail" \in Env
          /\ Goto(p, "refused")
          /\ UNCHANGED store
       \/ /\ At(push[p].path) = None
          /\ \E r \in fresh :
                /\ name' = [name EXCEPT ![r] = push[p].path]
                /\ fresh' = fresh \ {r}
                /\ \/ push' = [push EXCEPT
                           ![p].pc = "exec", ![p].repo = r,
                           ![p].vis = "PRIVATE", ![p].auto = TRUE]
                   \/ "fail" \in Env /\ Goto(p, "refused")
          /\ UNCHANGED <<vis, redirect>>
    /\ UNCHANGED <<git, redis, builds, torn>>

\* exec: git-receive-pack opens the directory now at the path, advertises its
\* refs, and the client sends its commands and options.
Exec(p, cmds, asked) ==
    LET r == At(push[p].path) IN
    /\ push[p].pc = "exec"
    /\ \/ /\ r = None
          /\ Goto(p, "refused")
       \/ /\ r # None
          /\ \A ref \in DOMAIN cmds : cmds[ref] # refs[r][ref]
          /\ push' = [push EXCEPT
                ![p].pc = "prereceive", ![p].dir = r, ![p].asked = asked,
                ![p].cmds = cmds,
                ![p].old = [ref \in DOMAIN cmds |-> refs[r][ref]],
                ![p].todo = DOMAIN cmds]
    /\ UNCHANGED <<store, git, redis, builds, torn>>

-----------------------------------------------------------------------------
(* The hooks, each a process of its own.                                    *)

\* deliverGitHook panics when the repository is gone.
Delivers(p) == name[push[p].repo] # None

\* hooks/pre-receive: options go to redis, the event to the API; an error
\* rejects the push, the Boolean the API returns is not looked at.
PreReceive(p) ==
    /\ push[p].pc = "prereceive"
    /\ redis' = [redis EXCEPT ![p].opts = TRUE]
    /\ \/ Delivers(p) /\ Goto(p, "update")
       \/ (~Delivers(p) \/ "fail" \in Env) /\ Goto(p, "refused")
    /\ UNCHANGED <<store, git, builds, torn>>

\* hooks/update, then git's compare-and-swap of the ref, in the directory git
\* has opened wherever it is by now.
UpdateRef(p, ref) ==
    LET r  == push[p].dir
        ok == name[r] # None /\ refs[r][ref] = push[p].old[ref]
    IN  /\ push[p].pc = "update"
        /\ ref \in push[p].todo
        /\ redis' = [redis EXCEPT ![p].refs = @ \cup {ref}]
        /\ refs' = IF ok THEN [refs EXCEPT ![r][ref] = push[p].cmds[ref]]
                   ELSE refs
        /\ push' = [push EXCEPT ![p].todo = @ \ {ref},
                                ![p].written = IF ok THEN @ \cup {ref} ELSE @]
        /\ UNCHANGED <<store, head, builds, torn>>

\* With no ref written git runs no further hook.
Updated(p) ==
    /\ push[p].pc = "update"
    /\ push[p].todo = {}
    /\ Goto(p, IF push[p].written = {} THEN "done" ELSE "postreceive")
    /\ UNCHANGED <<store, git, redis, builds, torn>>

\* hooks/post-receive: options go to redis again; that it fails changes
\* nothing.
PostReceive(p) ==
    /\ push[p].pc = "postreceive"
    /\ redis' = [redis EXCEPT ![p].opts = TRUE]
    /\ Goto(p, "postupdate")
    /\ UNCHANGED <<store, git, builds, torn>>

\* Mutant of PostUpdate: builds are submitted with the visibility of the
\* context whatever the options changed.
PostUpdateOldVisibility(p) ==
    LET opts == IF redis[p].opts THEN push[p].asked ELSE NoOptions
        r    == push[p].repo
    IN  /\ push[p].pc = "postupdate"
        /\ At(push[p].path) # None
        /\ name[r] # None
        /\ vis' = IF opts.vis = None THEN vis ELSE [vis EXCEPT ![r] = opts.vis]
        /\ push' = [push EXCEPT ![p].pc = "build", ![p].opts = opts,
                                ![p].todo = push[p].written]
        /\ UNCHANGED <<name, redirect, fresh, git, redis, builds, torn>>

\* Marks the other pushes that were authorised for r.
Revised(p, r) ==
    [q \in Pushes |-> IF q # p /\ InFlight(q) /\ push[q].repo = r
                      THEN torn[q] \cup {"revised"} ELSE torn[q]]

\* hooks/post-update: loadOptions, PlainOpen of the context's path, and
\* updateRepository by id; an error in any of them is fatal to the hook, also
\* one that comes after the repository was updated.
PostUpdate(p) ==
    LET opts == IF redis[p].opts THEN push[p].asked ELSE NoOptions
        r    == push[p].repo
        told == IF opts.vis = None THEN torn ELSE Revised(p, r)
    IN  /\ push[p].pc = "postupdate"
        /\ \/ /\ At(push[p].path) = None \/ name[r] = None \/ "fail" \in Env
              /\ Goto(p, "done")
              /\ torn' = [torn EXCEPT ![p] = @ \cup {"fatal"}]
              /\ UNCHANGED vis
           \/ /\ At(push[p].path) # None
              /\ name[r] # None
              /\ vis' = IF opts.vis = None THEN vis
                        ELSE [vis EXCEPT ![r] = opts.vis]
              /\ \/ /\ push' = [push EXCEPT
                          ![p].pc = "build", ![p].opts = opts,
                          ![p].vis = IF opts.vis = None THEN @ ELSE opts.vis,
                          ![p].todo = push[p].written]
                    /\ torn' = told
                 \/ /\ "fail" \in Env
                    /\ Goto(p, "done")
                    /\ torn' = [told EXCEPT ![p] = @ \cup {"fatal"}]
        /\ UNCHANGED <<name, redirect, fresh, git, redis, builds>>

\* What post-update finds for a ref: its update key, and the commit in the
\* repository it opened.  A deleted ref has no commit.
Found(p, ref) ==
    /\ ref \in redis[p].refs
    /\ push[p].cmds[ref] # None
    /\ At(push[p].path) = push[p].dir

Submits(p) == ~push[p].opts.skip /\ push[p].nbuilds < Limit

\* shouldBuildGitRef.
Allowed(c, m, ref) ==
    /\ Rules[c][m].enabled
    /\ Rules[c][m].refs = {} \/ ref \in Rules[c][m].refs

Wanted(c, ref) == {m \in Manifests[c] : Allowed(c, m, ref)}

Submitted(p, ref, S) ==
    {[push |-> p, ref |-> ref, commit |-> push[p].cmds[ref], manifest |-> m,
      vis |-> push[p].vis, actual |-> vis[push[p].repo]] : m \in S}

\* The sets of manifests SubmitBuild may choose, in the order of a Go map:
\* those their rules let through, Limit of them at most.
Choices(c, ref) ==
    LET most == IF Cardinality(Wanted(c, ref)) < Limit
                THEN Cardinality(Wanted(c, ref)) ELSE Limit
    IN  {S \in SUBSET Wanted(c, ref) : Cardinality(S) = most}

\* Mutant of BuildRef: the limit is only looked at between refs.
BuildRefAll(p, ref) ==
    LET c == push[p].cmds[ref] IN
    /\ push[p].pc = "build"
    /\ ref \in push[p].todo
    /\ IF Found(p, ref) /\ c \notin push[p].seen
       THEN LET S == IF Submits(p) THEN Wanted(c, ref) ELSE {} IN
            /\ builds' = builds \cup Submitted(p, ref, S)
            /\ push' = [push EXCEPT ![p].todo = @ \ {ref},
                                    ![p].seen = @ \cup {c},
                                    ![p].nbuilds = @ + Cardinality(S)]
       ELSE /\ push' = [push EXCEPT ![p].todo = @ \ {ref}]
            /\ UNCHANGED builds
    /\ UNCHANGED <<store, git, redis, torn>>

\* Mutant of BuildRef: one commit is built, not each.
BuildRefOnce(p, ref) ==
    LET c == push[p].cmds[ref] IN
    /\ push[p].pc = "build"
    /\ ref \in push[p].todo
    /\ IF Found(p, ref) /\ push[p].seen = {}
       THEN \E S \in IF Submits(p) THEN Choices(c, ref) ELSE {{}} :
            /\ builds' = builds \cup Submitted(p, ref, S)
            /\ push' = [push EXCEPT ![p].todo = @ \ {ref},
                                    ![p].seen = @ \cup {c},
                                    ![p].nbuilds = @ + Cardinality(S)]
       ELSE /\ push' = [push EXCEPT ![p].todo = @ \ {ref}]
            /\ UNCHANGED builds
    /\ UNCHANGED <<store, git, redis, torn>>

\* One turn of the loop over the refs: each commit once, and SubmitBuild.
\* It may fail before the first manifest and at each one; what it had submitted
\* before is not counted.
BuildRef(p, ref) ==
    LET c == push[p].cmds[ref]
        skipped == [push EXCEPT ![p].todo = @ \ {ref}]
    IN  /\ push[p].pc = "build"
        /\ ref \in push[p].todo
        /\ \/ /\ ~Found(p, ref) \/ c \in push[p].seen
              /\ push' = skipped
              /\ UNCHANGED <<builds, torn>>
           \/ /\ Found(p, ref)
              /\ c \notin push[p].seen
              /\ \E S \in IF Submits(p) THEN Choices(c, ref) ELSE {{}} :
                    /\ builds' = builds \cup Submitted(p, ref, S)
                    /\ push' = [skipped EXCEPT
                                  ![p].seen = @ \cup {c},
                                  ![p].nbuilds = @ + Cardinality(S)]
              /\ UNCHANGED torn
           \/ /\ "fail" \in Env
              /\ Found(p, ref)
              /\ c \notin push[p].seen
              /\ push[p].nbuilds < Limit
              /\ \E S \in SUBSET (IF Submits(p) THEN Wanted(c, ref) ELSE {}) :
                    /\ Cardinality(S) < Limit
                    /\ builds' = builds \cup Submitted(p, ref, S)
              /\ push' = [skipped EXCEPT ![p].seen = @ \cup {c}]
              /\ torn' = [torn EXCEPT ![p] = @ \cup {"failed"}]
        /\ UNCHANGED <<store, git, redis>>

\* Mutant of HeadCheck: refs that are no branches are not left out.
HeadCheckAnyRef(p) ==
    LET r == At(push[p].path) IN
    /\ push[p].pc = "build"
    /\ push[p].todo = {}
    /\ IF r = None \/ HasRef(r, head[r]) THEN Goto(p, "done")
       ELSE \E b \in push[p].written :
              push' = [push EXCEPT ![p].pc = "head", ![p].pick = b]
    /\ UNCHANGED <<store, git, redis, builds, torn>>

\* Is HEAD dangling?  The first branch of this push that is still there, or
\* else any branch, is to be the default.
HeadCheck(p) ==
    LET r      == At(push[p].path)
        pushed == {b \in Branches \cap push[p].written : HasRef(r, b)}
        any    == {b \in Branches : HasRef(r, b)}
    IN  /\ push[p].pc = "build"
        /\ push[p].todo = {}
        /\ IF r = None \/ HasRef(r, head[r]) \/ any = {}
           THEN Goto(p, "done")
           ELSE \E b \in IF pushed # {} THEN pushed ELSE any :
                  push' = [push EXCEPT ![p].pc = "head", ![p].pick = b]
        /\ torn' = IF r = None
                   THEN [torn EXCEPT ![p] = @ \cup {"fatal"}] ELSE torn
        /\ UNCHANGED <<store, git, redis, builds>>

\* Mutant of HeadSet: the branch is named and not set.
HeadSetNot(p) ==
    /\ push[p].pc = "head"
    /\ Goto(p, "done")
    /\ UNCHANGED <<store, git, redis, builds, torn>>

HeadSet(p) ==
    LET r == At(push[p].path) IN
    /\ push[p].pc = "head"
    /\ head' = IF r = None THEN head ELSE [head EXCEPT ![r] = push[p].pick]
    /\ Goto(p, "done")
    /\ torn' = IF r = None \/ ~HasRef(r, push[p].pick)
               THEN [torn EXCEPT ![p] = @ \cup {"late"}] ELSE torn
    /\ UNCHANGED <<store, refs, redis, builds>>

-----------------------------------------------------------------------------
(* What else happens.                                                       *)

Create(r, n, v) ==
    /\ r \in fresh
    /\ At(n) = None
    /\ name' = [name EXCEPT ![r] = n]
    /\ vis' = [vis EXCEPT ![r] = v]
    /\ fresh' = fresh \ {r}
    /\ UNCHANGED <<redirect, git, redis, push, builds, torn>>

Rename(r, n) ==
    /\ "rename" \in Env
    /\ name[r] # None
    /\ At(n) = None
    /\ name' = [name EXCEPT ![r] = n]
    /\ redirect' = redirect \cup {<<name[r], r>>}
    /\ Missed(r, "moved")
    /\ UNCHANGED <<vis, fresh, git, redis, push, builds>>

Delete(r) ==
    /\ "delete" \in Env
    /\ name[r] # None
    /\ name' = [name EXCEPT ![r] = None]
    /\ redirect' = {d \in redirect : d[2] # r}
    /\ Missed(r, "moved")
    /\ UNCHANGED <<vis, fresh, git, redis, push, builds>>

SetVisibility(r, v) ==
    /\ "visibility" \in Env
    /\ name[r] # None
    /\ vis[r] # v
    /\ vis' = [vis EXCEPT ![r] = v]
    /\ Missed(r, "revised")
    /\ UNCHANGED <<name, redirect, fresh, git, redis, push, builds>>

\* Ten minutes after it was set a key is gone.
Expire(p) ==
    /\ "expire" \in Env
    /\ InFlight(p)
    /\ \/ /\ redis[p].opts
          /\ redis' = [redis EXCEPT ![p].opts = FALSE]
       \/ \E ref \in redis[p].refs :
             redis' = [redis EXCEPT ![p].refs = @ \ {ref}]
    /\ torn' = [torn EXCEPT ![p] = @ \cup {"expired"}]
    /\ UNCHANGED <<store, git, push, builds>>

-----------------------------------------------------------------------------
PushStep(p) ==
    \/ LookupRedirect(p) \/ Autocreate(p)
    \/ \E cmds \in Commands, asked \in Asks : Exec(p, cmds, asked)
    \/ PreReceive(p)
    \/ \E ref \in Refs : UpdateRef(p, ref)
    \/ Updated(p) \/ PostReceive(p) \/ PostUpdate(p)
    \/ \E ref \in Refs : BuildRef(p, ref)
    \/ HeadCheck(p) \/ HeadSet(p)

Next ==
    \/ \E p \in Pushes :
          \/ \E u \in Users, n \in Names : Lookup(p, u, n)
          \/ PushStep(p)
          \/ Expire(p)
    \/ \E r \in Repos :
          \/ \E n \in Names :
                Rename(r, n) \/ \E v \in Visibility : Create(r, n, v)
          \/ Delete(r)
          \/ \E v \in Visibility : SetVisibility(r, v)

Spec == Init /\ [][Next]_vars

-----------------------------------------------------------------------------
(* Properties.                                                              *)

Phases == {"idle", "refused", "redirect", "create", "exec", "prereceive",
           "update", "postreceive", "postupdate", "build", "head", "done"}
Misses == {"moved", "revised", "expired", "fatal", "failed", "late"}

PushRecord ==
    [pc : Phases, user : Users \cup {None}, path : Names \cup {None},
     repo : Repos \cup {None}, vis : Visibility \cup {None}, auto : BOOLEAN,
     dir : Repos \cup {None}, asked : Options,
     cmds : Commands \cup {NoCommands}, old : Commands \cup {NoCommands},
     written : SUBSET Refs, todo : SUBSET Refs, opts : Options,
     seen : SUBSET Commits, nbuilds : Nat, pick : Branches \cup {None}]

\* What a push keeps of its commands is about the refs it pushes.
Commanded(u) ==
    /\ u.todo \cup u.written \subseteq DOMAIN u.cmds
    /\ DOMAIN u.old = DOMAIN u.cmds

TypeOK ==
    /\ name \in [Repos -> Names \cup {None}]
    /\ vis \in [Repos -> Visibility]
    /\ redirect \subseteq Names \X Repos
    /\ fresh \subseteq Repos
    /\ refs \in [Repos -> [Refs -> Commits \cup {None}]]
    /\ head \in [Repos -> Branches]
    /\ redis \in [Pushes -> [refs : SUBSET Refs, opts : BOOLEAN]]
    /\ push \in [Pushes -> PushRecord]
    /\ \A p \in Pushes : Commanded(push[p])
    /\ builds \subseteq Build
    /\ torn \in [Pushes -> SUBSET Misses]

BuildsOf(p) == {b \in builds : b.push = p}

\* "refusing to submit >4 builds": when every submission succeeds a push never
\* gets twice that many, and one ref never more, whatever its refs and their
\* manifests are.
BuildsBounded ==
    \A p \in Pushes :
        /\ \A ref \in Refs :
              Cardinality({b \in BuildsOf(p) : b.ref = ref}) <= Limit
        /\ "failed" \notin torn[p] => Cardinality(BuildsOf(p)) < 2 * Limit

\* A push that ended has built every commit it pushed, unless something
\* happened to it, it asked not to, the limit was reached, or one of its refs
\* with that commit, tried first, is one all its manifests exclude.
CommitsBuilt ==
    \A p \in Pushes :
        push[p].pc = "done" /\ torn[p] = {} /\ ~push[p].asked.skip =>
          \A ref \in push[p].written :
            LET c == push[p].cmds[ref] IN
            \/ c = None
            \/ \E b \in BuildsOf(p) : b.commit = c
            \/ Cardinality(BuildsOf(p)) >= Limit
            \/ \E first \in push[p].written :
                  push[p].cmds[first] = c /\ Wanted(c, first) = {}

\* Unless someone else changed it during the push, builds are submitted with
\* the visibility their repository has: options of the push included.
BuildsVisibleAlike ==
    \A b \in builds :
        "revised" \notin torn[b.push] => b.vis = b.actual

\* The repository git writes to is the one the push was authorised for,
\* unless that one was moved away from the path in between.
PushesLand ==
    \A p \in Pushes :
        push[p].dir # None /\ "moved" \notin torn[p] =>
            push[p].dir = push[p].repo

Dangling(r) ==
    /\ name[r] # None
    /\ ~HasRef(r, head[r])
    /\ \E b \in Branches : HasRef(r, b)

\* The last hook of a push to r was cut off, or r was moved meanwhile.
Cut(p, r) == push[p].dir = r /\ torn[p] \cap {"fatal", "moved"} # {}

\* Whatever branches concurrent pushes create and delete, once they have ended
\* HEAD names a branch if there is one, unless a last hook was cut off, or set
\* a branch the repository at its path no longer had.
HeadResolves ==
    \A r \in Repos :
        /\ Dangling(r)
        /\ \A p \in Pushes : ~(InFlight(p) /\ push[p].dir = r)
        => \E p \in Pushes : "late" \in torn[p] \/ Cut(p, r)

-----------------------------------------------------------------------------
(* What makes the properties above inductive.                               *)

\* What the push context holds at each phase: nothing before the lookup, a
\* path from then on, a repository once access was given, a directory once
\* git has opened one, and counts only while post-update builds.
Opened == {"prereceive", "update", "postreceive", "postupdate", "build",
           "head", "done"}
Working == ({"exec"} \cup Opened) \ {"done"}
Built == {"build", "head", "done"}

Phased(u) ==
    /\ u.pc # "idle" => u.path \in Names
    /\ u.pc \in {"idle", "redirect", "create"} => u.repo = None
    /\ u.pc \in {"exec"} \cup Opened =>
          u.repo \in Repos /\ u.vis \in Visibility
    /\ u.pc \in Opened => u.dir \in Repos
    /\ u.pc \notin Opened \cup {"refused"} => u.dir = None
    /\ u.pc \notin Opened \ {"prereceive"} => u.written = {}
    /\ u.pc \notin Built => u.seen = {} /\ u.nbuilds = 0 /\ u.opts = NoOptions
    /\ u.pc = "build" => u.todo \subseteq u.written
    /\ u.pc = "head" => u.pick \in Branches
    /\ u.pc \in {"postreceive", "postupdate", "head", "done"} =>
          u.todo = {}

PhaseInv == \A p \in Pushes : Phased(push[p])

\* Names are unique, and what an id not yet drawn keeps for its repository.
StoreInv ==
    /\ \A q, r \in Repos : name[q] = name[r] /\ name[r] # None => q = r
    /\ \A r \in fresh :
          /\ name[r] = None
          /\ vis[r] = "PRIVATE"
          /\ refs[r] = NoBranch
    /\ \A p \in Pushes : push[p].repo \notin fresh /\ push[p].dir \notin fresh

\* While nothing moved it, the repository of a push is at the path of the push.
LandInv ==
    \A p \in Pushes :
        /\ push[p].pc \in Working /\ "moved" \notin torn[p] =>
              name[push[p].repo] = push[p].path
        /\ push[p].dir # None /\ "moved" \notin torn[p] =>
              push[p].dir = push[p].repo

\* While nobody else revised it, a push knows the visibility of its repository.
KnownInv ==
    \A p \in Pushes :
        push[p].pc \in Working /\ "revised" \notin torn[p] =>
            push[p].vis = vis[push[p].repo]

\* A push will still look at the HEAD of r after what it wrote there, or is
\* about to set it to a branch r has.
Minding(p, r) ==
    /\ push[p].dir = r
    /\ \/ /\ push[p].pc \in {"update", "postreceive", "postupdate", "build"}
          /\ push[p].written # {}
       \/ push[p].pc = "head" /\ HasRef(r, push[p].pick)

HeadInv ==
    \A r \in Repos : Dangling(r) =>
        \E p \in Pushes : "late" \in torn[p] \/ Cut(p, r) \/ Minding(p, r)

\* What was submitted came from refs whose turn is over and from commits seen.
\* Unless a submission failed, what was counted is what was submitted.
CountInv ==
    /\ \A b \in builds :
          /\ push[b.push].pc \in Built
          /\ b.ref \notin push[b.push].todo
          /\ b.commit \in push[b.push].seen
    /\ \A p \in Pushes :
          /\ IsFiniteSet(BuildsOf(p))
          /\ \A ref \in Refs :
                Cardinality({b \in BuildsOf(p) : b.ref = ref}) <= Limit
          /\ "failed" \notin torn[p] =>
                /\ push[p].nbuilds = Cardinality(BuildsOf(p))
                /\ push[p].nbuilds < 2 * Limit

\* Why a commit of a push needs no more builds.
Settled(p, c) ==
    \/ \E b \in BuildsOf(p) : b.commit = c
    \/ Cardinality(BuildsOf(p)) >= Limit
    \/ \E first \in push[p].written :
          push[p].cmds[first] = c /\ Wanted(c, first) = {}

\* What a push does without building, its client asked for.
AskedInv == \A p \in Pushes : push[p].opts.skip => push[p].asked.skip

\* An update key is there for every ref written, until redis drops it.
KeyedInv ==
    \A p \in Pushes :
        "expired" \notin torn[p] => push[p].written \subseteq redis[p].refs

\* Of an undisturbed push every commit seen is settled, and so is the commit of
\* every ref whose turn is over.
SettledInv ==
    \A p \in Pushes :
        push[p].pc \in Built /\ torn[p] = {} /\ ~push[p].asked.skip =>
          /\ \A c \in push[p].seen : Settled(p, c)
          /\ \A ref \in push[p].written \ push[p].todo :
                \/ push[p].cmds[ref] = None
                \/ Settled(p, push[p].cmds[ref])
=============================================================================
