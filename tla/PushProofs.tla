----------------------------- MODULE PushProofs -----------------------------
(***************************************************************************)
(* What a push is authorised for, what it writes to and what HEAD is left   *)
(* at: theorems about Push for any users, repositories and pushes.          *)
(***************************************************************************)
EXTENDS Push, FiniteSetTheorems, TLAPS

\* A push that goes on is all that changes among the pushes.
Only(p, u) == push' = [push EXCEPT ![p] = u]

LEMMA OnlyTyped ==
    ASSUME push \in [Pushes -> PushRecord], NEW p \in Pushes,
           NEW u \in PushRecord, Only(p, u)
    PROVE  /\ push' \in [Pushes -> PushRecord]
           /\ push'[p] = u
           /\ \A q \in Pushes \ {p} : push'[q] = push[q]
BY DEF Only

LEMMA FreshTyped == Fresh \in PushRecord
BY DEF Fresh, PushRecord, Phases, NoOptions, NoCommands, Options

LEMMA GotoIs ==
    ASSUME push \in [Pushes -> PushRecord], NEW p \in Pushes, NEW pc \in Phases,
           Goto(p, pc)
    PROVE  /\ Only(p, [push[p] EXCEPT !.pc = pc])
           /\ [push[p] EXCEPT !.pc = pc] \in PushRecord
BY DEF Goto, Only, PushRecord

\* What SELECT ... WHERE path = n finds is a repository of that name, or none.
LEMMA AtFinds ==
    ASSUME NEW n \in Names
    PROVE  /\ At(n) \in Repos \cup {None}
           /\ At(n) = None => \A q \in Repos : name[q] # n
           /\ At(n) # None => At(n) \in Repos /\ name[At(n)] = n
<1> DEFINE Is(r) == IF r = None THEN \A q \in Repos : name[q] # n
                    ELSE name[r] = n
<1>1. \E r \in Repos \cup {None} : Is(r)
  <2>1. CASE \E q \in Repos : name[q] = n
    BY <2>1, NoneAssumption
  <2>2. CASE \A q \in Repos : name[q] # n
    BY <2>2
  <2> QED BY <2>1, <2>2
<1>2. At(n) \in Repos \cup {None} /\ Is(At(n))
  BY <1>1 DEF At
<1> QED BY <1>2

-----------------------------------------------------------------------------
(* Types, and what the push context holds at each phase.                    *)

TypeInv == TypeOK /\ PhaseInv

\* A record a push may be in.
Proper(u) == u \in PushRecord /\ Commanded(u) /\ Phased(u)

\* The types of all that is no push.
OthersOK ==
    /\ name \in [Repos -> Names \cup {None}]
    /\ vis \in [Repos -> Visibility]
    /\ redirect \subseteq Names \X Repos
    /\ fresh \subseteq Repos
    /\ refs \in [Repos -> [Refs -> Commits \cup {None}]]
    /\ head \in [Repos -> Branches]
    /\ redis \in [Pushes -> [refs : SUBSET Refs, opts : BOOLEAN]]
    /\ builds \subseteq Build
    /\ torn \in [Pushes -> SUBSET Misses]

LEMMA TypeInvIs ==
    TypeInv <=> /\ OthersOK
                /\ push \in [Pushes -> PushRecord]
                /\ \A p \in Pushes : Proper(push[p])
BY DEF TypeInv, TypeOK, PhaseInv, Proper, OthersOK, Commanded

\* A step of one push keeps the types when what it makes of that push is proper.
LEMMA OnlyKeeps ==
    ASSUME TypeInv, NEW p \in Pushes, NEW u, Proper(u), Only(p, u), OthersOK'
    PROVE  TypeInv'
<1>1. /\ push' \in [Pushes -> PushRecord]
      /\ push'[p] = u
      /\ \A q \in Pushes \ {p} : push'[q] = push[q]
  BY OnlyTyped, TypeInvIs DEF Proper
<1>2. \A q \in Pushes : Proper(push'[q])
  BY <1>1, TypeInvIs
<1>3. OthersOK' /\ push' \in [Pushes -> PushRecord] /\ \A q \in Pushes : Proper(push[q])'
  BY <1>1, <1>2
<1> QED BY <1>3 DEF TypeInv, TypeOK, PhaseInv, Proper, OthersOK, Commanded

\* A step that leaves the pushes alone keeps them proper.
LEMMA NoneKeeps ==
    ASSUME TypeInv, UNCHANGED push, OthersOK'
    PROVE  TypeInv'
<1>1. \A q \in Pushes : Proper(push[q])'
  BY TypeInvIs
<1> QED BY <1>1, TypeInvIs DEF TypeInv, TypeOK, PhaseInv, Proper, OthersOK, Commanded

LEMMA FreshProper == Proper(Fresh)
<1>1. Fresh \in PushRecord
  BY DEF Fresh, PushRecord, Phases, NoOptions, NoCommands, Options
<1> QED BY <1>1 DEF Proper, Phased, Commanded, Fresh, NoCommands, Opened, Built

LEMMA InitTyped == Init => TypeInv
<1> SUFFICES ASSUME Init PROVE TypeInv
  OBVIOUS
<1>1. OthersOK
  BY VisibilityAssumption, DefaultAssumption
  DEF Init, OthersOK, NoBranch, Misses
<1>2. push \in [Pushes -> PushRecord] /\ \A p \in Pushes : Proper(push[p])
  BY FreshProper DEF Init, Proper
<1> QED BY <1>1, <1>2, TypeInvIs

LEMMA LookupTyped ==
    ASSUME TypeInv, NEW p \in Pushes, NEW u \in Users, NEW n \in Names,
           Lookup(p, u, n)
    PROVE  TypeInv'
<1> DEFINE who == [Fresh EXCEPT !.user = u, !.path = n]
<1>0. OthersOK /\ UNCHANGED <<store, git, redis, builds, torn>>
  BY TypeInvIs DEF Lookup
<1>1. OthersOK'
  BY <1>0 DEF OthersOK, store, git
<1>2. At(n) \in Repos \cup {None} /\ (At(n) # None => At(n) \in Repos /\ vis[At(n)] \in Visibility)
  BY <1>0, AtFinds DEF OthersOK
<1>3. CASE Only(p, [who EXCEPT !.pc = "redirect"])
  <2> DEFINE w == [who EXCEPT !.pc = "redirect"]
  <2>1. w \in PushRecord
    BY FreshProper DEF Proper, PushRecord, Phases
  <2>2. Commanded(w)
    BY DEF Commanded, Fresh, NoCommands
  <2>3. Phased(w)
    BY DEF Phased, Fresh, Opened, Built
  <2> QED BY <1>1, <1>3, <2>1, <2>2, <2>3, OnlyKeeps DEF Proper
<1>4. CASE /\ At(n) # None
           /\ Only(p, [who EXCEPT !.pc = "exec", !.repo = At(n),
                                  !.vis = vis[At(n)]])
  <2> DEFINE w == [who EXCEPT !.pc = "exec", !.repo = At(n), !.vis = vis[At(n)]]
  <2>1. w \in PushRecord
    BY <1>2, <1>4, FreshProper DEF Proper, PushRecord, Phases
  <2>2. Commanded(w)
    BY DEF Commanded, Fresh, NoCommands
  <2>3. Phased(w)
    BY <1>2, <1>4 DEF Phased, Fresh, Opened, Built
  <2> QED BY <1>1, <1>4, <2>1, <2>2, <2>3, OnlyKeeps DEF Proper
<1>5. CASE Only(p, [who EXCEPT !.pc = "refused"])
  <2> DEFINE w == [who EXCEPT !.pc = "refused"]
  <2>1. w \in PushRecord
    BY FreshProper DEF Proper, PushRecord, Phases
  <2>2. Commanded(w)
    BY DEF Commanded, Fresh, NoCommands
  <2>3. Phased(w)
    BY DEF Phased, Fresh, Opened, Built
  <2> QED BY <1>1, <1>5, <2>1, <2>2, <2>3, OnlyKeeps DEF Proper
<1> QED BY <1>3, <1>4, <1>5 DEF Lookup, Only

LEMMA LookupRedirectTyped ==
    ASSUME TypeInv, NEW p \in Pushes, LookupRedirect(p)
    PROVE  TypeInv'
<1>1. OthersOK' /\ Proper(push[p]) /\ push[p].pc = "redirect"
  BY TypeInvIs DEF LookupRedirect, OthersOK, store, git
<1>2. PICK pc \in {"refused", "create"} : Goto(p, pc)
  BY DEF LookupRedirect
<1>3. Only(p, [push[p] EXCEPT !.pc = pc])
  BY <1>2, GotoIs, TypeInvIs DEF Phases
<1>4. Proper([push[p] EXCEPT !.pc = pc])
  BY <1>1, <1>2 DEF Proper, Phased, Commanded, Opened, Built, PushRecord, Phases
<1> QED BY <1>1, <1>3, <1>4, OnlyKeeps

LEMMA AutocreateTyped ==
    ASSUME TypeInv, NEW p \in Pushes, Autocreate(p)
    PROVE  TypeInv'
<1>1. OthersOK /\ Proper(push[p]) /\ push[p].pc = "create"
      /\ UNCHANGED <<git, redis, builds, torn>>
  BY TypeInvIs DEF Autocreate
<1>2. push[p].path \in Names
  BY <1>1 DEF Proper, Phased
<1>3. CASE Goto(p, "refused")
  <2>1. Only(p, [push[p] EXCEPT !.pc = "refused"])
    BY <1>3, GotoIs, TypeInvIs DEF Phases
  <2>2. Proper([push[p] EXCEPT !.pc = "refused"])
    BY <1>1 DEF Proper, Phased, Commanded, Opened, Built, PushRecord, Phases
  <2>3. OthersOK'
    BY <1>1, <1>2 DEF Autocreate, OthersOK, store, git
  <2> QED BY <2>1, <2>2, <2>3, OnlyKeeps
<1>4. ASSUME NEW r \in fresh,
             push' = [push EXCEPT ![p].pc = "exec", ![p].repo = r,
                                  ![p].vis = "PRIVATE", ![p].auto = TRUE]
      PROVE  TypeInv'
  <2> DEFINE u == [push[p] EXCEPT !.pc = "exec", !.repo = r,
                                  !.vis = "PRIVATE", !.auto = TRUE]
  <2>1. Only(p, u)
    BY <1>4, TypeInvIs DEF Only
  <2>2. r \in Repos
    BY <1>1 DEF OthersOK
  <2>3. u \in PushRecord
    BY <1>1, <2>2, VisibilityAssumption DEF Proper, PushRecord, Phases
  <2>4. Commanded(u)
    BY <1>1 DEF Proper, Commanded, PushRecord
  <2>5. Phased(u)
    BY <1>1, <2>2, VisibilityAssumption
    DEF Proper, Phased, Opened, Built, PushRecord
  <2>6. OthersOK'
    BY <1>1, <1>2 DEF Autocreate, OthersOK, store, git
  <2> QED BY <2>1, <2>3, <2>4, <2>5, <2>6, OnlyKeeps DEF Proper
<1> QED BY <1>3, <1>4 DEF Autocreate

LEMMA ExecTyped ==
    ASSUME TypeInv, NEW p \in Pushes, NEW cmds \in Commands, NEW asked \in Asks,
           Exec(p, cmds, asked)
    PROVE  TypeInv'
<1> DEFINE r == At(push[p].path)
<1>1. OthersOK /\ Proper(push[p]) /\ push[p].pc = "exec"
      /\ UNCHANGED <<store, git, redis, builds, torn>>
  BY TypeInvIs DEF Exec
<1>2. push[p].path \in Names
  BY <1>1 DEF Proper, Phased
<1>3. OthersOK'
  BY <1>1 DEF OthersOK, store, git
<1>4. CASE Goto(p, "refused")
  <2>1. Only(p, [push[p] EXCEPT !.pc = "refused"])
    BY <1>4, GotoIs, TypeInvIs DEF Phases
  <2>2. Proper([push[p] EXCEPT !.pc = "refused"])
    BY <1>1 DEF Proper, Phased, Commanded, Opened, Built, PushRecord, Phases
  <2> QED BY <1>3, <2>1, <2>2, OnlyKeeps
<1>5. CASE r # None
  <2> DEFINE old == [ref \in DOMAIN cmds |-> refs[r][ref]]
             u == [push[p] EXCEPT !.pc = "prereceive", !.dir = r,
                     !.asked = asked, !.cmds = cmds, !.old = old,
                     !.todo = DOMAIN cmds]
  <2>1. r \in Repos
    BY <1>2, <1>5, AtFinds
  <2>2. PICK S \in SUBSET Refs \ {{}} : cmds \in [S -> Commits \cup {None}]
    BY DEF Commands
  <2>3. DOMAIN cmds = S /\ S \subseteq Refs
    BY <2>2
  <2>4. old \in [S -> Commits \cup {None}]
    BY <1>1, <2>1, <2>3 DEF OthersOK
  <2>5. old \in Commands
    BY <2>2, <2>4 DEF Commands
  <2>6. asked \in Options
    BY AskAssumption DEF Options
  <2>7. u \in PushRecord
    BY <1>1, <2>1, <2>3, <2>5, <2>6 DEF Proper, PushRecord, Phases
  <2>8. DOMAIN old = DOMAIN cmds
    OBVIOUS
  <2>9. Commanded(u)
    BY <1>1, <2>8 DEF Proper, Commanded, Phased, Opened, PushRecord
  <2>10. Phased(u)
    BY <1>1, <2>1 DEF Proper, Phased, Opened, Built, PushRecord
  <2>11. CASE push' = [push EXCEPT ![p].pc = "prereceive", ![p].dir = r,
                       ![p].asked = asked, ![p].cmds = cmds, ![p].old = old,
                       ![p].todo = DOMAIN cmds]
    <3>1. Only(p, u)
      BY <2>11, TypeInvIs DEF Only
    <3> QED BY <1>3, <2>7, <2>9, <2>10, <3>1, OnlyKeeps DEF Proper
  <2> QED BY <1>4, <1>5, <2>11 DEF Exec
<1> QED BY <1>4, <1>5 DEF Exec

LEMMA PreReceiveTyped ==
    ASSUME TypeInv, NEW p \in Pushes, PreReceive(p)
    PROVE  TypeInv'
<1>1. OthersOK' /\ Proper(push[p]) /\ push[p].pc = "prereceive"
  BY TypeInvIs DEF PreReceive, OthersOK, store, git
<1>2. PICK pc \in {"refused", "update"} : Goto(p, pc)
  BY DEF PreReceive
<1>3. Only(p, [push[p] EXCEPT !.pc = pc])
  BY <1>2, GotoIs, TypeInvIs DEF Phases
<1>4. Proper([push[p] EXCEPT !.pc = pc])
  BY <1>1, <1>2 DEF Proper, Phased, Commanded, Opened, Built, PushRecord, Phases
<1> QED BY <1>1, <1>3, <1>4, OnlyKeeps

LEMMA UpdateRefTyped ==
    ASSUME TypeInv, NEW p \in Pushes, NEW ref \in Refs, UpdateRef(p, ref)
    PROVE  TypeInv'
<1>1. OthersOK /\ Proper(push[p]) /\ push[p].pc = "update"
      /\ ref \in push[p].todo /\ UNCHANGED <<store, head, builds, torn>>
  BY TypeInvIs DEF UpdateRef
<1>2. push[p].cmds[ref] \in Commits \cup {None} /\ push[p].dir \in Repos
  BY <1>1 DEF Proper, PushRecord, Commanded, Commands, NoCommands, Phased, Opened
<1>3. OthersOK'
  BY <1>1, <1>2 DEF UpdateRef, OthersOK, store
<1>4. PICK w \in {push[p].written, push[p].written \cup {ref}} :
         push' = [push EXCEPT ![p].todo = @ \ {ref}, ![p].written = w]
  BY TypeInvIs DEF UpdateRef
<1> DEFINE u == [push[p] EXCEPT !.todo = @ \ {ref}, !.written = w]
<1>5. Only(p, u)
  BY <1>4, TypeInvIs DEF Only
<1>6. u \in PushRecord
  <2>1. w \in SUBSET Refs /\ push[p].todo \ {ref} \in SUBSET Refs
    BY <1>1, <1>4 DEF Proper, PushRecord
  <2> QED BY <1>1, <2>1 DEF Proper, PushRecord
<1>7. Commanded(u)
  BY <1>1, <1>4 DEF Proper, Commanded, PushRecord
<1>8. Phased(u)
  BY <1>1 DEF Proper, Phased, Opened, Built, PushRecord
<1> QED BY <1>3, <1>5, <1>6, <1>7, <1>8, OnlyKeeps DEF Proper

LEMMA UpdatedTyped ==
    ASSUME TypeInv, NEW p \in Pushes, Updated(p)
    PROVE  TypeInv'
<1>1. OthersOK' /\ Proper(push[p]) /\ push[p].pc = "update"
      /\ push[p].todo = {}
  BY TypeInvIs DEF Updated, OthersOK, store, git
<1>2. PICK pc \in {"done", "postreceive"} : Goto(p, pc)
  BY DEF Updated
<1>3. Only(p, [push[p] EXCEPT !.pc = pc])
  BY <1>2, GotoIs, TypeInvIs DEF Phases
<1>4. Proper([push[p] EXCEPT !.pc = pc])
  BY <1>1, <1>2 DEF Proper, Phased, Commanded, Opened, Built, PushRecord, Phases
<1> QED BY <1>1, <1>3, <1>4, OnlyKeeps

LEMMA PostReceiveTyped ==
    ASSUME TypeInv, NEW p \in Pushes, PostReceive(p)
    PROVE  TypeInv'
<1>1. OthersOK' /\ Proper(push[p]) /\ push[p].pc = "postreceive"
  BY TypeInvIs DEF PostReceive, OthersOK, store, git
<1>2. Only(p, [push[p] EXCEPT !.pc = "postupdate"])
  BY GotoIs, TypeInvIs DEF Phases, PostReceive
<1>3. Proper([push[p] EXCEPT !.pc = "postupdate"])
  BY <1>1 DEF Proper, Phased, Commanded, Opened, Built, PushRecord, Phases
<1> QED BY <1>1, <1>2, <1>3, OnlyKeeps

LEMMA PostUpdateTyped ==
    ASSUME TypeInv, NEW p \in Pushes, PostUpdate(p)
    PROVE  TypeInv'
<1> DEFINE opts == IF redis[p].opts THEN push[p].asked ELSE NoOptions
           told == IF opts.vis = None THEN torn ELSE Revised(p, push[p].repo)
           given == IF opts.vis = None THEN vis
                    ELSE [vis EXCEPT ![push[p].repo] = opts.vis]
<1>1. OthersOK /\ Proper(push[p]) /\ push[p].pc = "postupdate"
      /\ UNCHANGED <<name, redirect, fresh, git, redis, builds>>
  BY TypeInvIs DEF PostUpdate
<1>2. push[p].repo \in Repos /\ push[p].vis \in Visibility
  BY <1>1 DEF Proper, Phased, Opened
<1>3. opts \in Options
  BY <1>1 DEF Proper, PushRecord, NoOptions, Options
<1>4. opts.vis \in Visibility \cup {None}
  BY <1>3 DEF Options
<1>5. told \in [Pushes -> SUBSET Misses] /\ given \in [Repos -> Visibility]
  BY <1>1, <1>2, <1>4 DEF Revised, OthersOK, Misses
<1>6. ASSUME NEW t \in [Pushes -> SUBSET Misses],
             Goto(p, "done"), vis' \in [Repos -> Visibility],
             torn' = [t EXCEPT ![p] = @ \cup {"fatal"}]
      PROVE  TypeInv'
  <2>1. Only(p, [push[p] EXCEPT !.pc = "done"])
    BY <1>6, TypeInvIs DEF Only, Goto
  <2>2. Proper([push[p] EXCEPT !.pc = "done"])
    BY <1>1 DEF Proper, Phased, Commanded, Opened, Built, PushRecord, Phases
  <2>3. OthersOK'
    BY <1>1, <1>6 DEF OthersOK, git, Misses
  <2> QED BY <2>1, <2>2, <2>3, OnlyKeeps
<1>7. CASE /\ push' = [push EXCEPT
                    ![p].pc = "build", ![p].opts = opts,
                    ![p].vis = IF opts.vis = None THEN @ ELSE opts.vis,
                    ![p].todo = push[p].written]
           /\ vis' = given /\ torn' = told
  <2>1. PICK v \in Visibility :
           v = IF opts.vis = None THEN push[p].vis ELSE opts.vis
    BY <1>2, <1>4
  <2>2. PICK o \in Options : o = opts
    BY <1>3
  <2> DEFINE u == [push[p] EXCEPT !.pc = "build", !.opts = o, !.vis = v,
                                  !.todo = push[p].written]
  <2>3. Only(p, u)
    BY <1>7, <2>1, <2>2, TypeInvIs DEF Only
  <2>4. u \in PushRecord
    BY <1>1 DEF Proper, PushRecord, Phases
  <2>5. Commanded(u)
    BY <1>1 DEF Proper, Commanded, PushRecord
  <2>6. Phased(u)
    BY <1>1, <1>2 DEF Proper, Phased, Opened, Built, PushRecord
  <2>7. OthersOK'
    BY <1>1, <1>5, <1>7 DEF OthersOK, git
  <2> QED BY <2>3, <2>4, <2>5, <2>6, <2>7, OnlyKeeps DEF Proper
<1>8. vis \in [Repos -> Visibility] /\ torn \in [Pushes -> SUBSET Misses]
  BY <1>1 DEF OthersOK
<1> HIDE DEF opts, told, given
<1> QED BY <1>5, <1>6, <1>7, <1>8 DEF PostUpdate, opts, told, given

\* What the rules let through is finite, and SubmitBuild submits Limit of it at
\* most, and nothing only where there is nothing.
LEMMA WantedIs ==
    ASSUME NEW c \in Commits, NEW ref, NEW S \in SUBSET Wanted(c, ref)
    PROVE  S \subseteq Manifests[c] /\ IsFiniteSet(S) /\ Cardinality(S) \in Nat
<1>1. S \subseteq Manifests[c] /\ IsFiniteSet(Manifests[c])
  BY ManifestAssumption DEF Wanted
<1> QED BY <1>1, FS_Subset, FS_CardinalityType

LEMMA ChosenIs ==
    ASSUME NEW c \in Commits, NEW ref \in Refs, NEW S \in Choices(c, ref)
    PROVE  /\ S \subseteq Manifests[c]
           /\ IsFiniteSet(S)
           /\ Cardinality(S) \in Nat
           /\ Cardinality(S) <= Limit
           /\ S = {} => Wanted(c, ref) = {}
<1>1. /\ IsFiniteSet(Wanted(c, ref)) /\ Cardinality(Wanted(c, ref)) \in Nat
      /\ Limit \in Nat \ {0}
  BY WantedIs, LimitAssumption
<1>2. S \in SUBSET Wanted(c, ref)
      /\ Cardinality(S) = IF Cardinality(Wanted(c, ref)) < Limit
                          THEN Cardinality(Wanted(c, ref)) ELSE Limit
  BY DEF Choices
<1>3. S = {} => Wanted(c, ref) = {}
  BY <1>1, <1>2, FS_EmptySet
<1> QED BY <1>1, <1>2, <1>3, WantedIs

\* What is submitted for a ref of a push is of the build type.
LEMMA SubmittedTyped ==
    ASSUME TypeInv, NEW p \in Pushes, push[p].pc = "build",
           NEW ref \in push[p].todo, push[p].cmds[ref] # None,
           NEW S \in SUBSET Manifests[push[p].cmds[ref]]
    PROVE  Submitted(p, ref, S) \subseteq Build
<1>1. OthersOK /\ Proper(push[p])
  BY TypeInvIs
<1>2. ref \in Refs /\ push[p].cmds[ref] \in Commits
  BY <1>1 DEF Proper, PushRecord, Commanded, Commands, NoCommands
<1>3. push[p].vis \in Visibility /\ vis[push[p].repo] \in Visibility
  BY <1>1 DEF Proper, Phased, Opened, OthersOK
<1> QED BY <1>2, <1>3 DEF Submitted, Build

\* What a turn of the loop over the refs makes of its push.
Turned(p, ref, k, n) ==
    [push[p] EXCEPT !.todo = @ \ {ref}, !.seen = k, !.nbuilds = n]

LEMMA TurnTyped ==
    ASSUME TypeInv, NEW p \in Pushes, push[p].pc = "build", NEW ref \in Refs,
           NEW k \in SUBSET Commits, NEW n \in Nat, NEW T \in SUBSET Build,
           Only(p, Turned(p, ref, k, n)),
           builds' = builds \cup T,
           torn' \in {torn, [torn EXCEPT ![p] = @ \cup {"failed"}]},
           UNCHANGED <<store, git, redis>>
    PROVE  TypeInv'
<1>1. OthersOK /\ Proper(push[p])
  BY TypeInvIs
<1> DEFINE u == Turned(p, ref, k, n)
<1>2. u \in PushRecord
  BY <1>1 DEF Proper, PushRecord, Turned
<1>3. Commanded(u)
  BY <1>1 DEF Proper, Commanded, PushRecord, Turned
<1>4. Phased(u)
  BY <1>1 DEF Proper, Phased, Opened, Built, PushRecord, Turned
<1>5. torn' \in [Pushes -> SUBSET Misses]
  BY <1>1 DEF OthersOK, Misses
<1>6. OthersOK'
  BY <1>1, <1>5 DEF OthersOK, store, git
<1> QED BY <1>2, <1>3, <1>4, <1>6, OnlyKeeps DEF Proper

\* The three ways a turn ends: the ref is passed over, its manifests chosen are
\* submitted, or submitting fails at one of them.
LEMMA BuildRefIs ==
    ASSUME TypeInv, NEW p \in Pushes, NEW ref \in Refs, BuildRef(p, ref)
    PROVE  LET c == push[p].cmds[ref] IN
           \/ /\ ~Found(p, ref) \/ c \in push[p].seen
              /\ Only(p, Turned(p, ref, push[p].seen, push[p].nbuilds))
              /\ UNCHANGED <<builds, torn>>
           \/ /\ Found(p, ref) /\ c \notin push[p].seen
              /\ \E S \in IF Submits(p) THEN Choices(c, ref) ELSE {{}} :
                    /\ builds' = builds \cup Submitted(p, ref, S)
                    /\ Only(p, Turned(p, ref, push[p].seen \cup {c},
                                      push[p].nbuilds + Cardinality(S)))
              /\ UNCHANGED torn
           \/ /\ Found(p, ref) /\ c \notin push[p].seen
              /\ \E S \in SUBSET Wanted(c, ref) :
                    /\ Cardinality(S) < Limit
                    /\ builds' = builds \cup Submitted(p, ref, S)
              /\ Only(p, Turned(p, ref, push[p].seen \cup {c}, push[p].nbuilds))
              /\ torn' = [torn EXCEPT ![p] = @ \cup {"failed"}]
<1> DEFINE c == push[p].cmds[ref]
<1>1. push \in [Pushes -> PushRecord]
  BY TypeInvIs
<1> DEFINE skipped == [push EXCEPT ![p].todo = @ \ {ref}]
           SubmitsAll ==
             \E S \in IF Submits(p) THEN Choices(c, ref) ELSE {{}} :
                 /\ builds' = builds \cup Submitted(p, ref, S)
                 /\ push' = [skipped EXCEPT
                               ![p].seen = @ \cup {c},
                               ![p].nbuilds = @ + Cardinality(S)]
           SubmitsSome ==
             \E S \in SUBSET (IF Submits(p) THEN Wanted(c, ref) ELSE {}) :
                 /\ Cardinality(S) < Limit
                 /\ builds' = builds \cup Submitted(p, ref, S)
<1>2. CASE /\ ~Found(p, ref) \/ c \in push[p].seen
           /\ push' = skipped
           /\ UNCHANGED <<builds, torn>>
  <2>1. Only(p, Turned(p, ref, push[p].seen, push[p].nbuilds))
    BY <1>1, <1>2 DEF Only, Turned, PushRecord
  <2> QED BY <1>2, <2>1
<1>3. CASE /\ Found(p, ref) /\ c \notin push[p].seen
           /\ SubmitsAll
           /\ UNCHANGED torn
  <2>1. PICK S \in IF Submits(p) THEN Choices(c, ref) ELSE {{}} :
                 /\ builds' = builds \cup Submitted(p, ref, S)
                 /\ push' = [skipped EXCEPT
                               ![p].seen = @ \cup {c},
                               ![p].nbuilds = @ + Cardinality(S)]
    BY <1>3
  <2> DEFINE k == push[p].seen \cup {c}
             n == push[p].nbuilds + Cardinality(S)
  <2>2. Only(p, Turned(p, ref, k, n))
    <3>1. push' = [skipped EXCEPT ![p].seen = k, ![p].nbuilds = n]
      BY <1>1, <2>1 DEF PushRecord
    <3> HIDE DEF c, k, n
    <3> QED BY <1>1, <3>1 DEF Only, Turned, PushRecord
  <2>3. \E T \in IF Submits(p) THEN Choices(c, ref) ELSE {{}} :
           /\ builds' = builds \cup Submitted(p, ref, T)
           /\ Only(p, Turned(p, ref, push[p].seen \cup {c},
                             push[p].nbuilds + Cardinality(T)))
    <3> WITNESS S \in IF Submits(p) THEN Choices(c, ref) ELSE {{}}
    <3> QED BY <2>1, <2>2
  <2> QED BY <1>3, <2>3
<1>4. CASE /\ Found(p, ref) /\ c \notin push[p].seen
           /\ SubmitsSome
           /\ push' = [skipped EXCEPT ![p].seen = @ \cup {c}]
           /\ torn' = [torn EXCEPT ![p] = @ \cup {"failed"}]
  <2>1. Only(p, Turned(p, ref, push[p].seen \cup {c}, push[p].nbuilds))
    BY <1>1, <1>4 DEF Only, Turned, PushRecord
  <2> QED BY <1>4, <2>1
<1> QED BY <1>2, <1>3, <1>4 DEF BuildRef

LEMMA BuildRefTyped ==
    ASSUME TypeInv, NEW p \in Pushes, NEW ref \in Refs, BuildRef(p, ref)
    PROVE  TypeInv'
<1> DEFINE c == push[p].cmds[ref]
<1>1. OthersOK /\ Proper(push[p]) /\ push[p].pc = "build"
      /\ ref \in push[p].todo /\ UNCHANGED <<store, git, redis>>
  BY TypeInvIs DEF BuildRef
<1>2. push[p].seen \in SUBSET Commits /\ push[p].nbuilds \in Nat
  BY <1>1 DEF Proper, PushRecord
<1>3. Found(p, ref) => c \in Commits
  BY <1>1 DEF Proper, PushRecord, Commanded, Commands, NoCommands, Found
<1>4. CASE /\ Only(p, Turned(p, ref, push[p].seen, push[p].nbuilds))
           /\ UNCHANGED <<builds, torn>>
  <2>1. builds' = builds \cup {} /\ {} \in SUBSET Build
    BY <1>4
  <2> QED BY <1>1, <1>2, <1>4, <2>1, TurnTyped
<1>5. ASSUME Found(p, ref), UNCHANGED torn,
             NEW S \in IF Submits(p) THEN Choices(c, ref) ELSE {{}},
             builds' = builds \cup Submitted(p, ref, S),
             Only(p, Turned(p, ref, push[p].seen \cup {c},
                            push[p].nbuilds + Cardinality(S)))
      PROVE  TypeInv'
  <2>1. S \subseteq Manifests[c] /\ Cardinality(S) \in Nat
    <3>1. CASE S = {}
      BY <3>1, FS_EmptySet
    <3>2. CASE S \in Choices(c, ref)
      BY <1>3, <1>5, <3>2, ChosenIs
    <3> QED BY <1>5, <3>1, <3>2
  <2>2. Submitted(p, ref, S) \in SUBSET Build
    BY <1>1, <1>5, <2>1, SubmittedTyped DEF Found
  <2>3. push[p].seen \cup {c} \in SUBSET Commits
        /\ push[p].nbuilds + Cardinality(S) \in Nat
    BY <1>2, <1>3, <1>5, <2>1
  <2> QED BY <1>1, <1>5, <2>2, <2>3, TurnTyped
<1>6. ASSUME Found(p, ref), NEW S \in SUBSET Wanted(c, ref),
             builds' = builds \cup Submitted(p, ref, S),
             Only(p, Turned(p, ref, push[p].seen \cup {c}, push[p].nbuilds)),
             torn' = [torn EXCEPT ![p] = @ \cup {"failed"}]
      PROVE  TypeInv'
  <2>1. S \subseteq Manifests[c]
    BY <1>3, <1>6, WantedIs
  <2>2. Submitted(p, ref, S) \in SUBSET Build
    BY <1>1, <1>6, <2>1, SubmittedTyped DEF Found
  <2>3. push[p].seen \cup {c} \in SUBSET Commits
    BY <1>2, <1>3, <1>6
  <2> QED BY <1>1, <1>2, <1>6, <2>2, <2>3, TurnTyped
<1> QED BY <1>4, <1>5, <1>6, BuildRefIs

LEMMA HeadCheckTyped ==
    ASSUME TypeInv, NEW p \in Pushes, HeadCheck(p)
    PROVE  TypeInv'
<1>1. OthersOK /\ Proper(push[p]) /\ push[p].pc = "build"
      /\ push[p].todo = {} /\ UNCHANGED <<store, git, redis, builds>>
  BY TypeInvIs DEF HeadCheck
<1>2. torn' \in [Pushes -> SUBSET Misses]
  BY <1>1 DEF HeadCheck, OthersOK, Misses
<1>3. OthersOK'
  BY <1>1, <1>2 DEF OthersOK, store, git
<1>4. CASE Goto(p, "done")
  <2>1. Only(p, [push[p] EXCEPT !.pc = "done"])
    BY <1>4, GotoIs, TypeInvIs DEF Phases
  <2>2. Proper([push[p] EXCEPT !.pc = "done"])
    BY <1>1 DEF Proper, Phased, Commanded, Opened, Built, PushRecord, Phases
  <2> QED BY <1>3, <2>1, <2>2, OnlyKeeps
<1>5. ASSUME NEW b \in Branches,
             push' = [push EXCEPT ![p].pc = "head", ![p].pick = b]
      PROVE  TypeInv'
  <2>1. Only(p, [push[p] EXCEPT !.pc = "head", !.pick = b])
    BY <1>5, TypeInvIs DEF Only
  <2> DEFINE w == [push[p] EXCEPT !.pc = "head", !.pick = b]
  <2>2. w \in PushRecord
    BY <1>1 DEF Proper, PushRecord, Phases
  <2>3. Commanded(w)
    BY <1>1 DEF Proper, Commanded, PushRecord
  <2>4. Phased(w)
    BY <1>1 DEF Proper, Phased, Opened, Built, PushRecord
  <2> QED BY <1>3, <2>1, <2>2, <2>3, <2>4, OnlyKeeps DEF Proper
<1> QED BY <1>4, <1>5 DEF HeadCheck

LEMMA HeadSetTyped ==
    ASSUME TypeInv, NEW p \in Pushes, HeadSet(p)
    PROVE  TypeInv'
<1>1. OthersOK /\ Proper(push[p]) /\ push[p].pc = "head"
      /\ UNCHANGED <<store, refs, redis, builds>>
  BY TypeInvIs DEF HeadSet
<1>2. push[p].path \in Names /\ push[p].pick \in Branches
  BY <1>1 DEF Proper, Phased
<1>3. head' \in [Repos -> Branches] /\ torn' \in [Pushes -> SUBSET Misses]
  BY <1>1, <1>2 DEF HeadSet, OthersOK, Misses
<1>4. OthersOK'
  BY <1>1, <1>3 DEF OthersOK, store
<1>5. Only(p, [push[p] EXCEPT !.pc = "done"])
  BY GotoIs, TypeInvIs DEF Phases, HeadSet
<1>6. Proper([push[p] EXCEPT !.pc = "done"])
  BY <1>1 DEF Proper, Phased, Commanded, Opened, Built, PushRecord, Phases
<1> QED BY <1>4, <1>5, <1>6, OnlyKeeps

LEMMA CreateTyped ==
    ASSUME TypeInv, NEW r \in Repos, NEW n \in Names, NEW v \in Visibility,
           Create(r, n, v)
    PROVE  TypeInv'
<1>1. OthersOK' /\ UNCHANGED push
  BY TypeInvIs DEF Create, OthersOK, git
<1> QED BY <1>1, NoneKeeps

LEMMA MissedTyped ==
    ASSUME OthersOK, NEW r \in Repos, NEW kind \in Misses, Missed(r, kind)
    PROVE  torn' \in [Pushes -> SUBSET Misses]
BY DEF OthersOK, Missed

LEMMA RenameTyped ==
    ASSUME TypeInv, NEW r \in Repos, NEW n \in Names, Rename(r, n)
    PROVE  TypeInv'
<1>1. OthersOK /\ torn' \in [Pushes -> SUBSET Misses]
  BY TypeInvIs, MissedTyped DEF Rename, Misses
<1>2. OthersOK' /\ UNCHANGED push
  BY <1>1 DEF Rename, OthersOK, git
<1> QED BY <1>2, NoneKeeps

LEMMA DeleteTyped ==
    ASSUME TypeInv, NEW r \in Repos, Delete(r)
    PROVE  TypeInv'
<1>1. OthersOK /\ torn' \in [Pushes -> SUBSET Misses]
  BY TypeInvIs, MissedTyped DEF Delete, Misses
<1>2. OthersOK' /\ UNCHANGED push
  BY <1>1 DEF Delete, OthersOK, git
<1> QED BY <1>2, NoneKeeps

LEMMA SetVisibilityTyped ==
    ASSUME TypeInv, NEW r \in Repos, NEW v \in Visibility, SetVisibility(r, v)
    PROVE  TypeInv'
<1>1. OthersOK /\ torn' \in [Pushes -> SUBSET Misses]
  BY TypeInvIs, MissedTyped DEF SetVisibility, Misses
<1>2. OthersOK' /\ UNCHANGED push
  BY <1>1 DEF SetVisibility, OthersOK, git
<1> QED BY <1>2, NoneKeeps

LEMMA ExpireTyped ==
    ASSUME TypeInv, NEW p \in Pushes, Expire(p)
    PROVE  TypeInv'
<1>1. OthersOK
  BY TypeInvIs
<1>2. torn' \in [Pushes -> SUBSET Misses]
  BY <1>1 DEF Expire, OthersOK, Misses
<1>3. redis' \in [Pushes -> [refs : SUBSET Refs, opts : BOOLEAN]]
  <2>1. CASE redis' = [redis EXCEPT ![p].opts = FALSE]
    BY <1>1, <2>1 DEF OthersOK
  <2>2. ASSUME NEW ref \in redis[p].refs,
               redis' = [redis EXCEPT ![p].refs = @ \ {ref}]
        PROVE  <1>3
    BY <1>1, <2>2 DEF OthersOK
  <2> QED BY <2>1, <2>2 DEF Expire
<1>4. OthersOK' /\ UNCHANGED push
  BY <1>1, <1>2, <1>3 DEF Expire, OthersOK, store, git
<1> QED BY <1>4, NoneKeeps

LEMMA TypeStep == TypeInv /\ [Next]_vars => TypeInv'
<1> SUFFICES ASSUME TypeInv, [Next]_vars PROVE TypeInv'
  OBVIOUS
<1>1. ASSUME NEW p \in Pushes, NEW u \in Users, NEW n \in Names, Lookup(p, u, n)
      PROVE  TypeInv'
  BY <1>1, LookupTyped
<1>2. ASSUME NEW p \in Pushes, PushStep(p)
      PROVE  TypeInv'
  BY <1>2, LookupRedirectTyped, AutocreateTyped, ExecTyped, PreReceiveTyped,
     UpdateRefTyped, UpdatedTyped, PostReceiveTyped, PostUpdateTyped,
     BuildRefTyped, HeadCheckTyped, HeadSetTyped
  DEF PushStep
<1>3. ASSUME NEW p \in Pushes, Expire(p)
      PROVE  TypeInv'
  BY <1>3, ExpireTyped
<1>4. ASSUME NEW r \in Repos, NEW n \in Names, NEW v \in Visibility,
             Create(r, n, v)
      PROVE  TypeInv'
  BY <1>4, CreateTyped
<1>5. ASSUME NEW r \in Repos, NEW n \in Names, Rename(r, n)
      PROVE  TypeInv'
  BY <1>5, RenameTyped
<1>6. ASSUME NEW r \in Repos, Delete(r)
      PROVE  TypeInv'
  BY <1>6, DeleteTyped
<1>7. ASSUME NEW r \in Repos, NEW v \in Visibility, SetVisibility(r, v)
      PROVE  TypeInv'
  BY <1>7, SetVisibilityTyped
<1>8. CASE UNCHANGED vars
  <2>1. OthersOK' /\ UNCHANGED push
    BY <1>8, TypeInvIs DEF OthersOK, vars, store, git
  <2> QED BY <2>1, NoneKeeps
<1> QED BY <1>1, <1>2, <1>3, <1>4, <1>5, <1>6, <1>7, <1>8 DEF Next

LEMMA TypeAlways == Spec => []TypeInv
BY InitTyped, TypeStep, PTL DEF Spec

\* Whatever hooks run, calls fail and requests come in between, the state of
\* the pushes keeps its type.
THEOREM PushTyped == Spec => []TypeOK
<1>1. TypeInv => TypeOK
  BY DEF TypeInv
<1> QED BY <1>1, TypeAlways, PTL

-----------------------------------------------------------------------------
(* What a push was authorised for.                                          *)

ContextInv == StoreInv /\ LandInv /\ KnownInv

\* A step after which every push still has what it was authorised for.
Keeps ==
    /\ UNCHANGED <<name, vis, fresh>>
    /\ \A r \in fresh : refs'[r] = refs[r]
    /\ \A q \in Pushes :
          /\ push'[q].repo = push[q].repo
          /\ push'[q].dir = push[q].dir
          /\ push'[q].path = push[q].path
          /\ push'[q].vis = push[q].vis
          /\ push'[q].pc \in Working => push[q].pc \in Working
          /\ torn[q] \subseteq torn'[q]

LEMMA KeepsContext ==
    ASSUME ContextInv, Keeps
    PROVE  ContextInv'
<1>1. StoreInv'
  BY DEF ContextInv, Keeps, StoreInv, NoBranch
<1>2. LandInv'
  BY DEF ContextInv, Keeps, LandInv
<1>3. KnownInv'
  BY DEF ContextInv, Keeps, KnownInv
<1> QED BY <1>1, <1>2, <1>3 DEF ContextInv

LEMMA InitContext == Init => ContextInv
<1> SUFFICES ASSUME Init PROVE ContextInv
  OBVIOUS
<1>1. StoreInv
  BY NoneAssumption DEF Init, StoreInv, Fresh
<1>2. LandInv /\ KnownInv
  BY DEF Init, LandInv, KnownInv, Fresh, Working, Opened
<1> QED BY <1>1, <1>2 DEF ContextInv

\* Steps of a push after it has opened its directory, but for the options.
LEMMA HooksKeep ==
    ASSUME TypeInv, ContextInv, NEW p \in Pushes,
           \/ LookupRedirect(p) \/ PreReceive(p) \/ Updated(p) \/ PostReceive(p)
           \/ HeadCheck(p) \/ HeadSet(p)
    PROVE  ContextInv'
<1>1. push \in [Pushes -> PushRecord] /\ torn \in [Pushes -> SUBSET Misses]
      /\ UNCHANGED <<store, refs>>
  BY TypeInvIs
  DEF OthersOK, LookupRedirect, PreReceive, Updated, PostReceive, HeadCheck,
      HeadSet, git
<1>2. \A q \in Pushes : torn[q] \subseteq torn'[q]
  BY <1>1
  DEF LookupRedirect, PreReceive, Updated, PostReceive, HeadCheck, HeadSet
<1>3. \A q \in Pushes : /\ push'[q].repo = push[q].repo
                        /\ push'[q].dir = push[q].dir
                        /\ push'[q].path = push[q].path
                        /\ push'[q].vis = push[q].vis
                        /\ push'[q].pc \in Working => push[q].pc \in Working
  <2>1. CASE LookupRedirect(p)
    BY <1>1, <2>1 DEF LookupRedirect, Goto, PushRecord, Working, Opened
  <2>2. CASE PreReceive(p) \/ Updated(p) \/ PostReceive(p) \/ HeadSet(p)
    BY <1>1, <2>2
    DEF PreReceive, Updated, PostReceive, HeadSet, Goto, PushRecord, Working, Opened
  <2>3. CASE HeadCheck(p)
    BY <1>1, <2>3 DEF HeadCheck, Goto, PushRecord, Working, Opened
  <2> QED BY <2>1, <2>2, <2>3
<1>4. Keeps
  BY <1>1, <1>2, <1>3 DEF Keeps, store
<1> QED BY <1>4, KeepsContext

LEMMA UpdateRefKeeps ==
    ASSUME TypeInv, ContextInv, NEW p \in Pushes, NEW ref \in Refs,
           UpdateRef(p, ref)
    PROVE  ContextInv'
<1>1. push \in [Pushes -> PushRecord] /\ refs \in [Repos -> [Refs -> Commits \cup {None}]]
      /\ UNCHANGED <<store, torn>> /\ fresh \subseteq Repos
  BY TypeInvIs DEF OthersOK, UpdateRef
<1>2. push[p].dir \notin fresh
  BY DEF ContextInv, StoreInv
<1>3. \A r \in fresh : refs'[r] = refs[r]
  BY <1>1, <1>2 DEF UpdateRef
<1>4. \A q \in Pushes : /\ push'[q].repo = push[q].repo
                        /\ push'[q].dir = push[q].dir
                        /\ push'[q].path = push[q].path
                        /\ push'[q].vis = push[q].vis
                        /\ push'[q].pc = push[q].pc
  BY <1>1 DEF UpdateRef, PushRecord
<1>5. Keeps
  BY <1>1, <1>3, <1>4 DEF Keeps, store
<1> QED BY <1>5, KeepsContext

LEMMA BuildRefKeeps ==
    ASSUME TypeInv, ContextInv, NEW p \in Pushes, NEW ref \in Refs,
           BuildRef(p, ref)
    PROVE  ContextInv'
<1>1. push \in [Pushes -> PushRecord] /\ torn \in [Pushes -> SUBSET Misses]
      /\ UNCHANGED <<store, git>>
  BY TypeInvIs DEF OthersOK, BuildRef
<1>2. PICK k, n : Only(p, Turned(p, ref, k, n))
  BY BuildRefIs
<1>3. \A q \in Pushes : /\ push'[q].repo = push[q].repo
                        /\ push'[q].dir = push[q].dir
                        /\ push'[q].path = push[q].path
                        /\ push'[q].vis = push[q].vis
                        /\ push'[q].pc = push[q].pc
  BY <1>1, <1>2 DEF Only, Turned, PushRecord
<1>4. \A q \in Pushes : torn[q] \subseteq torn'[q]
  BY <1>1 DEF BuildRef
<1>5. Keeps
  BY <1>1, <1>3, <1>4 DEF Keeps, store, git
<1> QED BY <1>5, KeepsContext

LEMMA ExpireKeeps ==
    ASSUME TypeInv, ContextInv, NEW p \in Pushes, Expire(p)
    PROVE  ContextInv'
<1>1. Keeps
  BY TypeInvIs DEF OthersOK, Expire, Keeps, store, git
<1> QED BY <1>1, KeepsContext

\* Names being unique, the path of a repository leads to it.
LEMMA AtItsName ==
    ASSUME StoreInv, NEW q \in Repos, name[q] \in Names
    PROVE  At(name[q]) = q
<1>1. /\ At(name[q]) # None
      /\ At(name[q]) \in Repos /\ name[At(name[q])] = name[q]
  BY AtFinds
<1> QED BY <1>1, NoneAssumption DEF StoreInv

LEMMA LookupKeeps ==
    ASSUME TypeInv, ContextInv, NEW p \in Pushes, NEW u \in Users, NEW n \in Names,
           Lookup(p, u, n)
    PROVE  ContextInv'
<1>1. push \in [Pushes -> PushRecord] /\ fresh \subseteq Repos
      /\ UNCHANGED <<store, git, torn>>
  BY TypeInvIs DEF OthersOK, Lookup
<1>2. \A q \in Pushes \ {p} : push'[q] = push[q]
  BY <1>1 DEF Lookup
<1>3. At(n) # None => At(n) \in Repos /\ name[At(n)] = n
  BY AtFinds
<1>4. /\ push'[p].path = n /\ push'[p].dir = None
      /\ \/ push'[p].repo = None /\ push'[p].pc \notin Working
         \/ /\ At(n) # None /\ push'[p].repo = At(n)
            /\ push'[p].vis = vis[At(n)]
  <2> DEFINE who == [Fresh EXCEPT !.user = u, !.path = n]
  <2>1. CASE push' = [push EXCEPT ![p] = [who EXCEPT !.pc = "redirect"]]
    BY <1>1, <2>1 DEF Fresh, Working, Opened
  <2>2. CASE At(n) # None /\ push' = [push EXCEPT ![p] = [who EXCEPT
                               !.pc = "exec", !.repo = At(n), !.vis = vis[At(n)]]]
    BY <1>1, <2>2 DEF Fresh
  <2>3. CASE push' = [push EXCEPT ![p] = [who EXCEPT !.pc = "refused"]]
    BY <1>1, <2>3 DEF Fresh, Working, Opened
  <2> QED BY <2>1, <2>2, <2>3 DEF Lookup
<1>5. At(n) # None => At(n) \notin fresh
  BY <1>3, NoneAssumption DEF ContextInv, StoreInv
<1>6. StoreInv'
  BY <1>1, <1>2, <1>4, <1>5, NoneAssumption
  DEF ContextInv, StoreInv, store, git, NoBranch
<1>7. LandInv'
  BY <1>1, <1>2, <1>3, <1>4 DEF ContextInv, LandInv, store
<1>8. KnownInv'
  BY <1>1, <1>2, <1>4 DEF ContextInv, KnownInv, store
<1> QED BY <1>6, <1>7, <1>8 DEF ContextInv

LEMMA AutocreateKeeps ==
    ASSUME TypeInv, ContextInv, NEW p \in Pushes, Autocreate(p)
    PROVE  ContextInv'
<1>1. push \in [Pushes -> PushRecord] /\ OthersOK
      /\ UNCHANGED <<vis, git, torn>> /\ push[p].pc = "create"
  BY TypeInvIs DEF Autocreate, store
<1>2. \A q \in Pushes \ {p} : push'[q] = push[q]
  BY <1>1 DEF Autocreate, Goto
<1>3. push[p].path \in Names /\ push[p].dir = None
  BY <1>1, TypeInvIs DEF Proper, Phased, Opened
<1>4. push'[p].dir = push[p].dir /\ push'[p].path = push[p].path
  <2>1. CASE Goto(p, "refused")
    BY <1>1, <2>1 DEF Goto, PushRecord
  <2>2. ASSUME NEW r, push' = [push EXCEPT ![p].pc = "exec", ![p].repo = r,
                                 ![p].vis = "PRIVATE", ![p].auto = TRUE]
        PROVE  <1>4
    BY <1>1, <2>2 DEF PushRecord
  <2> QED BY <2>1, <2>2 DEF Autocreate
<1>5. CASE UNCHANGED store /\ Goto(p, "refused")
  <2>1. Keeps
    BY <1>1, <1>5 DEF Keeps, store, git, Goto, PushRecord, Working, Opened
  <2> QED BY <2>1, KeepsContext
<1>6. ASSUME NEW r \in fresh, At(push[p].path) = None,
             name' = [name EXCEPT ![r] = push[p].path],
             fresh' = fresh \ {r},
             \/ /\ push'[p].repo = r /\ push'[p].vis = "PRIVATE"
             \/ push'[p].repo = push[p].repo /\ push'[p].pc = "refused"
      PROVE  ContextInv'
  <2>1. r \in Repos /\ name[r] = None /\ vis[r] = "PRIVATE"
        /\ (\A q \in Repos : name[q] # push[p].path)
    BY <1>1, <1>3, <1>6, AtFinds DEF ContextInv, StoreInv, OthersOK
  <2>2. name'[r] = push[p].path /\ \A q \in Repos \ {r} : name'[q] = name[q]
    BY <1>1, <1>6, <2>1 DEF OthersOK
  <2>3. \A q \in Pushes \ {p} : push[q].repo # r /\ push[q].dir # r
    BY <1>6 DEF ContextInv, StoreInv
  <2>4. StoreInv'
    <3>1. \A q, s \in Repos : name'[q] = name'[s] /\ name'[s] # None => q = s
      BY <2>1, <2>2 DEF ContextInv, StoreInv
    <3>2. \A q \in fresh' : name'[q] = None /\ vis'[q] = "PRIVATE"
                            /\ refs'[q] = NoBranch
      BY <1>1, <1>6, <2>1, <2>2 DEF ContextInv, StoreInv, git, OthersOK
    <3>3. \A q \in Pushes : push'[q].repo \notin fresh' /\ push'[q].dir \notin fresh'
      BY <1>2, <1>4, <1>6 DEF ContextInv, StoreInv
    <3> QED BY <3>1, <3>2, <3>3 DEF StoreInv, NoBranch
  <2>5. \A q \in Pushes \ {p} : push[q].pc \in Working => push[q].repo \in Repos \ {r}
    BY <2>3, TypeInvIs DEF Proper, Phased, Working
  <2>6. LandInv'
    BY <1>1, <1>2, <1>3, <1>4, <1>6, <2>2, <2>5
    DEF ContextInv, LandInv, Working, Opened
  <2>7. KnownInv'
    BY <1>1, <1>2, <1>6, <2>1 DEF ContextInv, KnownInv, Working, Opened
  <2> QED BY <2>4, <2>6, <2>7 DEF ContextInv
<1>7. ASSUME NEW r \in fresh, At(push[p].path) = None,
             name' = [name EXCEPT ![r] = push[p].path],
             fresh' = fresh \ {r},
             \/ push' = [push EXCEPT ![p].pc = "exec", ![p].repo = r,
                           ![p].vis = "PRIVATE", ![p].auto = TRUE]
             \/ Goto(p, "refused")
      PROVE  ContextInv'
  <2>1. \/ push'[p].repo = r /\ push'[p].vis = "PRIVATE"
        \/ push'[p].repo = push[p].repo /\ push'[p].pc = "refused"
    BY <1>1, <1>7 DEF Goto, PushRecord
  <2> QED BY <1>6, <1>7, <2>1
<1> QED BY <1>5, <1>7 DEF Autocreate

LEMMA ExecKeeps ==
    ASSUME TypeInv, ContextInv, NEW p \in Pushes, NEW cmds, NEW asked,
           Exec(p, cmds, asked)
    PROVE  ContextInv'
<1>1. push \in [Pushes -> PushRecord] /\ fresh \subseteq Repos /\ OthersOK
      /\ UNCHANGED <<store, git, torn>> /\ push[p].pc = "exec"
  BY TypeInvIs DEF OthersOK, Exec
<1>2. push[p].path \in Names /\ push[p].repo \in Repos
  BY <1>1, TypeInvIs DEF Proper, Phased
<1> DEFINE r == At(push[p].path)
<1>3. /\ push'[p].path = push[p].path /\ push'[p].repo = push[p].repo
      /\ push'[p].vis = push[p].vis
      /\ push'[p].dir \in {push[p].dir, r}
      /\ \A q \in Pushes \ {p} : push'[q] = push[q]
  <2>1. CASE Goto(p, "refused")
    BY <1>1, <2>1 DEF Goto, PushRecord
  <2>2. ASSUME NEW old, push' = [push EXCEPT
                  ![p].pc = "prereceive", ![p].dir = r, ![p].asked = asked,
                  ![p].cmds = cmds, ![p].old = old, ![p].todo = DOMAIN cmds]
        PROVE  <1>3
    BY <1>1, <2>2 DEF PushRecord
  <2> QED BY <2>1, <2>2 DEF Exec
<1>4. r # None => r \in Repos /\ name[r] = push[p].path
  BY <1>2, AtFinds
<1>5. r # None => r \notin fresh
  BY <1>2, <1>4, NoneAssumption DEF ContextInv, StoreInv
<1>6. StoreInv'
  BY <1>1, <1>3, <1>5, NoneAssumption
  DEF ContextInv, StoreInv, store, git, NoBranch
<1>7. "moved" \notin torn[p] => name[push[p].repo] = push[p].path
  BY <1>1 DEF ContextInv, LandInv, Working
<1>8. r # None /\ "moved" \notin torn[p] => r = push[p].repo
  BY <1>2, <1>4, <1>7, NoneAssumption DEF ContextInv, StoreInv
<1>9. LandInv'
  BY <1>1, <1>3, <1>7, <1>8 DEF ContextInv, LandInv, store, Working
<1>10. KnownInv'
  BY <1>1, <1>3 DEF ContextInv, KnownInv, store, Working
<1> QED BY <1>6, <1>9, <1>10 DEF ContextInv

LEMMA PostUpdateKeeps ==
    ASSUME TypeInv, ContextInv, NEW p \in Pushes, PostUpdate(p)
    PROVE  ContextInv'
<1> DEFINE opts == IF redis[p].opts THEN push[p].asked ELSE NoOptions
           r == push[p].repo
           told == IF opts.vis = None THEN torn ELSE Revised(p, r)
           given == IF opts.vis = None THEN vis ELSE [vis EXCEPT ![r] = opts.vis]
           v == IF opts.vis = None THEN push[p].vis ELSE opts.vis
<1>1. push \in [Pushes -> PushRecord] /\ OthersOK
      /\ UNCHANGED <<name, redirect, fresh, git>> /\ push[p].pc = "postupdate"
  BY TypeInvIs DEF PostUpdate
<1>2. r \in Repos
  BY <1>1, TypeInvIs DEF Proper, Phased, Opened
<1>3. CASE Goto(p, "done") /\ UNCHANGED vis
           /\ torn' = [torn EXCEPT ![p] = @ \cup {"fatal"}]
  <2>1. Keeps
    BY <1>1, <1>3 DEF OthersOK, Keeps, git, PushRecord, Working, Goto
  <2> QED BY <2>1, KeepsContext
<1>4. \A q \in Pushes : torn[q] \subseteq told[q] /\ told \in [Pushes -> SUBSET Misses]
  BY <1>1 DEF Revised, OthersOK, Misses
<1>5. ASSUME \A q \in Pushes \ {p} : push'[q] = push[q],
             push'[p].repo = push[p].repo, push'[p].dir = push[p].dir,
             push'[p].path = push[p].path,
             push'[p].pc \in Working => push'[p].vis = v,
             vis' = given,
             \A q \in Pushes : told[q] \subseteq torn'[q]
      PROVE  ContextInv'
  <2>1. /\ \A q \in Pushes : /\ push'[q].repo = push[q].repo
                             /\ push'[q].dir = push[q].dir
                             /\ push'[q].path = push[q].path
                             /\ push'[q].pc \in Working => push[q].pc \in Working
                             /\ torn[q] \subseteq torn'[q]
        /\ \A q \in Pushes \ {p} : push'[q].vis = push[q].vis
    <3>1. push[p].pc \in Working
      BY <1>1 DEF Working, Opened
    <3>2. \A q \in Pushes : torn[q] \subseteq torn'[q]
      BY <1>4, <1>5
    <3> HIDE DEF v, given, told
    <3> QED BY <1>5, <3>1, <3>2
  <2>2. \A q \in Repos \ {r} : vis'[q] = vis[q]
    BY <1>1, <1>5 DEF OthersOK
  <2>3. r \notin fresh /\ fresh \subseteq Repos
    BY <1>1 DEF ContextInv, StoreInv, OthersOK
  <2>4. StoreInv'
    BY <1>1, <2>1, <2>2, <2>3 DEF ContextInv, StoreInv, git, NoBranch
  <2>5. LandInv'
    BY <1>1, <2>1 DEF ContextInv, LandInv
  <2>6. vis'[r] = IF opts.vis = None THEN vis[r] ELSE opts.vis
    BY <1>1, <1>2, <1>5 DEF OthersOK
  <2>7. \A q \in Pushes : push[q].pc \in Working => push[q].repo \in Repos /\ InFlight(q)
    BY TypeInvIs DEF Proper, Phased, Working, InFlight, Opened
  <2>8. \A q \in Pushes \ {p} : push[q].pc \in Working /\ "revised" \notin torn'[q]
                                => vis'[push[q].repo] = vis[push[q].repo]
    BY <1>5, <2>2, <2>7 DEF Revised
  <2>9. KnownInv'
    <3> SUFFICES ASSUME NEW q \in Pushes, push'[q].pc \in Working,
                        "revised" \notin torn'[q]
                 PROVE  push'[q].vis = vis'[push'[q].repo]
      BY DEF KnownInv
    <3>1. push[q].pc \in Working /\ "revised" \notin torn[q]
          /\ push[q].vis = vis[push[q].repo]
      BY <2>1 DEF ContextInv, KnownInv
    <3>2. CASE q = p
      BY <1>5, <2>6, <3>1, <3>2
    <3>3. CASE q # p
      BY <2>1, <2>8, <3>1, <3>3
    <3> QED BY <3>2, <3>3
  <2> QED BY <2>4, <2>5, <2>9 DEF ContextInv
<1>6. CASE push' = [push EXCEPT
                 ![p].pc = "build", ![p].opts = opts,
                 ![p].vis = IF opts.vis = None THEN @ ELSE opts.vis,
                 ![p].todo = push[p].written]
           /\ vis' = given /\ torn' = told
  <2>1. push' = [push EXCEPT ![p].pc = "build", ![p].opts = opts,
                             ![p].vis = v, ![p].todo = push[p].written]
    BY <1>1, <1>6 DEF PushRecord
  <2> HIDE DEF opts, v, given, told
  <2>2. /\ \A q \in Pushes \ {p} : push'[q] = push[q]
        /\ push'[p].repo = push[p].repo /\ push'[p].dir = push[p].dir
        /\ push'[p].path = push[p].path /\ push'[p].vis = v
    BY <1>1, <2>1 DEF PushRecord
  <2> QED BY <1>5, <1>6, <2>2
<1>7. CASE Goto(p, "done") /\ vis' = given
           /\ torn' = [told EXCEPT ![p] = @ \cup {"fatal"}]
  <2> HIDE DEF opts, v, given, told
  <2>1. /\ \A q \in Pushes \ {p} : push'[q] = push[q]
        /\ push'[p].repo = push[p].repo /\ push'[p].dir = push[p].dir
        /\ push'[p].path = push[p].path /\ push'[p].pc \notin Working
    BY <1>1, <1>7 DEF PushRecord, Goto, Working, Opened
  <2>2. \A q \in Pushes : told[q] \subseteq torn'[q]
    BY <1>4, <1>7
  <2> QED BY <1>5, <1>7, <2>1, <2>2
<1> HIDE DEF opts, told, given
<1> QED BY <1>3, <1>6, <1>7 DEF PostUpdate, opts, told, given

LEMMA CreateKeeps ==
    ASSUME TypeInv, ContextInv, NEW r \in Repos, NEW n \in Names,
           NEW v \in Visibility, Create(r, n, v)
    PROVE  ContextInv'
<1>1. OthersOK /\ UNCHANGED <<git, push, torn>> /\ r \in fresh
      /\ \A q \in Repos : name[q] # n
  BY TypeInvIs, AtFinds DEF Create
<1>2. /\ name'[r] = n /\ fresh' = fresh \ {r}
      /\ \A q \in Repos \ {r} : name'[q] = name[q] /\ vis'[q] = vis[q]
  BY <1>1 DEF OthersOK, Create
<1>3. \A q \in Pushes : push[q].repo # r /\ push[q].dir # r
  BY <1>1 DEF ContextInv, StoreInv
<1>4. \A q \in Pushes : push[q].pc \in Working => push[q].repo \in Repos \ {r}
  BY <1>3, TypeInvIs DEF Proper, Phased, Working
<1>5. StoreInv'
  <2>1. \A q, s \in Repos : name'[q] = name'[s] /\ name'[s] # None => q = s
    BY <1>1, <1>2 DEF ContextInv, StoreInv
  <2>2. \A q \in fresh' : name'[q] = None /\ vis'[q] = "PRIVATE"
                          /\ refs'[q] = NoBranch
    BY <1>1, <1>2 DEF ContextInv, StoreInv, git, OthersOK
  <2>3. \A q \in Pushes : push'[q].repo \notin fresh' /\ push'[q].dir \notin fresh'
    BY <1>1, <1>2 DEF ContextInv, StoreInv
  <2> QED BY <2>1, <2>2, <2>3 DEF StoreInv, NoBranch
<1>6. LandInv'
  BY <1>1, <1>2, <1>4 DEF ContextInv, LandInv
<1>7. KnownInv'
  BY <1>1, <1>2, <1>4 DEF ContextInv, KnownInv
<1> QED BY <1>5, <1>6, <1>7 DEF ContextInv

\* A push under way for a repository that is marked is marked.
LEMMA MissedMarks ==
    ASSUME TypeInv, NEW r \in Repos, NEW kind, Missed(r, kind)
    PROVE  \A q \in Pushes :
             /\ torn[q] \subseteq torn'[q]
             /\ torn'[q] \subseteq torn[q] \cup {kind}
             /\ push[q].pc \in Working /\ push[q].repo = r => kind \in torn'[q]
BY DEF Missed, InFlight, Working, Opened

LEMMA RenameKeeps ==
    ASSUME TypeInv, ContextInv, NEW r \in Repos, NEW n \in Names, Rename(r, n)
    PROVE  ContextInv'
<1>1. OthersOK /\ UNCHANGED <<vis, fresh, git, push>> /\ name[r] # None
      /\ \A q \in Repos : name[q] # n
  BY TypeInvIs, AtFinds DEF Rename
<1>2. name'[r] = n /\ \A q \in Repos \ {r} : name'[q] = name[q]
  BY <1>1 DEF OthersOK, Rename
<1>3. \A q \in Pushes : /\ torn[q] \subseteq torn'[q]
                        /\ push[q].pc \in Working /\ push[q].repo = r
                              => "moved" \in torn'[q]
  BY MissedMarks DEF Rename
<1>4. \A q \in Pushes : push[q].pc \in Working => push[q].repo \in Repos
  BY TypeInvIs DEF Proper, Phased, Working
<1>5. StoreInv'
  <2>1. \A q, s \in Repos : name'[q] = name'[s] /\ name'[s] # None => q = s
    BY <1>1, <1>2 DEF ContextInv, StoreInv
  <2>2. \A q \in fresh' : name'[q] = None /\ vis'[q] = "PRIVATE"
                          /\ refs'[q] = NoBranch
    BY <1>1, <1>2 DEF ContextInv, StoreInv, git, OthersOK
  <2> QED BY <1>1, <2>1, <2>2 DEF ContextInv, StoreInv, NoBranch
<1>6. LandInv'
  BY <1>1, <1>2, <1>3, <1>4 DEF ContextInv, LandInv
<1>7. KnownInv'
  BY <1>1, <1>3 DEF ContextInv, KnownInv
<1> QED BY <1>5, <1>6, <1>7 DEF ContextInv

LEMMA DeleteKeeps ==
    ASSUME TypeInv, ContextInv, NEW r \in Repos, Delete(r)
    PROVE  ContextInv'
<1>1. OthersOK /\ UNCHANGED <<vis, fresh, git, push>>
  BY TypeInvIs DEF Delete
<1>2. name'[r] = None /\ \A q \in Repos \ {r} : name'[q] = name[q]
  BY <1>1 DEF OthersOK, Delete
<1>3. \A q \in Pushes : /\ torn[q] \subseteq torn'[q]
                        /\ push[q].pc \in Working /\ push[q].repo = r
                              => "moved" \in torn'[q]
  BY MissedMarks DEF Delete
<1>4. \A q \in Pushes : push[q].pc \in Working => push[q].repo \in Repos
  BY TypeInvIs DEF Proper, Phased, Working
<1>5. StoreInv'
  <2>1. \A q, s \in Repos : name'[q] = name'[s] /\ name'[s] # None => q = s
    BY <1>1, <1>2 DEF ContextInv, StoreInv
  <2>2. \A q \in fresh' : name'[q] = None /\ vis'[q] = "PRIVATE"
                          /\ refs'[q] = NoBranch
    BY <1>1, <1>2 DEF ContextInv, StoreInv, git, OthersOK
  <2> QED BY <1>1, <2>1, <2>2 DEF ContextInv, StoreInv, NoBranch
<1>6. LandInv'
  BY <1>1, <1>2, <1>3, <1>4 DEF ContextInv, LandInv
<1>7. KnownInv'
  BY <1>1, <1>3 DEF ContextInv, KnownInv
<1> QED BY <1>5, <1>6, <1>7 DEF ContextInv

LEMMA SetVisibilityKeeps ==
    ASSUME TypeInv, ContextInv, NEW r \in Repos, NEW v \in Visibility,
           SetVisibility(r, v)
    PROVE  ContextInv'
<1>1. OthersOK /\ UNCHANGED <<name, fresh, git, push>> /\ name[r] # None
  BY TypeInvIs DEF SetVisibility
<1>2. \A q \in Repos \ {r} : vis'[q] = vis[q]
  BY <1>1 DEF OthersOK, SetVisibility
<1>3. \A q \in Pushes : /\ torn[q] \subseteq torn'[q]
                        /\ push[q].pc \in Working /\ push[q].repo = r
                              => "revised" \in torn'[q]
  BY MissedMarks DEF SetVisibility
<1>4. \A q \in Pushes : push[q].pc \in Working => push[q].repo \in Repos
  BY TypeInvIs DEF Proper, Phased, Working
<1>5. StoreInv'
  BY <1>1, <1>2 DEF ContextInv, StoreInv, git, OthersOK, NoBranch
<1>6. LandInv'
  BY <1>1, <1>3 DEF ContextInv, LandInv
<1>7. KnownInv'
  BY <1>1, <1>2, <1>3, <1>4 DEF ContextInv, KnownInv
<1> QED BY <1>5, <1>6, <1>7 DEF ContextInv

LEMMA ContextStep == TypeInv /\ ContextInv /\ [Next]_vars => ContextInv'
<1> SUFFICES ASSUME TypeInv, ContextInv, [Next]_vars PROVE ContextInv'
  OBVIOUS
<1>1. ASSUME NEW p \in Pushes, NEW u \in Users, NEW n \in Names, Lookup(p, u, n)
      PROVE  ContextInv'
  BY <1>1, LookupKeeps
<1>2. ASSUME NEW p \in Pushes, PushStep(p)
      PROVE  ContextInv'
  BY <1>2, HooksKeep, AutocreateKeeps, ExecKeeps, UpdateRefKeeps,
     PostUpdateKeeps, BuildRefKeeps
  DEF PushStep
<1>3. ASSUME NEW p \in Pushes, Expire(p)
      PROVE  ContextInv'
  BY <1>3, ExpireKeeps
<1>4. ASSUME NEW r \in Repos, NEW n \in Names, NEW v \in Visibility,
             Create(r, n, v)
      PROVE  ContextInv'
  BY <1>4, CreateKeeps
<1>5. ASSUME NEW r \in Repos, NEW n \in Names, Rename(r, n)
      PROVE  ContextInv'
  BY <1>5, RenameKeeps
<1>6. ASSUME NEW r \in Repos, Delete(r)
      PROVE  ContextInv'
  BY <1>6, DeleteKeeps
<1>7. ASSUME NEW r \in Repos, NEW v \in Visibility, SetVisibility(r, v)
      PROVE  ContextInv'
  BY <1>7, SetVisibilityKeeps
<1>8. CASE UNCHANGED vars
  <2>1. Keeps
    BY <1>8 DEF Keeps, vars, store, git
  <2> QED BY <2>1, KeepsContext
<1> QED BY <1>1, <1>2, <1>3, <1>4, <1>5, <1>6, <1>7, <1>8 DEF Next

LEMMA ContextAlways == Spec => [](TypeInv /\ ContextInv)
BY InitTyped, InitContext, TypeStep, ContextStep, PTL DEF Spec

\* Git writes to the repository the push was authorised for, unless that one
\* was moved away from the path between the lookup and git opening it.
THEOREM WritesLand == Spec => []PushesLand
<1>1. TypeInv /\ ContextInv => PushesLand
  BY DEF ContextInv, LandInv, PushesLand
<1> QED BY <1>1, ContextAlways, PTL

-----------------------------------------------------------------------------
(* The visibility builds are submitted with.                                *)

\* What happened to a push is not forgotten.
LEMMA TornGrows ==
    ASSUME TypeInv, [Next]_vars
    PROVE  \A q \in Pushes : torn[q] \subseteq torn'[q]
<1> DEFINE Grows == \A q \in Pushes : torn[q] \subseteq torn'[q]
<1>1. torn \in [Pushes -> SUBSET Misses]
  BY TypeInvIs DEF OthersOK
<1>2. ASSUME NEW p \in Pushes, PushStep(p) PROVE Grows
  <2>1. CASE PostUpdate(p)
    <3>1. ASSUME NEW t \in {torn, Revised(p, push[p].repo)},
                 torn' \in {t, [t EXCEPT ![p] = @ \cup {"fatal"}]}
          PROVE  Grows
      <4>1. t \in [Pushes -> SUBSET Misses] /\ \A q \in Pushes : torn[q] \subseteq t[q]
        BY <1>1, <3>1 DEF Revised, Misses
      <4> QED BY <3>1, <4>1
    <3> QED BY <2>1, <3>1 DEF PostUpdate
  <2>2. CASE HeadCheck(p) \/ HeadSet(p)
    BY <1>1, <2>2 DEF HeadCheck, HeadSet
  <2>3. ASSUME NEW ref \in Refs, BuildRef(p, ref) PROVE Grows
    BY <1>1, <2>3 DEF BuildRef
  <2>4. CASE UNCHANGED torn
    BY <2>4
  <2> QED BY <1>2, <2>1, <2>2, <2>3, <2>4
          DEF PushStep, LookupRedirect, Autocreate, Exec, PreReceive, UpdateRef,
              Updated, PostReceive
<1>3. ASSUME NEW p \in Pushes, Expire(p) PROVE Grows
  BY <1>1, <1>3 DEF Expire
<1>4. ASSUME NEW r \in Repos, NEW kind, Missed(r, kind) PROVE Grows
  BY <1>4, MissedMarks
<1>5. CASE UNCHANGED torn
  BY <1>5
<1>6. CASE UNCHANGED vars
  BY <1>5, <1>6 DEF vars
<1>7. CASE Next
  BY <1>2, <1>3, <1>4, <1>5, <1>7
  DEF Next, Lookup, Create, Rename, Delete, SetVisibility
<1> QED BY <1>6, <1>7

\* Nothing but the loop over the refs submits builds.
LEMMA OnlyBuildRefBuilds ==
    ASSUME [Next]_vars, builds' # builds
    PROVE  \E p \in Pushes, ref \in Refs : BuildRef(p, ref)
<1>1. CASE UNCHANGED vars
  BY <1>1 DEF vars
<1>2. ASSUME NEW p \in Pushes, PushStep(p)
      PROVE  \E ref \in Refs : BuildRef(p, ref)
  BY <1>2
  DEF PushStep, LookupRedirect, Autocreate, Exec, PreReceive, UpdateRef,
      Updated, PostReceive, PostUpdate, HeadCheck, HeadSet
<1>3. ASSUME NEW p \in Pushes PROVE ~Expire(p)
  BY DEF Expire
<1>4. ASSUME NEW p \in Pushes, NEW u \in Users, NEW n \in Names
      PROVE  ~Lookup(p, u, n)
  BY DEF Lookup
<1>5. ASSUME NEW r \in Repos, NEW n \in Names, NEW v \in Visibility
      PROVE  ~Create(r, n, v)
  BY DEF Create
<1>6. ASSUME NEW r \in Repos PROVE ~Delete(r)
  BY DEF Delete
<1>7. ASSUME NEW r \in Repos, NEW n \in Names PROVE ~Rename(r, n)
  BY DEF Rename
<1>8. ASSUME NEW r \in Repos, NEW v \in Visibility PROVE ~SetVisibility(r, v)
  BY DEF SetVisibility
<1> QED BY <1>1, <1>2, <1>3, <1>4, <1>5, <1>6, <1>7, <1>8 DEF Next

\* What a turn of the loop adds to the builds is submitted for its ref.
LEMMA BuildRefAdds ==
    ASSUME TypeInv, NEW p \in Pushes, NEW ref \in Refs, BuildRef(p, ref)
    PROVE  \E S : builds' = builds \cup Submitted(p, ref, S)
<1>1. builds' = builds => builds' = builds \cup Submitted(p, ref, {})
  BY DEF Submitted
<1> QED BY <1>1, BuildRefIs

LEMMA AlikeStep ==
    ASSUME TypeInv, ContextInv, BuildsVisibleAlike, [Next]_vars
    PROVE  BuildsVisibleAlike'
<1>1. \A q \in Pushes : torn[q] \subseteq torn'[q]
  BY TornGrows
<1>2. \A b \in builds : b.push \in Pushes
  BY TypeInvIs DEF OthersOK, Build
<1>3. CASE builds' = builds
  BY <1>1, <1>2, <1>3 DEF BuildsVisibleAlike
<1>4. ASSUME NEW p \in Pushes, NEW ref \in Refs, BuildRef(p, ref)
      PROVE  BuildsVisibleAlike'
  <2>1. PICK S : builds' = builds \cup Submitted(p, ref, S)
    BY <1>4, BuildRefAdds
  <2>2. push[p].pc \in Working
    BY <1>4 DEF BuildRef, Working, Opened
  <2>3. "revised" \notin torn[p] => push[p].vis = vis[push[p].repo]
    BY <2>2 DEF ContextInv, KnownInv
  <2>4. \A b \in Submitted(p, ref, S) :
           b.push = p /\ b.vis = push[p].vis /\ b.actual = vis[push[p].repo]
    BY DEF Submitted
  <2> QED BY <1>1, <1>2, <2>1, <2>3, <2>4 DEF BuildsVisibleAlike
<1> QED BY <1>3, <1>4, OnlyBuildRefBuilds

\* Unless someone else gave the repository another visibility during the push,
\* builds are submitted with the one it has, options of the push included.
THEOREM BuildsAreVisibleAlike == Spec => []BuildsVisibleAlike
<1>1. Init => BuildsVisibleAlike
  BY DEF Init, BuildsVisibleAlike
<1>2. TypeInv /\ ContextInv /\ BuildsVisibleAlike /\ [Next]_vars
      => BuildsVisibleAlike'
  BY AlikeStep
<1> QED BY <1>1, <1>2, ContextAlways, PTL DEF Spec

-----------------------------------------------------------------------------
(* HEAD.                                                                    *)

\* What becomes of a push that minds a dangling HEAD of r in a step.
StillMinded(q, r) ==
    Dangling(r) /\ Minding(q, r) =>
        (Minding(q, r) \/ Cut(q, r) \/ "late" \in torn[q])'

\* A step after which r dangles only if it did, and nobody gives up on it.
KeepsMinding(r) ==
    Dangling(r)' =>
        /\ Dangling(r)
        /\ \A q \in Pushes : push[q].dir # None => push'[q].dir = push[q].dir
        /\ \A q \in Pushes : StillMinded(q, r)

LEMMA KeepsHead ==
    ASSUME TypeInv, HeadInv, [Next]_vars, \A r \in Repos : KeepsMinding(r)
    PROVE  HeadInv'
<1>1. \A q \in Pushes : torn[q] \subseteq torn'[q]
  BY TornGrows
<1>2. ASSUME NEW r \in Repos, Dangling(r)'
      PROVE  (\E p \in Pushes : "late" \in torn[p] \/ Cut(p, r) \/ Minding(p, r))'
  <2>1. Dangling(r) /\ r # None
    BY <1>2, NoneAssumption DEF KeepsMinding
  <2>2. PICK q \in Pushes : "late" \in torn[q] \/ Cut(q, r) \/ Minding(q, r)
    BY <2>1 DEF HeadInv
  <2>3. CASE "late" \in torn[q]
    BY <1>1, <2>3
  <2>4. CASE Cut(q, r)
    <3>1. push'[q].dir = r
      BY <1>2, <2>1, <2>4 DEF Cut, KeepsMinding
    <3>2. torn'[q] \cap {"fatal", "moved"} # {}
      BY <1>1, <2>4 DEF Cut
    <3> QED BY <3>1, <3>2 DEF Cut
  <2>5. CASE Minding(q, r)
    BY <1>2, <2>1, <2>5 DEF KeepsMinding, StillMinded
  <2> QED BY <2>2, <2>3, <2>4, <2>5
<1> QED BY <1>2 DEF HeadInv

\* Steps that write no ref and no HEAD of a repository there was.
LEMMA GitStays ==
    ASSUME UNCHANGED git, NEW r \in Repos,
           \/ name'[r] = name[r]
           \/ name[r] # None
           \/ refs[r] = NoBranch
    PROVE  /\ Dangling(r)' => Dangling(r)
           /\ \A q \in Pushes : push'[q] = push[q] => StillMinded(q, r)
<1>1. refs[r] = NoBranch => ~\E b \in Branches : HasRef(r, b)
  BY DEF NoBranch, HasRef, Refs
<1>2. Dangling(r)' => Dangling(r)
  BY <1>1 DEF Dangling, HasRef, git
<1>3. ASSUME NEW q \in Pushes, push'[q] = push[q] PROVE StillMinded(q, r)
  BY <1>3 DEF StillMinded, Minding, HasRef, git
<1> QED BY <1>2, <1>3

\* Such a step of the store alone keeps every HEAD minded.
LEMMA StoreStepMinds ==
    ASSUME UNCHANGED <<git, push>>, NEW r \in Repos,
           name'[r] = name[r] \/ name[r] # None \/ refs[r] = NoBranch
    PROVE  KeepsMinding(r)
BY GitStays DEF KeepsMinding

\* So does such a step of a push that itself keeps minding.
LEMMA PushStepMinds ==
    ASSUME UNCHANGED git, NEW r \in Repos, NEW p \in Pushes,
           name'[r] = name[r] \/ name[r] # None \/ refs[r] = NoBranch,
           \A q \in Pushes \ {p} : push'[q] = push[q],
           push[p].dir # None => push'[p].dir = push[p].dir,
           StillMinded(p, r)
    PROVE  KeepsMinding(r)
BY GitStays DEF KeepsMinding

LEMMA StoreMinds ==
    ASSUME TypeInv, ContextInv, NEW r \in Repos, NEW s \in Repos,
           \/ \E n \in Names, v \in Visibility : Create(s, n, v)
           \/ \E n \in Names : Rename(s, n)
           \/ Delete(s)
           \/ \E v \in Visibility : SetVisibility(s, v)
    PROVE  KeepsMinding(r)
<1>1. name \in [Repos -> Names \cup {None}]
  BY TypeInvIs DEF OthersOK
<1>2. UNCHANGED <<git, push>>
  BY DEF Create, Rename, Delete, SetVisibility
<1>3. name'[r] = name[r] \/ name[r] # None \/ refs[r] = NoBranch
  BY <1>1 DEF Create, Rename, Delete, SetVisibility, ContextInv, StoreInv
<1> QED BY <1>2, <1>3, StoreStepMinds

\* Before git has opened a directory there is nothing to mind.
LEMMA EarlyMinds ==
    ASSUME TypeInv, ContextInv, NEW r \in Repos, NEW p \in Pushes,
           \/ \E u \in Users, n \in Names : Lookup(p, u, n)
           \/ LookupRedirect(p) \/ Autocreate(p)
           \/ \E cmds \in Commands, asked \in Asks : Exec(p, cmds, asked)
    PROVE  KeepsMinding(r)
<1>1. push \in [Pushes -> PushRecord] /\ name \in [Repos -> Names \cup {None}]
      /\ UNCHANGED git
  BY TypeInvIs DEF OthersOK, Lookup, LookupRedirect, Autocreate, Exec
<1>2. push[p].pc \in {"idle", "redirect", "create", "exec"}
  BY DEF Lookup, LookupRedirect, Autocreate, Exec
<1>3. push[p].dir = None
  BY <1>2, TypeInvIs DEF Proper, Phased, Opened
<1>4. \A q \in Pushes \ {p} : push'[q] = push[q]
  <2>1. CASE LookupRedirect(p) \/ Autocreate(p)
    BY <1>1, <2>1 DEF LookupRedirect, Autocreate, Goto
  <2>2. ASSUME NEW u \in Users, NEW n \in Names, Lookup(p, u, n)
        PROVE  <1>4
    BY <1>1, <2>2 DEF Lookup
  <2>3. ASSUME NEW cmds, NEW asked, Exec(p, cmds, asked)
        PROVE  <1>4
    BY <1>1, <2>3 DEF Exec, Goto
  <2> QED BY <2>1, <2>2, <2>3
<1>5. name'[r] = name[r] \/ name[r] # None \/ refs[r] = NoBranch
  BY <1>1 DEF Lookup, LookupRedirect, Autocreate, Exec, store, ContextInv, StoreInv
<1>6. StillMinded(p, r)
  BY <1>3, NoneAssumption DEF StillMinded, Minding
<1> QED BY <1>1, <1>3, <1>4, <1>5, <1>6, PushStepMinds

\* From the first write of a push to its look at HEAD every hook minds it.
LEMMA HooksMind ==
    ASSUME TypeInv, NEW r \in Repos, NEW p \in Pushes,
           PreReceive(p) \/ Updated(p) \/ PostReceive(p)
    PROVE  KeepsMinding(r)
<1>1. push \in [Pushes -> PushRecord] /\ UNCHANGED <<store, git>>
  BY TypeInvIs DEF PreReceive, Updated, PostReceive
<1>2. PICK pc : Goto(p, pc)
  BY DEF PreReceive, Updated, PostReceive
<1>3. /\ \A q \in Pushes \ {p} : push'[q] = push[q]
      /\ push'[p].dir = push[p].dir /\ push'[p].written = push[p].written
      /\ push'[p].pc = pc
  BY <1>1, <1>2 DEF Goto, PushRecord
<1>4. StillMinded(p, r)
  <2>1. CASE PreReceive(p)
    BY <2>1 DEF PreReceive, StillMinded, Minding
  <2>2. CASE Updated(p)
    <3>1. push[p].written # {} => push'[p].pc = "postreceive"
      BY <1>1, <2>2 DEF Updated, Goto, PushRecord
    <3> QED BY <1>3, <2>2, <3>1 DEF Updated, StillMinded, Minding
  <2>3. CASE PostReceive(p)
    <3>1. push'[p].pc = "postupdate"
      BY <1>1, <2>3 DEF PostReceive, Goto, PushRecord
    <3> QED BY <1>3, <2>3, <3>1 DEF PostReceive, StillMinded, Minding
  <2> QED BY <2>1, <2>2, <2>3
<1> QED BY <1>1, <1>3, <1>4, PushStepMinds DEF store

LEMMA PostUpdateMinds ==
    ASSUME TypeInv, NEW r \in Repos, NEW p \in Pushes, PostUpdate(p)
    PROVE  KeepsMinding(r)
<1>1. push \in [Pushes -> PushRecord] /\ UNCHANGED <<name, git>>
      /\ push[p].pc = "postupdate"
  BY TypeInvIs DEF PostUpdate
<1>2. torn \in [Pushes -> SUBSET Misses]
  BY TypeInvIs DEF OthersOK
<1>3. CASE Goto(p, "done") /\ "fatal" \in torn'[p]
  <2>1. "fatal" \in torn'[p] /\ push'[p].dir = push[p].dir
        /\ \A q \in Pushes \ {p} : push'[q] = push[q]
    BY <1>1, <1>3 DEF PushRecord, Goto
  <2>2. StillMinded(p, r)
    BY <2>1 DEF StillMinded, Minding, Cut
  <2> QED BY <1>1, <2>1, <2>2, PushStepMinds
<1>4. CASE push' = LET opts == IF redis[p].opts THEN push[p].asked ELSE NoOptions
                   IN  [push EXCEPT
                         ![p].pc = "build", ![p].opts = opts,
                         ![p].vis = IF opts.vis = None THEN @ ELSE opts.vis,
                         ![p].todo = push[p].written]
  <2>1. /\ push'[p].dir = push[p].dir /\ push'[p].written = push[p].written
        /\ push'[p].pc = "build" /\ \A q \in Pushes \ {p} : push'[q] = push[q]
    BY <1>1, <1>4 DEF PushRecord
  <2>2. StillMinded(p, r)
    BY <1>1, <2>1 DEF StillMinded, Minding
  <2> QED BY <1>1, <2>1, <2>2, PushStepMinds
<1>5. ASSUME NEW t \in {torn, Revised(p, push[p].repo)},
             torn' = [t EXCEPT ![p] = @ \cup {"fatal"}]
      PROVE  "fatal" \in torn'[p]
  BY <1>2, <1>5 DEF Revised
<1> QED BY <1>1, <1>3, <1>4, <1>5 DEF PostUpdate

LEMMA BuildRefMinds ==
    ASSUME TypeInv, NEW r \in Repos, NEW p \in Pushes, NEW ref \in Refs,
           BuildRef(p, ref)
    PROVE  KeepsMinding(r)
<1>1. push \in [Pushes -> PushRecord] /\ UNCHANGED <<store, git>>
      /\ push[p].pc = "build"
  BY TypeInvIs DEF BuildRef
<1>2. PICK k, n : Only(p, Turned(p, ref, k, n))
  BY BuildRefIs
<1>3. /\ push'[p].dir = push[p].dir /\ push'[p].written = push[p].written
      /\ push'[p].pc = "build" /\ \A q \in Pushes \ {p} : push'[q] = push[q]
  BY <1>1, <1>2 DEF Only, Turned, PushRecord
<1>4. StillMinded(p, r)
  BY <1>1, <1>3 DEF StillMinded, Minding
<1> QED BY <1>1, <1>3, <1>4, PushStepMinds DEF store

\* Whether a push still minds what it was at is decided by git alone.
LEMMA UpdateRefMinds ==
    ASSUME TypeInv, HeadInv, NEW p \in Pushes, NEW ref \in Refs,
           UpdateRef(p, ref), [Next]_vars
    PROVE  HeadInv'
<1> DEFINE d == push[p].dir
<1>1. push \in [Pushes -> PushRecord] /\ OthersOK
      /\ UNCHANGED <<store, head, torn>> /\ push[p].pc = "update"
  BY TypeInvIs DEF UpdateRef
<1>2. \A q \in Pushes \ {p} : push'[q] = push[q]
  BY <1>1 DEF UpdateRef
<1>3. push'[p].dir = d /\ push'[p].pc = "update"
      /\ push[p].written \subseteq push'[p].written
  BY <1>1 DEF UpdateRef, PushRecord
<1>4. CASE UNCHANGED refs
  <2>1. ASSUME NEW r \in Repos PROVE KeepsMinding(r)
    <3>1. StillMinded(p, r)
      BY <1>1, <1>3 DEF StillMinded, Minding
    <3> QED BY <1>1, <1>2, <1>3, <1>4, <3>1, PushStepMinds DEF store, git
  <2> QED BY <2>1, KeepsHead
<1>5. CASE refs' = [refs EXCEPT ![d][ref] = push[p].cmds[ref]]
           /\ ref \in push'[p].written
  <2>1. ASSUME NEW r \in Repos, Dangling(r)'
        PROVE  (\E q \in Pushes : "late" \in torn[q] \/ Cut(q, r) \/ Minding(q, r))'
    <3>1. CASE r = d
      BY <1>3, <1>5, <3>1 DEF Minding
    <3>2. CASE r # d
      <4>1. refs'[r] = refs[r] /\ name'[r] = name[r] /\ head'[r] = head[r]
        BY <1>1, <1>5, <3>2 DEF OthersOK, store
      <4>2. Dangling(r)
        BY <2>1, <4>1 DEF Dangling, HasRef
      <4>3. PICK q \in Pushes : "late" \in torn[q] \/ Cut(q, r) \/ Minding(q, r)
        BY <4>2 DEF HeadInv
      <4>4. CASE q = p
        BY <1>1, <1>3, <3>2, <4>3, <4>4 DEF Cut, Minding
      <4>5. CASE q # p
        BY <1>1, <1>2, <4>1, <4>3, <4>5 DEF Cut, Minding, HasRef
      <4> QED BY <4>4, <4>5
    <3> QED BY <3>1, <3>2
  <2> QED BY <2>1 DEF HeadInv
<1> QED BY <1>1, <1>4, <1>5 DEF UpdateRef, PushRecord

\* A push that was not moved looks for HEAD in the directory it wrote to.
LEMMA LooksInItsDirectory ==
    ASSUME TypeInv, ContextInv, NEW p \in Pushes,
           push[p].pc \in {"prereceive", "update", "postreceive", "postupdate",
                           "build", "head"},
           "moved" \notin torn[p]
    PROVE  At(push[p].path) = push[p].dir
<1>1. push[p].path \in Names /\ push[p].repo \in Repos /\ push[p].dir \in Repos
  BY TypeInvIs DEF Proper, Phased, Opened
<1>2. name[push[p].repo] = push[p].path /\ push[p].dir = push[p].repo
  BY <1>1, NoneAssumption DEF ContextInv, LandInv, Working, Opened
<1> QED BY <1>1, <1>2, AtItsName DEF ContextInv

LEMMA HeadCheckMinds ==
    ASSUME TypeInv, ContextInv, NEW r \in Repos, NEW p \in Pushes, HeadCheck(p)
    PROVE  KeepsMinding(r)
<1> DEFINE s == At(push[p].path)
<1>1. push \in [Pushes -> PushRecord] /\ torn \in [Pushes -> SUBSET Misses]
      /\ UNCHANGED <<store, git>> /\ push[p].pc = "build"
  BY TypeInvIs DEF OthersOK, HeadCheck
<1>2. /\ push'[p].dir = push[p].dir
      /\ \A q \in Pushes \ {p} : push'[q] = push[q]
      /\ torn[p] \subseteq torn'[p]
  BY <1>1 DEF HeadCheck, Goto, PushRecord
<1>3. ASSUME Dangling(r), Minding(p, r)
      PROVE  (Minding(p, r) \/ Cut(p, r))'
  <2>1. CASE "moved" \in torn[p]
    BY <1>2, <1>3, <2>1 DEF Minding, Cut
  <2>2. CASE "moved" \notin torn[p]
    <3>1. s = r /\ r # None
      BY <1>1, <1>3, <2>2, LooksInItsDirectory, NoneAssumption DEF Minding
    <3>2. ~HasRef(r, head[r]) /\ {b \in Branches : HasRef(r, b)} # {}
      BY <1>3 DEF Dangling
    <3>3. PICK b \in {x \in Branches : HasRef(r, x)} :
             push' = [push EXCEPT ![p].pc = "head", ![p].pick = b]
      BY <3>1, <3>2 DEF HeadCheck
    <3>4. push'[p].pc = "head" /\ push'[p].pick = b
      BY <1>1, <3>3 DEF PushRecord
    <3> QED BY <1>1, <1>2, <1>3, <3>3, <3>4 DEF Minding, HasRef, git
  <2> QED BY <2>1, <2>2
<1> QED BY <1>1, <1>2, <1>3, PushStepMinds DEF StillMinded, store

LEMMA HeadSetMinds ==
    ASSUME TypeInv, ContextInv, HeadInv, NEW p \in Pushes, HeadSet(p), [Next]_vars
    PROVE  HeadInv'
<1> DEFINE s == At(push[p].path)
<1>1. push \in [Pushes -> PushRecord] /\ OthersOK
      /\ UNCHANGED <<store, refs>> /\ push[p].pc = "head"
  BY TypeInvIs DEF HeadSet
<1>2. /\ push'[p].dir = push[p].dir
      /\ \A q \in Pushes \ {p} : push'[q] = push[q]
      /\ \A q \in Pushes : torn[q] \subseteq torn'[q]
  BY <1>1, TornGrows DEF HeadSet, Goto, PushRecord
<1>3. CASE s = None \/ ~HasRef(s, push[p].pick)
  <2>1. "late" \in torn'[p]
    BY <1>1, <1>3 DEF HeadSet, OthersOK
  <2> QED BY <2>1 DEF HeadInv
<1>4. ASSUME s # None, HasRef(s, push[p].pick) PROVE HeadInv'
  <2>1. PICK d \in Repos : d = s
    BY <1>1, <1>4, AtFinds, TypeInvIs DEF Proper, Phased
  <2>2. head'[d] = push[p].pick /\ \A r \in Repos \ {d} : head'[r] = head[r]
    BY <1>1, <1>4, <2>1 DEF HeadSet, OthersOK
  <2>3. ~Dangling(d)'
    BY <1>1, <1>4, <2>1, <2>2 DEF Dangling, HasRef
  <2>4. ASSUME NEW r \in Repos \ {d} PROVE KeepsMinding(r)
    <3>1. Dangling(r)' => Dangling(r)
      BY <1>1, <2>2 DEF Dangling, HasRef, store
    <3>2. StillMinded(p, r)
      <4>1. Minding(p, r) => "moved" \in torn[p]
        BY <1>1, <2>1, LooksInItsDirectory DEF Minding
      <4> QED BY <1>2, <4>1 DEF StillMinded, Minding, Cut
    <3>3. \A q \in Pushes \ {p} : StillMinded(q, r)
      BY <1>1, <1>2 DEF StillMinded, Minding, HasRef
    <3> QED BY <1>2, <3>1, <3>2, <3>3 DEF KeepsMinding
  <2>5. KeepsMinding(d)
    BY <2>3 DEF KeepsMinding
  <2> QED BY <2>4, <2>5, KeepsHead
<1> QED BY <1>3, <1>4

LEMMA HeadStep == TypeInv /\ ContextInv /\ HeadInv /\ [Next]_vars => HeadInv'
<1> SUFFICES ASSUME TypeInv, ContextInv, HeadInv, [Next]_vars PROVE HeadInv'
  OBVIOUS
<1>1. ASSUME NEW p \in Pushes,
             \/ \E u \in Users, n \in Names : Lookup(p, u, n)
             \/ LookupRedirect(p) \/ Autocreate(p)
             \/ \E cmds \in Commands, asked \in Asks : Exec(p, cmds, asked)
      PROVE  HeadInv'
  BY <1>1, EarlyMinds, KeepsHead
<1>2. ASSUME NEW p \in Pushes, PreReceive(p) \/ Updated(p) \/ PostReceive(p)
      PROVE  HeadInv'
  BY <1>2, HooksMind, KeepsHead
<1>3. ASSUME NEW p \in Pushes, NEW ref \in Refs, UpdateRef(p, ref)
      PROVE  HeadInv'
  BY <1>3, UpdateRefMinds
<1>4. ASSUME NEW p \in Pushes, PostUpdate(p)
      PROVE  HeadInv'
  BY <1>4, PostUpdateMinds, KeepsHead
<1>5. ASSUME NEW p \in Pushes, NEW ref \in Refs, BuildRef(p, ref)
      PROVE  HeadInv'
  BY <1>5, BuildRefMinds, KeepsHead
<1>6. ASSUME NEW p \in Pushes, HeadCheck(p)
      PROVE  HeadInv'
  BY <1>6, HeadCheckMinds, KeepsHead
<1>7. ASSUME NEW p \in Pushes, HeadSet(p)
      PROVE  HeadInv'
  BY <1>7, HeadSetMinds
<1>8. ASSUME NEW s \in Repos,
             \/ \E n \in Names, v \in Visibility : Create(s, n, v)
             \/ \E n \in Names : Rename(s, n)
             \/ Delete(s)
             \/ \E v \in Visibility : SetVisibility(s, v)
      PROVE  HeadInv'
  BY <1>8, StoreMinds, KeepsHead
<1>9. ASSUME NEW p \in Pushes, Expire(p)
      PROVE  HeadInv'
  <2>1. UNCHANGED <<git, push>> /\ name' = name
    BY <1>9 DEF Expire, store
  <2>2. \A r \in Repos : KeepsMinding(r)
    BY <2>1, StoreStepMinds
  <2> QED BY <2>2, KeepsHead
<1>10. CASE UNCHANGED vars
  <2>1. UNCHANGED <<git, push>> /\ name' = name
    BY <1>10 DEF vars, store
  <2>2. \A r \in Repos : KeepsMinding(r)
    BY <2>1, StoreStepMinds
  <2> QED BY <2>2, KeepsHead
<1>11. ASSUME NEW p \in Pushes, PushStep(p) PROVE HeadInv'
  BY <1>1, <1>2, <1>3, <1>4, <1>5, <1>6, <1>7, <1>11 DEF PushStep
<1> QED BY <1>1, <1>8, <1>9, <1>10, <1>11 DEF Next

LEMMA InitHead == Init => HeadInv
BY NoneAssumption DEF Init, HeadInv, Dangling

\* Whatever branches concurrent pushes create and delete, once those of a
\* repository have ended its HEAD names a branch if it has one, unless a last
\* hook was cut off or set a branch that was no longer there.
THEOREM HeadAlwaysResolves == Spec => []HeadResolves
<1>1. TypeInv /\ HeadInv => HeadResolves
  <2> SUFFICES ASSUME TypeInv, HeadInv, NEW r \in Repos, Dangling(r),
                      \A p \in Pushes : ~(InFlight(p) /\ push[p].dir = r)
               PROVE  \E p \in Pushes : "late" \in torn[p] \/ Cut(p, r)
    BY DEF HeadResolves
  <2>1. PICK p \in Pushes : "late" \in torn[p] \/ Cut(p, r) \/ Minding(p, r)
    BY DEF HeadInv
  <2>2. ~Minding(p, r)
    BY DEF Minding, InFlight
  <2> QED BY <2>1, <2>2
<1> QED BY <1>1, InitHead, HeadStep, ContextAlways, PTL DEF Spec

=============================================================================
