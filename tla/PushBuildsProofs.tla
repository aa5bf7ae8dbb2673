-------------------------- MODULE PushBuildsProofs --------------------------
(***************************************************************************)
(* How many builds a push gets, and which: theorems about the loop of       *)
(* post-update over the refs, for any limit, manifests and rules.           *)
(***************************************************************************)
EXTENDS PushProofs

-----------------------------------------------------------------------------
(* Steps that submit nothing.                                               *)

\* What a step that is no turn of the loop may make of push u: w.  While it
\* builds nothing of what the loop goes by changes; when it comes to build it
\* starts over, with every ref it wrote unless it never will.  The refs it
\* wrote meanwhile have update keys, k.
KeptTurn(u, w, t, k) ==
    /\ w.nbuilds = u.nbuilds
    /\ u.pc \in Built => /\ w.pc \in Built
                         /\ w.todo = u.todo /\ w.seen = u.seen
                         /\ w.written = u.written /\ w.cmds = u.cmds
                         /\ w.asked = u.asked /\ w.opts = u.opts
    /\ u.pc \notin Built /\ w.pc \in Built =>
          /\ w.seen = {}
          /\ w.todo = w.written \/ w.written = {} \/ t # {}
    /\ w.opts = u.opts \/ w.opts \in {w.asked, NoOptions}
    /\ w.written \subseteq u.written \cup k

TurnsKept ==
    /\ UNCHANGED builds
    /\ \A q \in Pushes : KeptTurn(push[q], push'[q], torn'[q], redis'[q].refs)

\* A push that stays is kept.
LEMMA OthersKept ==
    ASSUME UNCHANGED builds, NEW p \in Pushes,
           \A q \in Pushes \ {p} : push'[q] = push[q],
           KeptTurn(push[p], push'[p], torn'[p], redis'[p].refs)
    PROVE  TurnsKept
BY DEF TurnsKept, KeptTurn

LEMMA StoreKept ==
    ASSUME UNCHANGED <<builds, push>>
    PROVE  TurnsKept
BY DEF TurnsKept, KeptTurn

LEMMA EarlyKept ==
    ASSUME TypeInv, NEW p \in Pushes,
           \/ \E u \in Users, n \in Names : Lookup(p, u, n)
           \/ LookupRedirect(p) \/ Autocreate(p)
           \/ \E cmds \in Commands, asked \in Asks : Exec(p, cmds, asked)
    PROVE  TurnsKept
<1>1. push \in [Pushes -> PushRecord] /\ UNCHANGED builds
  BY TypeInvIs DEF Lookup, LookupRedirect, Autocreate, Exec
<1>2. push[p].pc \in {"idle", "redirect", "create", "exec"}
  BY DEF Lookup, LookupRedirect, Autocreate, Exec
<1>3. push[p].nbuilds = 0 /\ push[p].pc \notin Built /\ push[p].opts = NoOptions
  BY <1>2, TypeInvIs DEF Proper, Phased, Built
<1>4. \A q \in Pushes \ {p} : push'[q] = push[q]
  BY <1>1 DEF Lookup, LookupRedirect, Autocreate, Exec, Goto
<1>5. push'[p].pc \notin Opened \ {"prereceive"}
  <2>1. ASSUME NEW u \in Users, NEW n \in Names, Lookup(p, u, n)
        PROVE  push'[p].pc \notin Opened \ {"prereceive"}
    <3> DEFINE who == [Fresh EXCEPT !.user = u, !.path = n]
    <3>1. CASE push' = [push EXCEPT ![p] = [who EXCEPT !.pc = "redirect"]]
      BY <1>1, <3>1 DEF Fresh, Opened
    <3>2. CASE push' = [push EXCEPT ![p] = [who EXCEPT
                           !.pc = "exec", !.repo = At(n), !.vis = vis[At(n)]]]
      BY <1>1, <3>2 DEF Fresh, Opened
    <3>3. CASE push' = [push EXCEPT ![p] = [who EXCEPT !.pc = "refused"]]
      BY <1>1, <3>3 DEF Fresh, Opened
    <3> QED BY <2>1, <3>1, <3>2, <3>3 DEF Lookup
  <2>2. CASE LookupRedirect(p)
    BY <1>1, <2>2 DEF LookupRedirect, Goto, PushRecord, Opened
  <2>3. CASE Autocreate(p)
    <3>1. CASE Goto(p, "refused")
      BY <1>1, <3>1 DEF Goto, PushRecord, Opened
    <3>2. ASSUME NEW r, push' = [push EXCEPT ![p].pc = "exec", ![p].repo = r,
                                   ![p].vis = "PRIVATE", ![p].auto = TRUE]
          PROVE  push'[p].pc \notin Opened \ {"prereceive"}
      BY <1>1, <3>2 DEF PushRecord, Opened
    <3> QED BY <2>3, <3>1, <3>2 DEF Autocreate
  <2>4. ASSUME NEW cmds \in Commands, NEW asked \in Asks, Exec(p, cmds, asked)
        PROVE  push'[p].pc \notin Opened \ {"prereceive"}
    <3>1. CASE Goto(p, "refused")
      BY <1>1, <3>1 DEF Goto, PushRecord, Opened
    <3>2. ASSUME NEW old, push' = [push EXCEPT
                    ![p].pc = "prereceive", ![p].dir = At(push[p].path),
                    ![p].asked = asked, ![p].cmds = cmds, ![p].old = old,
                    ![p].todo = DOMAIN cmds]
          PROVE  push'[p].pc \notin Opened \ {"prereceive"}
      BY <1>1, <3>2 DEF PushRecord, Opened
    <3> QED BY <2>4, <3>1, <3>2 DEF Exec
  <2> QED BY <2>1, <2>2, <2>3, <2>4
<1>6. TypeInv'
  BY LookupTyped, LookupRedirectTyped, AutocreateTyped, ExecTyped
<1>7. /\ push'[p].nbuilds = 0 /\ push'[p].opts = NoOptions
      /\ push'[p].written = {} /\ push'[p].pc \notin Built
  <2>1. Phased(push[p])'
    BY <1>6 DEF TypeInv, PhaseInv
  <2> QED BY <1>5, <2>1 DEF Phased, Built, Opened
<1>8. KeptTurn(push[p], push'[p], torn'[p], redis'[p].refs)
  BY <1>3, <1>7 DEF KeptTurn
<1> QED BY <1>1, <1>4, <1>8, OthersKept

LEMMA HooksKept ==
    ASSUME TypeInv, NEW p \in Pushes,
           \/ PreReceive(p) \/ Updated(p) \/ PostReceive(p)
           \/ HeadCheck(p) \/ HeadSet(p)
    PROVE  TurnsKept
<1>1. push \in [Pushes -> PushRecord] /\ UNCHANGED builds
  BY TypeInvIs DEF PreReceive, Updated, PostReceive, HeadCheck, HeadSet
<1>2. Proper(push[p])
  BY TypeInvIs
<1>3. PICK pc, b : push' = [push EXCEPT ![p].pc = pc, ![p].pick = b]
  <2>1. ASSUME NEW pc, Goto(p, pc)
        PROVE  push' = [push EXCEPT ![p].pc = pc, ![p].pick = push[p].pick]
    BY <1>1, <2>1 DEF Goto, PushRecord
  <2>2. CASE PreReceive(p) \/ Updated(p) \/ PostReceive(p) \/ HeadSet(p)
    BY <2>1, <2>2 DEF PreReceive, Updated, PostReceive, HeadSet
  <2>3. CASE HeadCheck(p)
    BY <2>1, <2>3 DEF HeadCheck
  <2> QED BY <2>2, <2>3
<1>4. /\ \A q \in Pushes \ {p} : push'[q] = push[q]
      /\ push'[p].pc = pc
      /\ push'[p].nbuilds = push[p].nbuilds
      /\ push'[p].todo = push[p].todo /\ push'[p].seen = push[p].seen
      /\ push'[p].written = push[p].written /\ push'[p].cmds = push[p].cmds
      /\ push'[p].asked = push[p].asked /\ push'[p].opts = push[p].opts
  BY <1>1, <1>3 DEF PushRecord
<1>5. push[p].pc \in Built => push'[p].pc \in Built
  <2>1. CASE PreReceive(p) \/ Updated(p) \/ PostReceive(p)
    BY <2>1 DEF PreReceive, Updated, PostReceive, Built
  <2>2. CASE HeadCheck(p) \/ HeadSet(p)
    BY <1>1, <2>2 DEF HeadCheck, HeadSet, Goto, Built, PushRecord
  <2> QED BY <2>1, <2>2
<1>6. push[p].pc \notin Built /\ push'[p].pc \in Built => push[p].written = {}
  <2>1. CASE PreReceive(p) \/ PostReceive(p)
    BY <1>1, <2>1 DEF PreReceive, PostReceive, Goto, Built, PushRecord
  <2>2. CASE Updated(p)
    BY <1>1, <2>2 DEF Updated, Goto, Built, PushRecord
  <2>3. CASE HeadCheck(p) \/ HeadSet(p)
    BY <2>3 DEF HeadCheck, HeadSet, Built
  <2> QED BY <2>1, <2>2, <2>3
<1>7. push[p].pc \notin Built => push[p].seen = {}
  BY <1>2 DEF Proper, Phased
<1>8. KeptTurn(push[p], push'[p], torn'[p], redis'[p].refs)
  BY <1>4, <1>5, <1>6, <1>7 DEF KeptTurn
<1> QED BY <1>1, <1>4, <1>8, OthersKept

LEMMA UpdateRefKept ==
    ASSUME TypeInv, NEW p \in Pushes, NEW ref \in Refs, UpdateRef(p, ref)
    PROVE  TurnsKept
<1>1. push \in [Pushes -> PushRecord] /\ UNCHANGED builds /\ push[p].pc = "update"
  BY TypeInvIs DEF UpdateRef
<1>2. /\ \A q \in Pushes \ {p} : push'[q] = push[q]
      /\ push'[p].nbuilds = push[p].nbuilds /\ push'[p].pc = push[p].pc
      /\ push'[p].opts = push[p].opts
      /\ push'[p].written \subseteq push[p].written \cup {ref}
  BY <1>1 DEF UpdateRef, PushRecord
<1>3. ref \in redis'[p].refs
  BY TypeInvIs DEF OthersOK, UpdateRef
<1>4. KeptTurn(push[p], push'[p], torn'[p], redis'[p].refs)
  BY <1>1, <1>2, <1>3 DEF KeptTurn, Built
<1> QED BY <1>1, <1>2, <1>4, OthersKept

LEMMA PostUpdateKept ==
    ASSUME TypeInv, NEW p \in Pushes, PostUpdate(p)
    PROVE  TurnsKept
<1> DEFINE o == IF redis[p].opts THEN push[p].asked ELSE NoOptions
<1>1. push \in [Pushes -> PushRecord] /\ torn \in [Pushes -> SUBSET Misses]
      /\ UNCHANGED builds /\ push[p].pc = "postupdate"
  BY TypeInvIs DEF OthersOK, PostUpdate
<1>2. push[p].seen = {} /\ push[p].pc \notin Built
  BY <1>1, TypeInvIs DEF Proper, Phased, Built
<1>3. CASE Goto(p, "done") /\ torn'[p] # {}
  <2>1. /\ \A q \in Pushes \ {p} : push'[q] = push[q]
        /\ push'[p].nbuilds = push[p].nbuilds /\ push'[p].opts = push[p].opts
        /\ push'[p].seen = push[p].seen /\ torn'[p] # {}
        /\ push'[p].written = push[p].written
    BY <1>1, <1>3 DEF PushRecord, Goto
  <2>2. KeptTurn(push[p], push'[p], torn'[p], redis'[p].refs)
    BY <1>2, <2>1 DEF KeptTurn
  <2> QED BY <1>1, <2>1, <2>2, OthersKept
<1>4. CASE push' = [push EXCEPT
                 ![p].pc = "build", ![p].opts = o,
                 ![p].vis = IF o.vis = None THEN @ ELSE o.vis,
                 ![p].todo = push[p].written]
  <2>1. /\ \A q \in Pushes \ {p} : push'[q] = push[q]
        /\ push'[p].nbuilds = push[p].nbuilds /\ push'[p].opts = o
        /\ push'[p].seen = push[p].seen /\ push'[p].asked = push[p].asked
        /\ push'[p].todo = push[p].written /\ push'[p].written = push[p].written
    BY <1>1, <1>4 DEF PushRecord
  <2>2. KeptTurn(push[p], push'[p], torn'[p], redis'[p].refs)
    BY <1>2, <2>1 DEF KeptTurn
  <2> QED BY <1>1, <2>1, <2>2, OthersKept
<1>5. ASSUME NEW t \in {torn, Revised(p, push[p].repo)},
             torn' = [t EXCEPT ![p] = @ \cup {"fatal"}]
      PROVE  torn'[p] # {}
  BY <1>1, <1>5 DEF Revised
<1> QED BY <1>3, <1>4, <1>5 DEF PostUpdate

\* Every step is a turn of the loop or leaves the loops alone.
LEMMA TurnOrKept ==
    ASSUME TypeInv, [Next]_vars
    PROVE  TurnsKept \/ \E p \in Pushes, ref \in Refs : BuildRef(p, ref)
<1>1. ASSUME NEW p \in Pushes, PushStep(p)
      PROVE  TurnsKept \/ \E ref \in Refs : BuildRef(p, ref)
  BY <1>1, EarlyKept, HooksKept, UpdateRefKept, PostUpdateKept DEF PushStep
<1>2. ASSUME NEW p \in Pushes, NEW u \in Users, NEW n \in Names, Lookup(p, u, n)
      PROVE  TurnsKept
  BY <1>2, EarlyKept
<1>3. ASSUME NEW p \in Pushes, Expire(p)
      PROVE  TurnsKept
  BY <1>3, StoreKept DEF Expire
<1>4. ASSUME NEW r \in Repos,
             \/ \E n \in Names, v \in Visibility : Create(r, n, v)
             \/ \E n \in Names : Rename(r, n)
             \/ Delete(r)
             \/ \E v \in Visibility : SetVisibility(r, v)
      PROVE  TurnsKept
  BY <1>4, StoreKept DEF Create, Rename, Delete, SetVisibility
<1>5. CASE UNCHANGED vars
  BY <1>5, StoreKept DEF vars
<1> QED BY <1>1, <1>2, <1>3, <1>4, <1>5 DEF Next

-----------------------------------------------------------------------------
(* Counting builds.                                                         *)

\* One build for each manifest chosen.
LEMMA SubmittedCount ==
    ASSUME NEW p, NEW ref, NEW S, IsFiniteSet(S)
    PROVE  /\ IsFiniteSet(Submitted(p, ref, S))
           /\ Cardinality(Submitted(p, ref, S)) = Cardinality(S)
<1> DEFINE T == Submitted(p, ref, S)
           f == [m \in S |->
                   [push |-> p, ref |-> ref, commit |-> push[p].cmds[ref],
                    manifest |-> m, vis |-> push[p].vis,
                    actual |-> vis[push[p].repo]]]
<1>1. f \in [S -> T]
  BY DEF Submitted
<1>2. \A m, n \in S : f[m] = f[n] => m = n
  <2> SUFFICES ASSUME NEW m \in S, NEW n \in S, f[m] = f[n] PROVE m = n
    OBVIOUS
  <2>1. f[m].manifest = m /\ f[n].manifest = n
    OBVIOUS
  <2> QED BY <2>1
<1>3. \A t \in T : \E m \in S : f[m] = t
  BY DEF Submitted
<1> HIDE DEF f, T
<1>4. f \in Bijection(S, T)
  BY <1>1, <1>2, <1>3 DEF Bijection, Injection, IsInjective, Surjection
<1>5. ExistsBijection(S, T)
  BY <1>4 DEF ExistsBijection
<1> USE DEF T
<1> QED BY <1>5, FS_Bijection

LEMMA DisjointCount ==
    ASSUME NEW A, NEW B, IsFiniteSet(A), IsFiniteSet(B), A \cap B = {}
    PROVE  /\ IsFiniteSet(A \cup B)
           /\ Cardinality(A \cup B) = Cardinality(A) + Cardinality(B)
<1>1. Cardinality(A) \in Nat /\ Cardinality(B) \in Nat
  BY FS_CardinalityType
<1>2. Cardinality(A \cap B) = 0
  BY FS_EmptySet
<1>3. /\ IsFiniteSet(A \cup B)
      /\ Cardinality(A \cup B)
            = Cardinality(A) + Cardinality(B) - Cardinality(A \cap B)
  BY FS_Union
<1> QED BY <1>1, <1>2, <1>3

\* What a step that is no turn leaves of the counts.
LEMMA KeptCounts ==
    ASSUME TypeInv, CountInv, [Next]_vars, TurnsKept
    PROVE  CountInv'
<1>1. \A q \in Pushes : torn[q] \subseteq torn'[q]
  BY TornGrows
<1>2. \A b \in builds : b.push \in Pushes
  BY TypeInvIs DEF OthersOK, Build
<1>3. builds' = builds
  BY DEF TurnsKept
<1>4. \A b \in builds' : /\ push'[b.push].pc \in Built
                         /\ b.ref \notin push'[b.push].todo
                         /\ b.commit \in push'[b.push].seen
  BY <1>2, <1>3 DEF CountInv, TurnsKept, KeptTurn
<1>5. ASSUME NEW q \in Pushes
      PROVE  /\ BuildsOf(q)' = BuildsOf(q)
             /\ push'[q].nbuilds = push[q].nbuilds
             /\ "failed" \notin torn'[q] => "failed" \notin torn[q]
  BY <1>1, <1>3 DEF BuildsOf, TurnsKept, KeptTurn
<1> QED BY <1>4, <1>5 DEF CountInv

\* A turn that submits one build for each of S, of a commit no build is of yet.
LEMMA TurnCounts ==
    ASSUME TypeInv, CountInv, [Next]_vars,
           NEW p \in Pushes, NEW ref \in push[p].todo, push[p].pc = "build",
           push[p].cmds[ref] \in Commits \ push[p].seen,
           NEW S, IsFiniteSet(S), Cardinality(S) <= Limit,
           NEW n, n \in Nat,
           builds' = builds \cup Submitted(p, ref, S),
           Only(p, Turned(p, ref, push[p].seen \cup {push[p].cmds[ref]}, n)),
           "failed" \notin torn'[p] => /\ n = push[p].nbuilds + Cardinality(S)
                                       /\ n < 2 * Limit
    PROVE  CountInv'
<1> DEFINE c == push[p].cmds[ref]
           T == Submitted(p, ref, S)
<1>1. \A q \in Pushes : torn[q] \subseteq torn'[q]
  BY TornGrows
<1>2. push \in [Pushes -> PushRecord] /\ \A b \in builds : b.push \in Pushes
  BY TypeInvIs DEF OthersOK, Build
<1>3. /\ \A q \in Pushes \ {p} : push'[q] = push[q]
      /\ push'[p].pc = "build" /\ push'[p].nbuilds = n
      /\ push'[p].todo = push[p].todo \ {ref}
      /\ push'[p].seen = push[p].seen \cup {c}
  BY <1>2 DEF Only, Turned, PushRecord
<1>4. \A b \in T : b.push = p /\ b.ref = ref /\ b.commit = c
  BY DEF Submitted
<1>5. IsFiniteSet(T) /\ Cardinality(T) = Cardinality(S) /\ Cardinality(S) \in Nat
  BY SubmittedCount, FS_CardinalityType
<1> HIDE DEF T
<1>6. ASSUME NEW b \in builds'
      PROVE  /\ push'[b.push].pc \in Built
             /\ b.ref \notin push'[b.push].todo
             /\ b.commit \in push'[b.push].seen
  <2>1. CASE b \in T
    BY <1>3, <1>4, <2>1 DEF Built
  <2>2. CASE b \in builds /\ b.push = p
    BY <1>3, <2>2 DEF CountInv, Built
  <2>3. CASE b \in builds /\ b.push # p
    BY <1>2, <1>3, <2>3 DEF CountInv
  <2> QED BY <1>6, <2>1, <2>2, <2>3 DEF T
<1>7. ASSUME NEW q \in Pushes \ {p}
      PROVE  BuildsOf(q)' = BuildsOf(q)
  BY <1>4 DEF BuildsOf, T
<1>8. BuildsOf(p)' = BuildsOf(p) \cup T
  BY <1>4 DEF BuildsOf, T
<1>9. BuildsOf(p) \cap T = {}
  BY <1>4 DEF BuildsOf, CountInv
<1>10. IsFiniteSet(BuildsOf(p)) /\ Cardinality(BuildsOf(p)) \in Nat
  BY FS_CardinalityType DEF CountInv
<1>11. /\ IsFiniteSet(BuildsOf(p)')
       /\ Cardinality(BuildsOf(p)') = Cardinality(BuildsOf(p)) + Cardinality(S)
  BY <1>5, <1>8, <1>9, <1>10, DisjointCount
<1>12. ASSUME NEW x \in Refs
       PROVE  Cardinality({b \in BuildsOf(p)' : b.ref = x}) <= Limit
  <2>1. CASE x = ref
    <3>1. \A b \in BuildsOf(p) : b.ref # ref
      BY DEF BuildsOf, CountInv
    <3>2. {b \in BuildsOf(p)' : b.ref = x} = T
      BY <1>4, <1>8, <2>1, <3>1
    <3> QED BY <1>5, <3>2
  <2>2. CASE x # ref
    <3>1. {b \in BuildsOf(p)' : b.ref = x} = {b \in BuildsOf(p) : b.ref = x}
      BY <1>4, <1>8, <2>2
    <3> QED BY <3>1 DEF CountInv
  <2> QED BY <2>1, <2>2
<1>13. "failed" \notin torn'[p] => /\ n = Cardinality(BuildsOf(p)')
                                   /\ n < 2 * Limit
  BY <1>1, <1>10, <1>11 DEF CountInv
<1>14. ASSUME NEW q \in Pushes
       PROVE  /\ IsFiniteSet(BuildsOf(q)')
              /\ \A x \in Refs : Cardinality({b \in BuildsOf(q)' : b.ref = x}) <= Limit
              /\ "failed" \notin torn'[q] =>
                    /\ push'[q].nbuilds = Cardinality(BuildsOf(q)')
                    /\ push'[q].nbuilds < 2 * Limit
  <2>1. CASE q = p
    BY <1>3, <1>11, <1>12, <1>13, <2>1
  <2>2. CASE q # p
    BY <1>1, <1>3, <1>7, <2>2 DEF CountInv
  <2> QED BY <2>1, <2>2
<1> QED BY <1>6, <1>14 DEF CountInv

\* A ref that is passed over only loses its turn.
LEMMA PassedCounts ==
    ASSUME TypeInv, CountInv, NEW p \in Pushes, NEW ref \in Refs,
           UNCHANGED <<builds, torn>>,
           Only(p, Turned(p, ref, push[p].seen, push[p].nbuilds))
    PROVE  CountInv'
<1>1. push \in [Pushes -> PushRecord] /\ \A b \in builds : b.push \in Pushes
  BY TypeInvIs DEF OthersOK, Build
<1>2. \A q \in Pushes : /\ push'[q].pc = push[q].pc
                        /\ push'[q].todo \subseteq push[q].todo
                        /\ push'[q].seen = push[q].seen
                        /\ push'[q].nbuilds = push[q].nbuilds
  BY <1>1 DEF Only, Turned, PushRecord
<1>3. \A q \in Pushes : BuildsOf(q)' = BuildsOf(q)
  BY DEF BuildsOf
<1>4. \A b \in builds' : /\ push'[b.push].pc \in Built
                         /\ b.ref \notin push'[b.push].todo
                         /\ b.commit \in push'[b.push].seen
  BY <1>1, <1>2 DEF CountInv
<1> QED BY <1>2, <1>3, <1>4 DEF CountInv

LEMMA BuildRefCounts ==
    ASSUME TypeInv, CountInv, [Next]_vars, NEW p \in Pushes, NEW ref \in Refs,
           BuildRef(p, ref)
    PROVE  CountInv'
<1> DEFINE c == push[p].cmds[ref]
<1>1. push[p].pc = "build" /\ ref \in push[p].todo /\ Proper(push[p])
  BY TypeInvIs DEF BuildRef
<1>2. Found(p, ref) => c \in Commits
  BY <1>1 DEF Proper, PushRecord, Commanded, Commands, NoCommands, Found
<1>3. push[p].nbuilds \in Nat /\ Limit \in Nat \ {0}
  BY <1>1, LimitAssumption DEF Proper, PushRecord
<1>4. CASE /\ Only(p, Turned(p, ref, push[p].seen, push[p].nbuilds))
           /\ UNCHANGED <<builds, torn>>
  BY <1>4, PassedCounts
<1>5. ASSUME Found(p, ref), c \notin push[p].seen, UNCHANGED torn,
             NEW S \in IF Submits(p) THEN Choices(c, ref) ELSE {{}},
             builds' = builds \cup Submitted(p, ref, S),
             Only(p, Turned(p, ref, push[p].seen \cup {c},
                            push[p].nbuilds + Cardinality(S)))
      PROVE  CountInv'
  <2> DEFINE n == push[p].nbuilds + Cardinality(S)
  <2>1. /\ IsFiniteSet(S) /\ Cardinality(S) \in Nat /\ Cardinality(S) <= Limit
        /\ S = {} \/ push[p].nbuilds < Limit
    <3>1. CASE S = {}
      BY <1>3, <3>1, FS_EmptySet
    <3>2. CASE Submits(p) /\ S \in Choices(c, ref)
      BY <1>2, <1>5, <3>2, ChosenIs DEF Submits
    <3> QED BY <1>5, <3>1, <3>2
  <2>2. n \in Nat
    BY <1>3, <2>1
  <2>3. "failed" \notin torn'[p] => n < 2 * Limit
    <3>1. CASE S = {}
      BY <1>3, <1>5, <3>1, FS_EmptySet DEF CountInv
    <3>2. CASE push[p].nbuilds < Limit
      BY <1>3, <2>1, <3>2
    <3> QED BY <2>1, <3>1, <3>2
  <2> HIDE DEF n
  <2> QED BY <1>1, <1>2, <1>5, <2>1, <2>2, <2>3, TurnCounts DEF n
<1>6. ASSUME Found(p, ref), c \notin push[p].seen,
             NEW S \in SUBSET Wanted(c, ref), Cardinality(S) < Limit,
             builds' = builds \cup Submitted(p, ref, S),
             Only(p, Turned(p, ref, push[p].seen \cup {c}, push[p].nbuilds)),
             torn' = [torn EXCEPT ![p] = @ \cup {"failed"}]
      PROVE  CountInv'
  <2>1. IsFiniteSet(S) /\ Cardinality(S) \in Nat
    BY <1>2, <1>6, WantedIs
  <2>2. Cardinality(S) <= Limit
    BY <1>3, <1>6, <2>1
  <2>3. "failed" \in torn'[p]
    BY <1>6, TypeInvIs DEF OthersOK
  <2> QED BY <1>1, <1>2, <1>3, <1>6, <2>1, <2>2, <2>3, TurnCounts
<1> QED BY <1>4, <1>5, <1>6, BuildRefIs

LEMMA CountStep == TypeInv /\ CountInv /\ [Next]_vars => CountInv'
BY TurnOrKept, KeptCounts, BuildRefCounts

LEMMA InitCounts == Init => CountInv
<1> SUFFICES ASSUME Init PROVE CountInv
  OBVIOUS
<1>1. \A p \in Pushes : BuildsOf(p) = {} /\ push[p].nbuilds = 0
  BY DEF Init, BuildsOf, Fresh
<1>2. \A p \in Pushes, ref \in Refs : {b \in BuildsOf(p) : b.ref = ref} = {}
  BY <1>1
<1>3. Limit \in Nat \ {0} /\ IsFiniteSet({}) /\ Cardinality({}) = 0
  BY LimitAssumption, FS_EmptySet
<1>4. 0 <= Limit /\ 0 < 2 * Limit
  BY <1>3
<1> QED BY <1>1, <1>2, <1>3, <1>4 DEF Init, CountInv

LEMMA CountAlways == Spec => [](TypeInv /\ CountInv)
BY InitTyped, InitCounts, TypeStep, CountStep, PTL DEF Spec

\* One ref of a push gets Limit builds at most, and the push, unless submitting
\* one failed, fewer than twice Limit: however many refs and manifests it has.
THEOREM BuildsAreBounded == Spec => []BuildsBounded
<1>1. TypeInv /\ CountInv => BuildsBounded
  BY DEF CountInv, BuildsBounded
<1> QED BY <1>1, CountAlways, PTL

-----------------------------------------------------------------------------
(* Every commit of an undisturbed push is built.                            *)

\* A turn of the loop changes nothing a push was sent or has written.
LEMMA TurnLeaves ==
    ASSUME TypeInv, NEW p \in Pushes, NEW ref \in Refs, BuildRef(p, ref),
           NEW q \in Pushes
    PROVE  /\ push'[q].opts = push[q].opts /\ push'[q].asked = push[q].asked
           /\ push'[q].written = push[q].written /\ push'[q].cmds = push[q].cmds
           /\ push'[q].pc = push[q].pc
           /\ q # p => push'[q] = push[q]
<1>1. PICK k, n : Only(p, Turned(p, ref, k, n))
  BY BuildRefIs
<1> QED BY <1>1, TypeInvIs DEF Only, Turned, PushRecord

\* What a push does without building, its client asked for.
LEMMA AskedStep ==
    ASSUME TypeInv, AskedInv, [Next]_vars
    PROVE  AskedInv'
<1> SUFFICES ASSUME NEW q \in Pushes, push'[q].opts.skip
             PROVE  push'[q].asked.skip
  BY DEF AskedInv
<1>1. push[q].opts.skip => push[q].asked.skip
  BY DEF AskedInv
<1>2. push[q].pc \notin Built => push[q].opts = NoOptions
  BY TypeInvIs DEF Proper, Phased
<1>3. ~NoOptions.skip
  BY DEF NoOptions
<1>4. CASE push[q].pc \in Built /\ TurnsKept
  BY <1>1, <1>4 DEF TurnsKept, KeptTurn
<1>5. CASE push[q].pc \notin Built /\ TurnsKept
  BY <1>2, <1>3, <1>5 DEF TurnsKept, KeptTurn
<1> QED BY <1>1, <1>4, <1>5, TurnOrKept, TurnLeaves

\* Redis drops an update key only where that is noted.
LEMMA RedisKeeps ==
    ASSUME TypeInv, [Next]_vars, NEW q \in Pushes, "expired" \notin torn'[q]
    PROVE  redis[q].refs \subseteq redis'[q].refs
<1>1. redis \in [Pushes -> [refs : SUBSET Refs, opts : BOOLEAN]]
      /\ torn \in [Pushes -> SUBSET Misses]
  BY TypeInvIs DEF OthersOK
<1>2. CASE UNCHANGED redis
  BY <1>2
<1>3. ASSUME NEW p \in Pushes, PreReceive(p) \/ PostReceive(p)
      PROVE  redis[q].refs \subseteq redis'[q].refs
  BY <1>1, <1>3 DEF PreReceive, PostReceive
<1>4. ASSUME NEW p \in Pushes, NEW ref \in Refs, UpdateRef(p, ref)
      PROVE  redis[q].refs \subseteq redis'[q].refs
  BY <1>1, <1>4 DEF UpdateRef
<1>5. ASSUME NEW p \in Pushes, Expire(p)
      PROVE  redis[q].refs \subseteq redis'[q].refs
  BY <1>1, <1>5 DEF Expire
<1>6. ASSUME NEW p \in Pushes, PushStep(p)
      PROVE  redis[q].refs \subseteq redis'[q].refs
  BY <1>2, <1>3, <1>4, <1>6
  DEF PushStep, LookupRedirect, Autocreate, Exec, Updated, PostUpdate, BuildRef,
      HeadCheck, HeadSet
<1>7. CASE UNCHANGED vars
  BY <1>2, <1>7 DEF vars
<1> QED BY <1>2, <1>5, <1>6, <1>7
        DEF Next, Lookup, Create, Rename, Delete, SetVisibility

LEMMA KeyedStep ==
    ASSUME TypeInv, KeyedInv, [Next]_vars
    PROVE  KeyedInv'
<1> SUFFICES ASSUME NEW q \in Pushes, "expired" \notin torn'[q]
             PROVE  push'[q].written \subseteq redis'[q].refs
  BY DEF KeyedInv
<1>1. push[q].written \subseteq redis[q].refs
  BY TornGrows DEF KeyedInv
<1>2. redis[q].refs \subseteq redis'[q].refs
  BY RedisKeeps
<1>3. CASE TurnsKept
  BY <1>1, <1>2, <1>3 DEF TurnsKept, KeptTurn
<1>4. ASSUME NEW p \in Pushes, NEW ref \in Refs, BuildRef(p, ref)
      PROVE  push'[q].written = push[q].written
  BY <1>4, TurnLeaves
<1> QED BY <1>1, <1>2, <1>3, <1>4, TurnOrKept

LoopInv == AskedInv /\ KeyedInv /\ SettledInv

\* A commit stays settled while builds only come to those there are.
LEMMA SettledStays ==
    ASSUME CountInv', NEW q \in Pushes, NEW c, Settled(q, c),
           builds \subseteq builds',
           push'[q].written = push[q].written, push'[q].cmds = push[q].cmds
    PROVE  Settled(q, c)'
<1>1. BuildsOf(q) \subseteq BuildsOf(q)' /\ IsFiniteSet(BuildsOf(q)')
  BY DEF BuildsOf, CountInv
<1>2. /\ Cardinality(BuildsOf(q)) <= Cardinality(BuildsOf(q)')
      /\ Cardinality(BuildsOf(q)) \in Nat /\ Cardinality(BuildsOf(q)') \in Nat
  BY <1>1, FS_Subset, FS_CardinalityType
<1>3. Limit \in Nat
  BY LimitAssumption
<1>4. CASE Cardinality(BuildsOf(q)) >= Limit
  BY <1>2, <1>3, <1>4 DEF Settled
<1>5. CASE \E b \in BuildsOf(q) : b.commit = c
  BY <1>1, <1>5 DEF Settled
<1>6. CASE \E first \in push[q].written :
              push[q].cmds[first] = c /\ Wanted(c, first) = {}
  BY <1>6 DEF Settled, Wanted, Allowed
<1> QED BY <1>4, <1>5, <1>6 DEF Settled

LEMMA KeptSettled ==
    ASSUME TypeInv, CountInv', SettledInv, [Next]_vars, TurnsKept
    PROVE  SettledInv'
<1> SUFFICES ASSUME NEW q \in Pushes, push'[q].pc \in Built, torn'[q] = {},
                    ~push'[q].asked.skip
             PROVE  /\ \A c \in push'[q].seen : Settled(q, c)'
                    /\ \A ref \in push'[q].written \ push'[q].todo :
                          \/ push'[q].cmds[ref] = None
                          \/ Settled(q, push[q].cmds[ref])'
  BY DEF SettledInv
<1>1. torn[q] = {} /\ builds' = builds
  BY TornGrows DEF TurnsKept
<1>2. CASE push[q].pc \in Built
  <2>1. /\ push'[q].todo = push[q].todo /\ push'[q].seen = push[q].seen
        /\ push'[q].written = push[q].written /\ push'[q].cmds = push[q].cmds
        /\ push'[q].asked = push[q].asked
    BY <1>2 DEF TurnsKept, KeptTurn
  <2>2. /\ \A c \in push[q].seen : Settled(q, c)
        /\ \A ref \in push[q].written \ push[q].todo :
              push[q].cmds[ref] = None \/ Settled(q, push[q].cmds[ref])
    BY <1>1, <1>2, <2>1 DEF SettledInv
  <2>3. ASSUME NEW c, Settled(q, c) PROVE Settled(q, c)'
    BY <1>1, <2>1, <2>3, SettledStays
  <2>4. \A c \in push'[q].seen : Settled(q, c)'
    BY <2>1, <2>2, <2>3
  <2>5. ASSUME NEW ref \in push'[q].written \ push'[q].todo,
               push'[q].cmds[ref] # None
        PROVE  Settled(q, push[q].cmds[ref])'
    <3>1. PICK c : c = push[q].cmds[ref]
      OBVIOUS
    <3>2. Settled(q, c)'
      BY <2>1, <2>2, <2>3, <2>5, <3>1
    <3>3. c = push'[q].cmds[ref]
      BY <2>1, <3>1
    <3> QED BY <3>2, <3>3
  <2> QED BY <2>4, <2>5
<1>3. CASE push[q].pc \notin Built
  BY <1>3 DEF TurnsKept, KeptTurn
<1> QED BY <1>2, <1>3

\* The turn that sees a commit settles it, when nothing failed and the client
\* asked for builds.
LEMMA TurnSettles ==
    ASSUME TypeInv, CountInv, CountInv', AskedInv, [Next]_vars,
           NEW p \in Pushes, NEW ref \in Refs, BuildRef(p, ref),
           torn'[p] = {}, ~push[p].asked.skip,
           Found(p, ref), push[p].cmds[ref] \notin push[p].seen,
           NEW c, c = push[p].cmds[ref]
    PROVE  Settled(p, c)'
<1>1. push[p].pc = "build" /\ ref \in push[p].todo /\ Proper(push[p])
  BY TypeInvIs DEF BuildRef
<1>2. c \in Commits
  BY <1>1 DEF Proper, PushRecord, Commanded, Commands, NoCommands, Found
<1>3. ref \in push[p].written
  BY <1>1 DEF Proper, Phased
<1>4. push'[p].written = push[p].written /\ push'[p].cmds = push[p].cmds
      /\ torn[p] = {}
  BY TurnLeaves, TornGrows
<1>5. PICK S \in IF Submits(p) THEN Choices(c, ref) ELSE {{}} :
         builds' = builds \cup Submitted(p, ref, S)
  <2>1. torn' # [torn EXCEPT ![p] = @ \cup {"failed"}]
    BY TypeInvIs DEF OthersOK
  <2> QED BY <2>1, BuildRefIs
<1>6. CASE S # {}
  <2>1. PICK m \in S : TRUE
    BY <1>6
  <2> DEFINE b == [push |-> p, ref |-> ref, commit |-> push[p].cmds[ref],
                   manifest |-> m, vis |-> push[p].vis,
                   actual |-> vis[push[p].repo]]
  <2>2. \E x \in builds' : x.push = p /\ x.commit = c
    <3>1. b \in Submitted(p, ref, S)
      BY <2>1 DEF Submitted
    <3>2. b.push = p /\ b.commit = c
      OBVIOUS
    <3> QED BY <1>5, <3>1, <3>2
  <2> QED BY <2>2 DEF Settled, BuildsOf
<1>7. CASE S = {} /\ Submits(p)
  <2>1. Wanted(c, ref) = {}
    BY <1>2, <1>5, <1>7, ChosenIs
  <2>2. \E first \in push'[p].written :
           push'[p].cmds[first] = c /\ Wanted(c, first) = {}
    BY <1>3, <1>4, <2>1
  <2> QED BY <2>2 DEF Settled, Wanted, Allowed
<1>8. CASE ~Submits(p)
  <2>1. ~push[p].opts.skip
    BY DEF AskedInv
  <2>2. push[p].nbuilds >= Limit
    BY <1>1, <1>8, <2>1, LimitAssumption DEF Submits, Proper, PushRecord
  <2>3. Cardinality(BuildsOf(p)) >= Limit
    BY <1>4, <2>2 DEF CountInv
  <2>4. Settled(p, c)
    BY <2>3 DEF Settled
  <2>5. builds \subseteq builds'
    BY <1>5
  <2> QED BY <1>4, <2>4, <2>5, SettledStays
<1> QED BY <1>6, <1>7, <1>8

LEMMA BuildRefSettles ==
    ASSUME TypeInv, ContextInv, CountInv, CountInv', LoopInv, [Next]_vars,
           NEW p \in Pushes, NEW ref \in Refs, BuildRef(p, ref)
    PROVE  SettledInv'
<1> SUFFICES ASSUME NEW q \in Pushes, push'[q].pc \in Built, torn'[q] = {},
                    ~push'[q].asked.skip
             PROVE  /\ \A c \in push'[q].seen : Settled(q, c)'
                    /\ \A x \in push'[q].written \ push'[q].todo :
                          \/ push'[q].cmds[x] = None
                          \/ Settled(q, push[q].cmds[x])'
  BY DEF SettledInv
<1>1. torn[q] = {}
  BY TornGrows
<1>2. /\ push'[q].written = push[q].written /\ push'[q].cmds = push[q].cmds
      /\ push'[q].pc = push[q].pc /\ push'[q].asked = push[q].asked
      /\ q # p => push'[q] = push[q]
  BY TurnLeaves
<1>3. builds \subseteq builds'
  BY BuildRefAdds
<1>4. /\ \A c \in push[q].seen : Settled(q, c)
      /\ \A x \in push[q].written \ push[q].todo :
            push[q].cmds[x] = None \/ Settled(q, push[q].cmds[x])
  BY <1>1, <1>2 DEF LoopInv, SettledInv
<1>5. ASSUME NEW c, Settled(q, c) PROVE Settled(q, c)'
  BY <1>2, <1>3, <1>5, SettledStays
<1>6. ASSUME NEW x \in push[q].written \ push[q].todo, push[q].cmds[x] # None
      PROVE  Settled(q, push[q].cmds[x])'
  <2>1. PICK c : c = push[q].cmds[x]
    OBVIOUS
  <2>2. Settled(q, c)'
    BY <1>4, <1>5, <1>6, <2>1
  <2> QED BY <1>2, <2>1, <2>2
<1>7. CASE q # p
  BY <1>2, <1>4, <1>5, <1>6, <1>7
<1>8. CASE q = p
  <2>1. PICK c : c = push[p].cmds[ref]
    OBVIOUS
  <2>2. push[p].pc = "build" /\ ref \in push[p].todo
    BY DEF BuildRef
  <2>3. PICK k, n : Only(p, Turned(p, ref, k, n)) /\ k \subseteq push[p].seen \cup {c}
        /\ (k # push[p].seen => Found(p, ref) /\ c \notin push[p].seen)
    BY <2>1, BuildRefIs
  <2>4. push'[p].todo = push[p].todo \ {ref} /\ push'[p].seen = k
    BY <2>3, TypeInvIs DEF Only, Turned, PushRecord
  <2>5. Found(p, ref) => Settled(p, c)'
    <3>1. CASE c \in push[p].seen
      BY <1>4, <1>5, <1>8, <3>1
    <3>2. CASE c \notin push[p].seen
      BY <1>2, <1>8, <2>1, <3>2, TurnSettles DEF LoopInv
    <3> QED BY <3>1, <3>2
  <2>6. \A x \in push'[p].seen : Settled(p, x)'
    BY <1>4, <1>5, <1>8, <2>3, <2>4, <2>5
  <2>7. ref \in push[p].written /\ c # None => Found(p, ref)
    <3>1. At(push[p].path) = push[p].dir
      BY <1>1, <1>8, <2>2, LooksInItsDirectory
    <3>2. push[p].written \subseteq redis[p].refs
      BY <1>1, <1>8 DEF LoopInv, KeyedInv
    <3> QED BY <2>1, <3>1, <3>2 DEF Found
  <2>8. ASSUME NEW x \in push'[p].written \ push'[p].todo, push'[p].cmds[x] # None
        PROVE  Settled(p, push[p].cmds[x])'
    <3>1. CASE x = ref
      <4>1. Settled(p, c)'
        BY <1>2, <1>8, <2>1, <2>5, <2>7, <2>8, <3>1
      <4>2. c = push'[p].cmds[x]
        BY <1>2, <1>8, <2>1, <3>1
      <4> QED BY <4>1, <4>2
    <3>2. CASE x # ref
      BY <1>2, <1>6, <1>8, <2>4, <2>8, <3>2
    <3> QED BY <3>1, <3>2
  <2> QED BY <1>8, <2>6, <2>8
<1> QED BY <1>7, <1>8

LEMMA LoopStep ==
    TypeInv /\ ContextInv /\ CountInv /\ LoopInv /\ [Next]_vars => LoopInv'
<1> SUFFICES ASSUME TypeInv, ContextInv, CountInv, LoopInv, [Next]_vars
             PROVE  LoopInv'
  OBVIOUS
<1>1. CountInv'
  BY CountStep
<1>2. AskedInv' /\ KeyedInv'
  BY AskedStep, KeyedStep DEF LoopInv
<1>3. SettledInv'
  BY <1>1, TurnOrKept, KeptSettled, BuildRefSettles DEF LoopInv
<1> QED BY <1>2, <1>3 DEF LoopInv

LEMMA InitLoop == Init => LoopInv
BY DEF Init, LoopInv, AskedInv, KeyedInv, SettledInv, Fresh, NoOptions, Built

\* A push that ended undisturbed and asked for builds has built every commit it
\* pushed: unless a rule of its manifests or the limit said not to.
THEOREM CommitsAreBuilt == Spec => []CommitsBuilt
<1>1. TypeInv /\ LoopInv => CommitsBuilt
  <2> SUFFICES ASSUME TypeInv, LoopInv, NEW p \in Pushes, push[p].pc = "done",
                      torn[p] = {}, ~push[p].asked.skip,
                      NEW ref \in push[p].written
               PROVE  push[p].cmds[ref] = None \/ Settled(p, push[p].cmds[ref])
    BY DEF CommitsBuilt, Settled
  <2>1. push[p].todo = {}
    BY TypeInvIs DEF Proper, Phased
  <2> QED BY <2>1 DEF LoopInv, SettledInv, Built
<1>2. Spec => [](TypeInv /\ ContextInv /\ CountInv)
  BY ContextAlways, CountAlways, PTL
<1> QED BY <1>1, <1>2, InitLoop, LoopStep, PTL DEF Spec

=============================================================================
