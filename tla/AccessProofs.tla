---------------------------- MODULE AccessProofs ----------------------------
(***************************************************************************)
(* Proofs about Access, for any number of users, repositories, keys and     *)
(* callers: the five rules are one, and a path that leads to a repository   *)
(* throughout is answered.                                                  *)
(***************************************************************************)
EXTENDS Access, TLAPS

\* No two repositories have one path, and redirects lead to those there are.
Unique ==
    \A i, j \in Ids : cur[i] = cur[j] /\ Live(i) => i = j

AliasLive == \A d \in alias : Live(d.repo)

\* What callers of each kind send.
Fits(c) ==
    c.pc # "idle" =>
        /\ c.path \in Paths
        /\ c.kind = "shell" => c.who \in Users
        /\ c.kind = "key" => c.who \in Keys /\ c.pc \in {"lookup", "answered"}
        /\ c.kind = "web" => c.who \in Users \cup {Nobody} /\ c.need = "read"
        /\ c.kind = "api" => c.who \in Users /\ c.need = "read"
        /\ c.kind = "http" => c.who = Nobody /\ c.pc \in {"lookup", "answered"}
        /\ c.pc = "access" => c.kind = "web" /\ c.who \in Users

\* Every redirect from p leads to i, and there is one.
Sole(i, p) ==
    /\ \E d \in alias : d.path = p
    /\ \A d \in alias : d.path = p => d.repo = i

\* What a caller knows whose path has led to i all along.
Waiting(s, i) ==
    LET c == call[s] IN
    /\ c.pc = "redirect" => Sole(i, c.path)
    /\ c.pc # "create"
    /\ c.pc = "answered" => c.answer \notin {"missing", "denied"}
    /\ c.pc = "access" =>
         /\ c.moved = i
         /\ c.direct # "PRIVATE" \/ grant[i][c.who] # None
    /\ c.kind = "http" /\ c.pc = "lookup" =>
         \/ /\ cur[i] = c.path
            /\ c.direct \in {"unread", "PUBLIC", "UNLISTED"}
         \/ /\ NS!Free(c.path) /\ Sole(i, c.path)
            /\ c.direct \in {"unread", None}
            /\ c.moved \in {"unread", "public", i}

SteadyInv ==
    \A s \in Sessions : /\ Fits(call[s])
                        /\ \A i \in steady[s] : /\ i \in Usable(call[s])
                                                /\ Waiting(s, i)

Inv == TypeOK /\ Unique /\ AliasLive /\ SteadyInv

-----------------------------------------------------------------------------
(* The rules.                                                               *)

LEMMA OwnersAreUsers ==
    ASSUME TypeOK, NEW i \in Ids, Live(i)
    PROVE  /\ cur[i] \in Paths /\ OwnerOf(i) \in Users /\ OwnerOf(i) # Nobody
           /\ vis[i] \in {"PUBLIC", "UNLISTED", "PRIVATE"}
<1>1. cur[i] \in Paths /\ vis[i] \in Visibility
    BY DEF TypeOK, Live
<1>2. OwnerOf(i) \in Owners
    BY <1>1 DEF Paths, OwnerOf
<1> QED
    BY <1>1, <1>2, OwnersAssumption, NoneAssumption, VisibilityAssumption

LEMMA GrantsAreModes ==
    ASSUME TypeOK, NEW i \in Ids, NEW u
    PROVE  GrantOf(i, u) \in {"RO", "RW", None} /\ None \notin {"RO", "RW"}
    BY NoneAssumption DEF TypeOK, GrantOf, Modes

\* The shell's rule, with a grant that is the pusher's.
LEMMA ShellRule ==
    ASSUME TypeOK, NEW i \in Ids, Live(i), NEW u \in Users \cup {Nobody}
    PROVE  ShellAccess(i, u, GrantOf(i, u)) = Rights(i, u)
<1> USE OwnersAreUsers, GrantsAreModes
<1>1. CASE u = OwnerOf(i)
    BY <1>1 DEF ShellAccess, Rights
<1>2. CASE u # OwnerOf(i)
    BY <1>2 DEF ShellAccess, Rights
<1> QED
    BY <1>1, <1>2

\* The web pages' rule.
LEMMA WebRule ==
    ASSUME TypeOK, NEW i \in Ids, Live(i), NEW u \in Users \cup {Nobody}
    PROVE  GetAccess(i, u) = Rights(i, u)
<1> USE OwnersAreUsers, GrantsAreModes
<1>1. CASE u = Nobody
    <2>1. u # OwnerOf(i) /\ GrantOf(i, u) = None
        BY <1>1, NoneAssumption DEF GrantOf
    <2> QED
        BY <1>1, <2>1 DEF GetAccess, WebRights, Rights
<1>2. CASE u = OwnerOf(i)
    BY <1>2 DEF GetAccess, WebRights, Rights
<1>3. CASE u # Nobody /\ u # OwnerOf(i)
    BY <1>3 DEF GetAccess, WebRights, Rights
<1> QED
    BY <1>1, <1>2, <1>3

\* The queries of the loaders and the resolvers.
LEMMA QueryRule ==
    ASSUME TypeOK, NEW i \in Ids, Live(i), NEW u \in Users \cup {Nobody}
    PROVE  /\ Visible(i, u) <=> "read" \in Rights(i, u)
           /\ ModeOf(i, u) = "RW" <=> "write" \in Rights(i, u)
<1> USE OwnersAreUsers, GrantsAreModes
<1>1. Visible(i, u) <=> "read" \in Rights(i, u)
    BY DEF Visible, Rights
<1>2. ModeOf(i, u) = "RW" <=> "write" \in Rights(i, u)
    BY DEF ModeOf, Rights
<1> QED
    BY <1>1, <1>2

LEMMA LoaderRule ==
    ASSUME TypeOK, Unique, NEW i \in Ids, Live(i), NEW u,
           NEW S, cur[i] \in S
    PROVE  ByPath(S, u)[cur[i]] = (IF Visible(i, u) THEN i ELSE None)
<1>1. \A j \in Ids : cur[j] = cur[i] => j = i
    BY DEF Unique
<1> QED
    BY <1>1 DEF ByPath

LEMMA RulesAgree ==
    ASSUME TypeOK, Unique
    PROVE  DecisionsAgree
<1> SUFFICES ASSUME NEW i \in Ids, Live(i), NEW u \in Users \cup {Nobody}
             PROVE  /\ GetAccess(i, u) = Rights(i, u)
                    /\ u \in Users => ShellAccess(i, u, GrantOf(i, u)) = Rights(i, u)
                    /\ Repository(i, u) <=> "read" \in Rights(i, u)
                    /\ RepositoriesByID(Ids, u)[i] = i <=> "read" \in Rights(i, u)
                    /\ RepositoriesByOwnerRepoName(Paths, u)[cur[i]] = i
                          <=> "read" \in Rights(i, u)
                    /\ ModeOf(i, u) = "RW" <=> "write" \in Rights(i, u)
    BY DEF DecisionsAgree
<1>1. None # i
    BY NoneAssumption
<1>2. RepositoriesByID(Ids, u)[i] = i <=> Visible(i, u)
    BY <1>1 DEF RepositoriesByID
<1>3. RepositoriesByOwnerRepoName(Paths, u)[cur[i]] = i <=> Visible(i, u)
    BY <1>1, LoaderRule, OwnersAreUsers DEF RepositoriesByOwnerRepoName
<1>4. Repository(i, u) <=> Visible(i, u)
    BY DEF Repository
<1> QED
    BY <1>2, <1>3, <1>4, ShellRule, WebRule, QueryRule

LEMMA ListRule ==
    ASSUME TypeOK
    PROVE  ListsAgree
<1> SUFFICES ASSUME NEW i \in Ids, Live(i), NEW u \in Users
             PROVE  i \in Listed(OwnerOf(i), u)
                      <=> /\ "read" \in Rights(i, u)
                          /\ vis[i] = "UNLISTED" =>
                                u = OwnerOf(i) \/ GrantOf(i, u) # None
    BY DEF ListsAgree
<1>1. vis[i] \in {"PUBLIC", "UNLISTED", "PRIVATE"}
    BY OwnersAreUsers
<1>2. "read" \in Rights(i, u) <=> Visible(i, u)
    BY QueryRule
<1> QED
    BY <1>1, <1>2 DEF Listed, Visible

-----------------------------------------------------------------------------
(* Lemmas about calls.                                                      *)

Pcs == {"idle", "lookup", "access", "redirect", "create", "answered"}

LEMMA CallStep ==
    ASSUME call \in [Sessions -> Call], NEW s \in Sessions, NEW c \in Call,
           Step(s, c)
    PROVE  /\ call' \in [Sessions -> Call]
           /\ call'[s] = c
           /\ \A t \in Sessions \ {s} : call'[t] = call[t]
    BY DEF Step

\* A caller goes on to another place.
LEMMA Goes ==
    ASSUME call \in [Sessions -> Call], NEW s \in Sessions, NEW pc \in Pcs,
           Goto(s, pc)
    PROVE  /\ call' \in [Sessions -> Call]
           /\ \A t \in Sessions \ {s} : call'[t] = call[t]
           /\ call'[s].kind = call[s].kind /\ call'[s].who = call[s].who
           /\ call'[s].path = call[s].path /\ call'[s].need = call[s].need
           /\ call'[s].pc = pc
<1>1. call[s] \in Call
    OBVIOUS
<1>2. [call[s] EXCEPT !.pc = pc] \in Call
    BY <1>1 DEF Call, Pcs
<1>3. /\ call' \in [Sessions -> Call]
      /\ call'[s] = [call[s] EXCEPT !.pc = pc]
      /\ \A t \in Sessions \ {s} : call'[t] = call[t]
    BY <1>2, CallStep DEF Goto
<1> QED
    BY <1>1, <1>3 DEF Call

\* A caller is answered.
LEMMA Answers ==
    ASSUME call \in [Sessions -> Call], NEW s \in Sessions,
           NEW a \in {"none", "served", "moved", "denied", "missing", "error"},
           Answer(s, a)
    PROVE  /\ call' \in [Sessions -> Call]
           /\ \A t \in Sessions \ {s} : call'[t] = call[t]
           /\ call'[s].kind = call[s].kind /\ call'[s].who = call[s].who
           /\ call'[s].path = call[s].path /\ call'[s].need = call[s].need
           /\ call'[s].pc = "answered" /\ call'[s].answer = a
<1>1. call[s] \in Call
    OBVIOUS
<1> DEFINE c1 == [call[s] EXCEPT !.pc = "answered"]
           c2 == [c1 EXCEPT !.answer = a]
           c3 == [c2 EXCEPT !.direct = "unread"]
           c == [c3 EXCEPT !.moved = "unread"]
<1>2. /\ c.kind = call[s].kind /\ c.who = call[s].who /\ c.path = call[s].path
      /\ c.need = call[s].need /\ c.pc = "answered" /\ c.answer = a
      /\ c \in Call
    <2>1. /\ c1.kind = call[s].kind /\ c1.who = call[s].who
          /\ c1.path = call[s].path /\ c1.need = call[s].need
          /\ c1.pc = "answered" /\ c1 \in Call
        BY <1>1 DEF Call
    <2> HIDE DEF c1
    <2>2. /\ c2.kind = call[s].kind /\ c2.who = call[s].who
          /\ c2.path = call[s].path /\ c2.need = call[s].need
          /\ c2.pc = "answered" /\ c2.answer = a /\ c2 \in Call
        BY <2>1 DEF Call
    <2> HIDE DEF c2
    <2>3. /\ c3.kind = call[s].kind /\ c3.who = call[s].who
          /\ c3.path = call[s].path /\ c3.need = call[s].need
          /\ c3.pc = "answered" /\ c3.answer = a /\ c3 \in Call
        BY <2>2 DEF Call
    <2> HIDE DEF c3
    <2> QED
        BY <2>3 DEF Call
<1>3. Step(s, c)
    BY <1>1 DEF Answer, Call
<1> HIDE DEF c
<1>4. /\ call' \in [Sessions -> Call] /\ call'[s] = c
      /\ \A t \in Sessions \ {s} : call'[t] = call[t]
    BY <1>2, <1>3, CallStep
<1> QED
    BY <1>2, <1>4

\* An HTTP clone has read the repository, or the redirect.
LEMMA ReadsDirect ==
    ASSUME call \in [Sessions -> Call], NEW s \in Sessions,
           NEW d \in {None} \cup Visibility,
           Step(s, [call[s] EXCEPT !.direct = d])
    PROVE  /\ call' \in [Sessions -> Call]
           /\ \A t \in Sessions \ {s} : call'[t] = call[t]
           /\ call'[s].kind = call[s].kind /\ call'[s].who = call[s].who
           /\ call'[s].path = call[s].path /\ call'[s].need = call[s].need
           /\ call'[s].pc = call[s].pc /\ call'[s].moved = call[s].moved
           /\ call'[s].direct = d
<1>1. call[s] \in Call
    OBVIOUS
<1>2. [call[s] EXCEPT !.direct = d] \in Call
    BY <1>1 DEF Call
<1>3. /\ call' \in [Sessions -> Call]
      /\ call'[s] = [call[s] EXCEPT !.direct = d]
      /\ \A t \in Sessions \ {s} : call'[t] = call[t]
    BY <1>2, CallStep
<1> QED
    BY <1>1, <1>3 DEF Call

LEMMA ReadsMoved ==
    ASSUME call \in [Sessions -> Call], NEW s \in Sessions,
           NEW m \in {"public", None} \cup Ids,
           Step(s, [call[s] EXCEPT !.moved = m])
    PROVE  /\ call' \in [Sessions -> Call]
           /\ \A t \in Sessions \ {s} : call'[t] = call[t]
           /\ call'[s].kind = call[s].kind /\ call'[s].who = call[s].who
           /\ call'[s].path = call[s].path /\ call'[s].need = call[s].need
           /\ call'[s].pc = call[s].pc /\ call'[s].direct = call[s].direct
           /\ call'[s].moved = m
<1>1. call[s] \in Call
    OBVIOUS
<1>2. [call[s] EXCEPT !.moved = m] \in Call
    BY <1>1 DEF Call
<1>3. /\ call' \in [Sessions -> Call]
      /\ call'[s] = [call[s] EXCEPT !.moved = m]
      /\ \A t \in Sessions \ {s} : call'[t] = call[t]
    BY <1>2, CallStep
<1> QED
    BY <1>1, <1>3 DEF Call

-----------------------------------------------------------------------------
(* Lookups.                                                                 *)

\* One who finds a repository at a steady path finds the steady one.
LEMMA FoundIsSteady ==
    ASSUME Inv, NEW s \in Sessions, NEW i \in steady[s], call[s].kind # "key",
           NEW j \in Ids, cur[j] = call[s].path
    PROVE  j = i /\ call[s].need \in Rights(i, call[s].who)
<1>1. i \in Usable(call[s])
    BY DEF Inv, SteadyInv
<1>2. NS!Leads(call[s].path) = {i} /\ call[s].need \in Rights(i, call[s].who)
    BY <1>1 DEF Usable
<1>3. j \in NS!Leads(call[s].path)
    BY DEF NS!Leads, NS!Free
<1> QED
    BY <1>2, <1>3

\* One who finds none there knows of its redirect.
LEMMA FreeIsSole ==
    ASSUME Inv, NEW s \in Sessions, NEW i \in steady[s], call[s].kind # "key",
           NS!Free(call[s].path)
    PROVE  Sole(i, call[s].path) /\ Live(i)
<1>1. i \in Usable(call[s])
    BY DEF Inv, SteadyInv
<1>2. {d.repo : d \in {e \in alias : e.path = call[s].path}} = {i}
    BY <1>1 DEF Usable, NS!Leads
<1>3. Sole(i, call[s].path)
    BY <1>2 DEF Sole
<1> QED
    BY <1>3 DEF Sole, Inv, AliasLive

\* The paths a caller may be steady on are live.
LEMMA SteadyIsLive ==
    ASSUME Inv, NEW s \in Sessions, NEW i \in steady[s]
    PROVE  /\ i \in Ids /\ i \in Usable(call[s]) /\ Waiting(s, i)
           /\ call[s].pc # "idle" /\ Fits(call[s]) /\ Live(i)
<1>1. i \in Ids /\ i \in Usable(call[s]) /\ Waiting(s, i) /\ Fits(call[s])
    BY DEF Inv, SteadyInv, TypeOK
<1>2. call[s].pc # "idle" /\ call[s].path \in Paths
    BY <1>1 DEF Usable, Fits
<1>3. CASE call[s].kind = "key"
    BY <1>1, <1>2, <1>3, NoneAssumption DEF Usable, Live
<1>4. CASE call[s].kind # "key" /\ NS!Free(call[s].path)
    BY <1>1, <1>2, <1>4, FreeIsSole
<1>5. CASE call[s].kind # "key" /\ ~NS!Free(call[s].path)
    <2>1. PICK j \in Ids : cur[j] = call[s].path
        BY <1>5 DEF NS!Free
    <2>2. j = i
        BY <1>5, <2>1, FoundIsSteady
    <2> QED
        <3>1. cur[i] = call[s].path /\ call[s].path # None
            BY <1>2, <2>1, <2>2, NoneAssumption
        <3>2. Live(i)
            BY <3>1 DEF Live
        <3> QED
            BY <1>1, <1>2, <3>2
<1> QED
    BY <1>1, <1>2, <1>3, <1>4, <1>5

\* What a call may use depends on no more than this of it.
LEMMA SameCallUsable ==
    ASSUME UNCHANGED rows, NEW s \in Sessions,
           call'[s].kind = call[s].kind, call'[s].who = call[s].who,
           call'[s].path = call[s].path, call'[s].need = call[s].need,
           call'[s].pc # "idle", call[s].pc # "idle"
    PROVE  Usable(call[s])' = Usable(call[s])
    BY DEF rows, Usable, Rights, KeyRights, NS!Leads, NS!Free, OwnerOf, GrantOf

-----------------------------------------------------------------------------
(* Steps that change the tables.                                            *)

NamesStep ==
    \/ \E k \in Ids, q \in Paths : NS!Register(k, q)
    \/ \E k \in Ids, q \in Paths : NS!Rename(k, q)
    \/ \E k \in Ids : NS!Forget(k)
    \/ UNCHANGED <<cur, alias>>

\* Renames excuse clones, and whoever removes an ACL the pages that will miss it.
Excuses(E) ==
    /\ \/ \E k \in Ids, q \in Paths : NS!Register(k, q)
       \/ Cloning \subseteq E
       \/ \E k \in Ids : NS!Forget(k)
       \/ UNCHANGED <<cur, alias>>
    /\ \A t \in Sessions \ E : \A i \in steady[t] \cap Usable(call[t])' :
          /\ call[t].pc = "access" /\ call[t].direct = "PRIVATE"
          /\ grant[i][call[t].who] # None
          => grant'[i][call[t].who] # None

LEMMA RegisterNames ==
    ASSUME TypeOK, Unique, AliasLive, NEW k \in Ids, NEW q \in Paths,
           NS!Register(k, q)
    PROVE  /\ cur' \in [Ids -> Paths \cup {None}] /\ alias' = alias
           /\ cur'[k] = q /\ \A j \in Ids \ {k} : cur'[j] = cur[j]
           /\ cur[k] = None /\ \A j \in Ids : cur[j] # q
           /\ Unique' /\ AliasLive'
<1>1. /\ cur' = [cur EXCEPT ![k] = q] /\ alias' = alias /\ cur[k] = None
      /\ \A j \in Ids : cur[j] # q
    BY DEF NS!Register, NS!Free
<1>2. /\ cur' \in [Ids -> Paths \cup {None}] /\ cur'[k] = q
      /\ \A j \in Ids \ {k} : cur'[j] = cur[j]
    BY <1>1 DEF TypeOK
<1>3. Unique'
    BY <1>1, <1>2 DEF Unique, Live
<1>4. AliasLive'
    BY <1>1, <1>2, NoneAssumption DEF AliasLive, Live, TypeOK
<1> QED
    BY <1>1, <1>2, <1>3, <1>4

LEMMA RenameNames ==
    ASSUME TypeOK, Unique, AliasLive, NEW k \in Ids, NEW q \in Paths,
           NS!Rename(k, q)
    PROVE  /\ cur' \in [Ids -> Paths \cup {None}] /\ Live(k)
           /\ alias' = alias \cup {[path |-> cur[k], repo |-> k]}
           /\ cur'[k] = q /\ \A j \in Ids \ {k} : cur'[j] = cur[j]
           /\ Unique' /\ AliasLive' /\ alias' \subseteq [path : Paths, repo : Ids]
<1>1. /\ cur' = [cur EXCEPT ![k] = q] /\ cur[k] # None
      /\ alias' = alias \cup {[path |-> cur[k], repo |-> k]}
      /\ \A j \in Ids \ {k} : cur[j] # q
    BY DEF NS!Rename
<1>2. /\ cur' \in [Ids -> Paths \cup {None}] /\ cur'[k] = q
      /\ \A j \in Ids \ {k} : cur'[j] = cur[j]
    BY <1>1 DEF TypeOK
<1>3. Unique'
    BY <1>1, <1>2 DEF Unique, Live
<1>4. q # None
    BY NoneAssumption
<1>5. AliasLive'
    BY <1>1, <1>2, <1>4 DEF AliasLive, Live, TypeOK
<1>6. alias' \subseteq [path : Paths, repo : Ids]
    BY <1>1 DEF TypeOK
<1> QED
    BY <1>1, <1>2, <1>3, <1>5, <1>6 DEF Live

LEMMA ForgetNames ==
    ASSUME TypeOK, Unique, AliasLive, NEW k \in Ids, NS!Forget(k)
    PROVE  /\ cur' \in [Ids -> Paths \cup {None}] /\ Live(k)
           /\ alias' = {d \in alias : d.repo # k}
           /\ cur'[k] = None /\ \A j \in Ids \ {k} : cur'[j] = cur[j]
           /\ Unique' /\ AliasLive'
<1>1. /\ cur' = [cur EXCEPT ![k] = None] /\ cur[k] # None
      /\ alias' = {d \in alias : d.repo # k}
    BY DEF NS!Forget
<1>2. /\ cur' \in [Ids -> Paths \cup {None}] /\ cur'[k] = None
      /\ \A j \in Ids \ {k} : cur'[j] = cur[j]
    BY <1>1 DEF TypeOK
<1>3. Unique'
    BY <1>1, <1>2 DEF Unique, Live
<1>4. AliasLive'
    BY <1>1, <1>2 DEF AliasLive, Live, TypeOK
<1> QED
    BY <1>1, <1>2, <1>3, <1>4 DEF Live

\* A path leads to i alone: i is there or is all that was.
LEMMA LeadsToOne ==
    ASSUME NEW i \in Ids, NEW p
    PROVE  NS!Leads(p) = {i} =>
             \/ cur[i] = p /\ \A j \in Ids : cur[j] = p => j = i
             \/ NS!Free(p) /\ Sole(i, p)
    BY DEF NS!Leads, NS!Free, Sole

\* A path that goes on leading to one repository keeps its redirect, and but for
\* renames its holder.
LEMMA PathKeeps ==
    ASSUME TypeOK, Unique, AliasLive, NamesStep,
           NEW i \in Ids, Live(i), NEW p \in Paths,
           NS!Leads(p) = {i}, NS!Leads(p)' = {i}
    PROVE  /\ Sole(i, p) => Sole(i, p)'
           /\ \/ \E k \in Ids, q \in Paths : NS!Register(k, q)
              \/ \E k \in Ids : NS!Forget(k)
              \/ UNCHANGED <<cur, alias>>
              => /\ cur[i] = p => cur'[i] = p
                 /\ NS!Free(p) /\ Sole(i, p) => NS!Free(p)'
<1>1. \/ cur[i] = p /\ \A j \in Ids : cur[j] = p => j = i
      \/ NS!Free(p) /\ Sole(i, p)
    BY LeadsToOne
<1>2. \/ cur'[i] = p /\ \A j \in Ids : cur'[j] = p => j = i
      \/ (\A j \in Ids : cur'[j] # p)
            /\ {d.repo : d \in {e \in alias' : e.path = p}} = {i}
    BY DEF NS!Leads, NS!Free
<1>3. p # None
    BY NoneAssumption
<1>4. ASSUME NEW k \in Ids, NEW q \in Paths, NS!Register(k, q)
      PROVE  /\ Sole(i, p) => Sole(i, p)'
             /\ cur[i] = p => cur'[i] = p
             /\ NS!Free(p) /\ Sole(i, p) => NS!Free(p)'
    <2>1. /\ alias' = alias /\ cur[k] = None /\ cur'[k] = q
          /\ \A j \in Ids \ {k} : cur'[j] = cur[j]
        BY <1>4, RegisterNames
    <2>2. k # i
        BY <2>1 DEF Live
    <2>3. ASSUME NS!Free(p), Sole(i, p)
          PROVE  q # p
        <3>1. cur'[i] # p
            BY <2>1, <2>2, <2>3 DEF NS!Free
        <3> QED
            BY <1>2, <2>1, <3>1
    <2> QED
        BY <2>1, <2>2, <2>3 DEF Sole, NS!Free
<1>5. ASSUME NEW k \in Ids, NEW q \in Paths, NS!Rename(k, q)
      PROVE  Sole(i, p) => Sole(i, p)'
    <2>1. /\ alias' = alias \cup {[path |-> cur[k], repo |-> k]}
          /\ cur[k] # None
        BY <1>5, RenameNames DEF Live
    <2>2. cur[k] = p => k = i
        BY <1>1 DEF NS!Free
    <2> QED
        BY <2>1, <2>2 DEF Sole
<1>6. ASSUME NEW k \in Ids, NS!Forget(k)
      PROVE  /\ Sole(i, p) => Sole(i, p)'
             /\ cur[i] = p => cur'[i] = p
             /\ NS!Free(p) => NS!Free(p)'
    <2>1. /\ alias' = {d \in alias : d.repo # k} /\ cur'[k] = None
          /\ \A j \in Ids \ {k} : cur'[j] = cur[j]
        BY <1>6, ForgetNames
    <2>2. k # i
        <3>1. CASE cur'[i] = p
            BY <1>3, <2>1, <3>1
        <3>2. CASE cur'[i] # p
            <4>1. \E d \in alias' : d.path = p /\ d.repo = i
                BY <1>2, <3>2
            <4> QED
                BY <2>1, <4>1
        <3> QED
            BY <3>1, <3>2
    <2> QED
        BY <1>3, <2>1, <2>2 DEF Sole, NS!Free
<1>7. ASSUME UNCHANGED <<cur, alias>>
      PROVE  /\ Sole(i, p) => Sole(i, p)'
             /\ cur[i] = p => cur'[i] = p
             /\ NS!Free(p) => NS!Free(p)'
    BY <1>7 DEF Sole, NS!Free
<1> QED
    BY <1>4, <1>5, <1>6, <1>7 DEF NamesStep

\* A steady caller's knowledge outlives what others do to names.
LEMMA NamesKeep ==
    ASSUME Inv, NamesStep, NEW E, Excuses(E),
           NEW s \in Sessions \ E, NEW i \in steady[s],
           call'[s] = call[s], i \in Usable(call[s])'
    PROVE  Waiting(s, i)'
<1>1. /\ i \in Ids /\ call[s].path \in Paths /\ call[s].pc # "idle" /\ Live(i)
      /\ Waiting(s, i) /\ Fits(call[s]) /\ i \in Usable(call[s])
    BY SteadyIsLive DEF Fits
<1>2. /\ call[s].pc = "access" /\ call[s].direct = "PRIVATE"
      /\ grant[i][call[s].who] # None
      => grant'[i][call[s].who] # None
    BY DEF Excuses
<1>3. CASE call[s].kind = "key"
    <2>1. call[s].pc \in {"lookup", "answered"}
        BY <1>1, <1>3 DEF Fits
    <2> QED
        BY <1>1, <1>3, <2>1 DEF Waiting
<1>4. CASE call[s].kind # "key"
    <2>1. PICK p \in Paths : p = call[s].path
        BY <1>1
    <2>2. call'[s].path = p
        BY <2>1
    <2>3. NS!Leads(p) = {i}
        BY <1>1, <1>4, <2>1 DEF Usable
    <2>4. NS!Leads(p)' = {i}
        BY <1>4, <2>2 DEF Usable, NS!Leads, NS!Free
    <2>5. TypeOK /\ Unique /\ AliasLive
        BY DEF Inv
    <2>6. /\ Sole(i, p) => Sole(i, p)'
          /\ \/ \E k \in Ids, q \in Paths : NS!Register(k, q)
             \/ \E k \in Ids : NS!Forget(k)
             \/ UNCHANGED <<cur, alias>>
             => /\ cur[i] = p => cur'[i] = p
                /\ NS!Free(p) /\ Sole(i, p) => NS!Free(p)'
        BY <1>1, <2>3, <2>4, <2>5, PathKeeps
    <2>7. call[s].kind = "http" /\ call[s].pc = "lookup" =>
              /\ cur[i] = p => cur'[i] = p
              /\ NS!Free(p) /\ Sole(i, p) => NS!Free(p)'
        <3>1. call[s].kind = "http" /\ call[s].pc = "lookup" => s \in Cloning
            BY DEF Cloning
        <3> QED
            BY <2>6, <3>1 DEF Excuses
    <2> QED
        BY <1>1, <1>2, <2>1, <2>2, <2>6, <2>7 DEF Waiting, Sole, NS!Free
<1> QED
    BY <1>3, <1>4

LEMMA TablesKeep ==
    ASSUME Inv, TypeOK', NamesStep, NEW E, Excuses(E), ChangedFor(E),
           \A t \in Sessions : \/ call'[t] = call[t]
                               \/ steady[t] = {} /\ Fits(call[t])'
    PROVE  Inv'
<1>1. Unique' /\ AliasLive'
    <2>1. TypeOK /\ Unique /\ AliasLive
        BY DEF Inv
    <2>2. CASE UNCHANGED <<cur, alias>>
        BY <2>1, <2>2 DEF Unique, AliasLive, Live
    <2> QED
        BY <2>1, <2>2, RegisterNames, RenameNames, ForgetNames DEF NamesStep
<1>2. ASSUME NEW t \in Sessions
      PROVE  /\ Fits(call[t])'
             /\ \A i \in steady'[t] : i \in Usable(call[t])' /\ Waiting(t, i)'
    <2>1. steady'[t] = IF t \in E THEN {} ELSE steady[t] \cap Usable(call[t])'
        BY DEF ChangedFor
    <2>2. Fits(call[t])
        BY DEF Inv, SteadyInv
    <2>3. Fits(call[t])'
        BY <2>2 DEF Fits
    <2>4. ASSUME NEW i \in steady'[t]
          PROVE  i \in Usable(call[t])' /\ Waiting(t, i)'
        <3>1. /\ i \in steady[t] /\ i \in Usable(call[t])' /\ t \notin E
              /\ call'[t] = call[t]
            BY <2>1
        <3> QED
            BY <3>1, NamesKeep
    <2> QED
        BY <2>3, <2>4
<1>3. SteadyInv'
    BY <1>2 DEF SteadyInv
<1> QED
    BY <1>1, <1>3 DEF Inv

\* A step that leaves ACLs and the names alone, or is not a rename, excuses
\* nobody.
LEMMA NoOneExcused ==
    ASSUME \/ \E k \in Ids, q \in Paths : NS!Register(k, q)
           \/ UNCHANGED <<cur, alias>>,
           grant' = grant
    PROVE  Excuses({})
    BY DEF Excuses

-----------------------------------------------------------------------------
(* Steps of one caller.                                                     *)

\* A step of s that leaves the tables alone leaves the other callers' too.
LEMMA OneCaller ==
    ASSUME Inv, NEW s \in Sessions, UNCHANGED rows,
           call' \in [Sessions -> Call],
           \A t \in Sessions \ {s} : call'[t] = call[t],
           steady' \in [Sessions -> SUBSET Ids],
           \A t \in Sessions \ {s} : steady'[t] = steady[t],
           Fits(call[s])',
           \A i \in steady'[s] : i \in Usable(call[s])' /\ Waiting(s, i)'
    PROVE  Inv'
<1>1. TypeOK'
    BY DEF Inv, TypeOK, rows, RowsBelong, Live, OwnerOf
<1>2. Unique' /\ AliasLive'
    BY DEF Inv, Unique, AliasLive, Live, rows
<1>3. ASSUME NEW t \in Sessions
      PROVE  /\ Fits(call[t])'
             /\ \A i \in steady'[t] : i \in Usable(call[t])' /\ Waiting(t, i)'
    <2>1. CASE t = s
        BY <2>1
    <2>2. CASE t # s
        <3>1. call'[t] = call[t] /\ steady'[t] = steady[t]
            BY <2>2
        <3>2. Fits(call[t])'
            BY <3>1 DEF Fits, Inv, SteadyInv
        <3>3. ASSUME NEW i \in steady'[t]
              PROVE  i \in Usable(call[t])' /\ Waiting(t, i)'
            <4>1. i \in Usable(call[t]) /\ Waiting(t, i)
                BY <3>1 DEF Inv, SteadyInv
            <4>2. i \in Usable(call[t])'
                BY <3>1, <4>1
                   DEF rows, Usable, Rights, KeyRights, NS!Leads, NS!Free,
                       OwnerOf, GrantOf
            <4>3. Waiting(t, i)'
                BY <3>1, <4>1 DEF rows, Waiting, Sole, NS!Free
            <4> QED
                BY <4>2, <4>3
        <3> QED
            BY <3>2, <3>3
    <2> QED
        BY <2>1, <2>2
<1>4. SteadyInv'
    BY <1>3 DEF SteadyInv
<1> QED
    BY <1>1, <1>2, <1>4 DEF Inv

\* A caller that goes on with the same question, on a steady path as before or
\* on none.
LEMMA SessionGoesOn ==
    ASSUME Inv, NEW s \in Sessions, UNCHANGED rows,
           steady' \in [Sessions -> SUBSET Ids], steady'[s] \subseteq steady[s],
           \A t \in Sessions \ {s} : steady'[t] = steady[t],
           call' \in [Sessions -> Call],
           \A t \in Sessions \ {s} : call'[t] = call[t],
           call'[s].kind = call[s].kind, call'[s].who = call[s].who,
           call'[s].path = call[s].path, call'[s].need = call[s].need,
           call[s].pc # "idle", call'[s].pc # "idle",
           call[s].kind \in {"key", "http"} =>
                call'[s].pc \in {"lookup", "answered"},
           call'[s].pc = "access" => call[s].kind = "web" /\ call[s].who \in Users,
           \A i \in steady'[s] : Waiting(s, i)'
    PROVE  Inv'
<1>1. Fits(call[s])'
    BY DEF Inv, SteadyInv, Fits
<1>2. Usable(call[s])' = Usable(call[s])
    BY SameCallUsable
<1>3. \A i \in steady'[s] : i \in Usable(call[s])' /\ Waiting(s, i)'
    BY <1>2 DEF Inv, SteadyInv
<1> QED
    BY <1>1, <1>3, OneCaller

LEMMA SessionKeeps ==
    ASSUME Inv, NEW s \in Sessions, Asked,
           call' \in [Sessions -> Call],
           \A t \in Sessions \ {s} : call'[t] = call[t],
           call'[s].kind = call[s].kind, call'[s].who = call[s].who,
           call'[s].path = call[s].path, call'[s].need = call[s].need,
           call[s].pc # "idle", call'[s].pc # "idle",
           call[s].kind \in {"key", "http"} =>
                call'[s].pc \in {"lookup", "answered"},
           call'[s].pc = "access" => call[s].kind = "web" /\ call[s].who \in Users,
           \A i \in steady[s] : Waiting(s, i)'
    PROVE  Inv'
<1>1. UNCHANGED <<rows, steady>> /\ steady' \in [Sessions -> SUBSET Ids]
    BY DEF Asked, Inv, TypeOK
<1> QED
    BY <1>1, SessionGoesOn

\* A caller is answered, and those with a steady path are not turned away.
LEMMA AnswerKeeps ==
    ASSUME Inv, NEW s \in Sessions, Asked, call[s].pc # "idle",
           NEW a \in {"none", "served", "moved", "denied", "missing", "error"},
           Answer(s, a),
           \A i \in steady[s] : a \notin {"missing", "denied"}
    PROVE  Inv'
<1>1. call \in [Sessions -> Call]
    BY DEF Inv, TypeOK
<1>2. /\ call' \in [Sessions -> Call]
      /\ \A t \in Sessions \ {s} : call'[t] = call[t]
      /\ call'[s].kind = call[s].kind /\ call'[s].who = call[s].who
      /\ call'[s].path = call[s].path /\ call'[s].need = call[s].need
      /\ call'[s].pc = "answered" /\ call'[s].answer = a
    BY <1>1, Answers
<1>3. \A i \in steady[s] : Waiting(s, i)'
    BY <1>2 DEF Waiting
<1> QED
    BY <1>2, <1>3, SessionKeeps

\* A caller that found no repository goes on to the redirects.
LEMMA RedirectKeeps ==
    ASSUME Inv, NEW s \in Sessions, Asked, call[s].pc # "idle",
           call[s].kind \notin {"key", "http"}, Goto(s, "redirect"),
           NS!Free(call[s].path)
    PROVE  Inv'
<1>1. call \in [Sessions -> Call]
    BY DEF Inv, TypeOK
<1>2. /\ call' \in [Sessions -> Call]
      /\ \A t \in Sessions \ {s} : call'[t] = call[t]
      /\ call'[s].kind = call[s].kind /\ call'[s].who = call[s].who
      /\ call'[s].path = call[s].path /\ call'[s].need = call[s].need
      /\ call'[s].pc = "redirect"
    BY <1>1, Goes DEF Pcs
<1>3. \A i \in steady[s] : Sole(i, call[s].path)
    BY FreeIsSole
<1>4. \A i \in steady[s] : Waiting(s, i)'
    BY <1>2, <1>3 DEF Waiting, Asked, rows, Sole
<1> QED
    BY <1>2, <1>4, SessionKeeps

LEMMA ShellLookupKeeps ==
    ASSUME Inv, NEW s \in Sessions, ShellLookup(s)
    PROVE  Inv'
<1>1. Asked /\ call[s].kind = "shell" /\ call[s].pc = "lookup"
    BY DEF ShellLookup, At
<1>2. ASSUME NEW j \in Ids, cur[j] = call[s].path,
             Decide(s, j, GrantOf(j, call[s].who))
      PROVE  Inv'
    <2>1. ASSUME NEW i \in steady[s]
          PROVE  call[s].need \in ShellAccess(j, call[s].who, GrantOf(j, call[s].who))
        <3>1. j = i /\ call[s].need \in Rights(i, call[s].who)
            BY <1>1, <1>2, FoundIsSteady
        <3>2. TypeOK /\ call[s].who \in Users /\ Live(j)
            BY <1>1, <3>1, SteadyIsLive DEF Inv, Fits
        <3> QED
            BY <3>1, <3>2, ShellRule
    <2>2. CASE call[s].need \in ShellAccess(j, call[s].who, GrantOf(j, call[s].who))
        BY <1>1, <1>2, <2>2, AnswerKeeps DEF Decide
    <2>3. CASE call[s].need \notin ShellAccess(j, call[s].who, GrantOf(j, call[s].who))
        BY <1>1, <1>2, <2>1, <2>3, AnswerKeeps DEF Decide
    <2> QED
        BY <2>2, <2>3
<1>3. CASE NS!Free(call[s].path) /\ Goto(s, "redirect")
    BY <1>1, <1>3, RedirectKeeps
<1> QED
    BY <1>2, <1>3 DEF ShellLookup

\* At the redirects, a steady path has one, and it leads to the repository.
LEMMA AtRedirect ==
    ASSUME Inv, NEW s \in Sessions, NEW i \in steady[s],
           call[s].pc = "redirect"
    PROVE  /\ \E d \in alias : d.path = call[s].path
           /\ \A d \in alias : d.path = call[s].path => d.repo = i
           /\ call[s].need \in Rights(i, call[s].who)
    BY SteadyIsLive DEF Waiting, Sole, Usable, Fits

LEMMA ShellRedirectKeeps ==
    ASSUME Inv, NEW s \in Sessions, ShellRedirect(s)
    PROVE  Inv'
<1>1. Asked /\ call[s].kind = "shell" /\ call[s].pc = "redirect"
    BY DEF ShellRedirect, At
<1>2. ASSUME NEW d \in alias, d.path = call[s].path,
             vis[d.repo] = "PRIVATE", OwnerOf(d.repo) # call[s].who,
             GrantOf(d.repo, call[s].who) = None, Answer(s, "denied")
      PROVE  Inv'
    <2>1. ASSUME NEW i \in steady[s]
          PROVE  FALSE
        <3>1. d.repo = i /\ call[s].need \in Rights(i, call[s].who)
            BY <1>1, <1>2, AtRedirect
        <3>2. None \notin {"RO", "RW"}
            BY NoneAssumption DEF Modes
        <3> QED
            BY <1>2, <3>1, <3>2 DEF Rights
    <2> QED
        BY <1>1, <1>2, <2>1, AnswerKeeps
<1>3. CASE Answer(s, "moved")
    BY <1>1, <1>3, AnswerKeeps
<1>4. CASE (\A d \in alias : d.path # call[s].path) /\ Goto(s, "create")
    <2>1. \A i \in steady[s] : FALSE
        BY <1>1, <1>4, AtRedirect
    <2>2. call \in [Sessions -> Call]
        BY DEF Inv, TypeOK
    <2>3. /\ call' \in [Sessions -> Call]
          /\ \A t \in Sessions \ {s} : call'[t] = call[t]
          /\ call'[s].kind = call[s].kind /\ call'[s].who = call[s].who
          /\ call'[s].path = call[s].path /\ call'[s].need = call[s].need
          /\ call'[s].pc = "create"
        BY <1>4, <2>2, Goes DEF Pcs
    <2> QED
        BY <1>1, <2>1, <2>3, SessionKeeps
<1> QED
    BY <1>2, <1>3, <1>4 DEF ShellRedirect

LEMMA KeyLookupKeeps ==
    ASSUME Inv, NEW s \in Sessions, KeyLookup(s)
    PROVE  Inv'
<1>1. Asked /\ call[s].kind = "key" /\ call[s].pc = "lookup"
    BY DEF KeyLookup, At
<1>2. ASSUME NEW i \in steady[s]
      PROVE  /\ i \in Ids /\ cur[i] = call[s].path /\ Live(i)
             /\ call[s].who \in Keys
             /\ call[s].need \in KeyRights(i, call[s].who)
             /\ \A j \in Ids : cur[j] = call[s].path => j = i
    BY <1>1, SteadyIsLive DEF Usable, Fits, Inv, Unique
<1>3. ASSUME NEW j \in Ids, cur[j] = call[s].path
      PROVE  \A i \in steady[s] :
                call[s].need \in ShellAccess(j, Nobody, key[j][call[s].who])
    <2> SUFFICES ASSUME NEW i \in steady[s]
                 PROVE  call[s].need \in ShellAccess(i, Nobody, key[i][call[s].who])
        BY <1>2, <1>3
    <2>1. Nobody # OwnerOf(i) /\ None \notin {"RO", "RW"}
        BY <1>2, OwnersAreUsers, NoneAssumption DEF Inv, Modes
    <2>2. key[i][call[s].who] \in {"RO", "RW", None}
        BY <1>2 DEF Inv, TypeOK, Modes
    <2> QED
        BY <1>2, <2>1, <2>2 DEF KeyRights, ShellAccess
<1>4. ASSUME NEW j \in Ids, cur[j] = call[s].path, Answer(s, "denied"),
             call[s].need \notin ShellAccess(j, Nobody, key[j][call[s].who])
      PROVE  Inv'
    BY <1>1, <1>3, <1>4, AnswerKeeps
<1>5. CASE Answer(s, "served")
    BY <1>1, <1>5, AnswerKeeps
<1>6. CASE /\ \A j \in Ids : cur[j] = call[s].path => key[j][call[s].who] = None
           /\ Answer(s, "missing")
    <2>1. ASSUME NEW i \in steady[s]
          PROVE  FALSE
        <3>1. key[i][call[s].who] = None /\ None \notin {"RO", "RW"}
            BY <1>2, <1>6, NoneAssumption DEF Modes
        <3> QED
            BY <1>2, <3>1 DEF KeyRights
    <2> QED
        BY <1>1, <1>6, <2>1, AnswerKeeps
<1> QED
    BY <1>4, <1>5, <1>6 DEF KeyLookup

LEMMA WebLookupKeeps ==
    ASSUME Inv, NEW s \in Sessions, WebLookup(s)
    PROVE  Inv'
<1>1. Asked /\ call[s].kind = "web" /\ call[s].pc = "lookup"
    BY DEF WebLookup, At
<1>2. call[s].who \in Users \cup {Nobody} /\ call[s].path \in Paths
    BY <1>1 DEF Inv, SteadyInv, Fits
<1>3. ASSUME NEW j \in Ids, cur[j] = call[s].path,
             "read" \notin GetAccess(j, call[s].who), Answer(s, "missing")
      PROVE  Inv'
    <2>1. ASSUME NEW i \in steady[s]
          PROVE  FALSE
        <3>1. j = i /\ call[s].need \in Rights(i, call[s].who)
            BY <1>1, <1>3, FoundIsSteady
        <3>2. /\ TypeOK /\ call[s].who \in Users \cup {Nobody} /\ Live(j)
              /\ call[s].need = "read"
            BY <1>1, <3>1, SteadyIsLive DEF Inv, Fits
        <3> QED
            BY <1>3, <3>1, <3>2, WebRule
    <2> QED
        BY <1>1, <1>3, <2>1, AnswerKeeps
<1>4. ASSUME NEW j \in Ids, cur[j] = call[s].path,
             call[s].who \notin {Nobody, OwnerOf(j)},
             Step(s, [call[s] EXCEPT !.pc = "access", !.direct = vis[j],
                                     !.moved = j])
      PROVE  Inv'
    <2>1. Live(j) /\ call[s].who \in Users
        BY <1>2, <1>4, NoneAssumption DEF Live
    <2>2. call \in [Sessions -> Call] /\ vis[j] \in Visibility
        BY <2>1 DEF Inv, TypeOK
    <2> DEFINE c == [call[s] EXCEPT !.pc = "access", !.direct = vis[j],
                                    !.moved = j]
    <2>3. /\ c.kind = call[s].kind /\ c.who = call[s].who
          /\ c.path = call[s].path /\ c.need = call[s].need
          /\ c.pc = "access" /\ c.direct = vis[j] /\ c.moved = j /\ c \in Call
        <3>1. call[s] \in Call
            BY <2>2
        <3> QED
            BY <2>2, <3>1 DEF Call
    <2> HIDE DEF c
    <2>4. /\ call' \in [Sessions -> Call] /\ call'[s] = c
          /\ \A t \in Sessions \ {s} : call'[t] = call[t]
        BY <1>4, <2>2, <2>3, CallStep DEF c
    <2>5. ASSUME NEW i \in steady[s]
          PROVE  i = j /\ (vis[i] # "PRIVATE" \/ grant[i][call[s].who] # None)
        <3>1. j = i /\ call[s].need \in Rights(i, call[s].who)
            BY <1>1, <1>4, FoundIsSteady
        <3>2. call[s].need = "read"
            BY <1>1, SteadyIsLive DEF Fits
        <3>3. None \notin {"RO", "RW"}
            BY NoneAssumption DEF Modes
        <3> QED
            BY <1>4, <2>1, <3>1, <3>2, <3>3 DEF Rights, GrantOf
    <2>6. \A i \in steady[s] : Waiting(s, i)'
        BY <1>1, <2>3, <2>4, <2>5 DEF Waiting, Asked, rows
    <2> QED
        BY <1>1, <2>1, <2>3, <2>4, <2>6, SessionKeeps
<1>5. CASE Answer(s, "served")
    BY <1>1, <1>5, AnswerKeeps
<1>6. CASE NS!Free(call[s].path) /\ Goto(s, "redirect")
    BY <1>1, <1>6, RedirectKeeps
<1> QED
    BY <1>3, <1>4, <1>5, <1>6 DEF WebLookup

LEMMA WebAccessKeeps ==
    ASSUME Inv, NEW s \in Sessions, WebAccess(s)
    PROVE  Inv'
<1>1. Asked /\ call[s].kind = "web" /\ call[s].pc = "access"
    BY DEF WebAccess, At
<1> DEFINE can == "read" \in WebRights(call[s].who, call[s].path[1], call[s].direct,
                                      grant[call[s].moved][call[s].who])
<1>2. ASSUME NEW i \in steady[s]
      PROVE  can
    <2>1. Waiting(s, i) /\ Fits(call[s])
        BY SteadyIsLive
    <2>2. /\ call[s].who # Nobody /\ call[s].moved = i
          /\ call[s].direct # "PRIVATE" \/ grant[i][call[s].who] # None
        BY <1>1, <2>1, NoneAssumption DEF Waiting, Fits
    <2> QED
        BY <2>2 DEF WebRights
<1>3. \/ can /\ Answer(s, "served")
      \/ ~can /\ Answer(s, "missing")
    BY DEF WebAccess
<1> HIDE DEF can
<1> QED
    BY <1>1, <1>2, <1>3, AnswerKeeps

\* The last lookup of the web pages and of the API.
LEMMA PlainRedirectKeeps ==
    ASSUME Inv, NEW s \in Sessions, WebRedirect(s) \/ ApiRedirect(s)
    PROVE  Inv'
<1>1. Asked /\ call[s].pc = "redirect"
    BY DEF WebRedirect, ApiRedirect, At
<1>2. CASE Answer(s, "moved")
    BY <1>1, <1>2, AnswerKeeps
<1>3. CASE ~(\E d \in alias : d.path = call[s].path) /\ Answer(s, "missing")
    <2>1. \A i \in steady[s] : FALSE
        BY <1>1, <1>3, AtRedirect
    <2> QED
        BY <1>1, <1>3, <2>1, AnswerKeeps
<1> QED
    BY <1>2, <1>3 DEF WebRedirect, ApiRedirect

LEMMA ApiLookupKeeps ==
    ASSUME Inv, NEW s \in Sessions, ApiLookup(s)
    PROVE  Inv'
<1>1. Asked /\ call[s].kind = "api" /\ call[s].pc = "lookup"
    BY DEF ApiLookup, At
<1>2. CASE Answer(s, "served")
    BY <1>1, <1>2, AnswerKeeps
<1>3. CASE /\ RepositoriesByOwnerIDRepoName({call[s].path}, call[s].who)
                  [call[s].path] = None
           /\ Goto(s, "redirect")
    <2>1. ASSUME NEW i \in steady[s]
          PROVE  NS!Free(call[s].path)
        <3> SUFFICES ASSUME NEW j \in Ids, cur[j] = call[s].path
                     PROVE  FALSE
            BY DEF NS!Free
        <3>1. j = i /\ call[s].need \in Rights(i, call[s].who)
            BY <1>1, FoundIsSteady
        <3>2. /\ TypeOK /\ Unique /\ call[s].who \in Users /\ Live(j)
              /\ call[s].need = "read"
            BY <1>1, <3>1, SteadyIsLive DEF Inv, Fits
        <3>3. Visible(j, call[s].who)
            BY <3>1, <3>2, QueryRule
        <3>4. ByPath({call[s].path}, call[s].who)[cur[j]] = j
            BY <3>2, <3>3, LoaderRule
        <3>5. None # j
            BY NoneAssumption
        <3> QED
            BY <1>3, <3>4, <3>5 DEF RepositoriesByOwnerIDRepoName
    <2>2. call \in [Sessions -> Call]
        BY DEF Inv, TypeOK
    <2>3. /\ call' \in [Sessions -> Call]
          /\ \A t \in Sessions \ {s} : call'[t] = call[t]
          /\ call'[s].kind = call[s].kind /\ call'[s].who = call[s].who
          /\ call'[s].path = call[s].path /\ call'[s].need = call[s].need
          /\ call'[s].pc = "redirect"
        BY <1>3, <2>2, Goes DEF Pcs
    <2>4. \A i \in steady[s] : Sole(i, call[s].path)
        BY <1>1, <2>1, FreeIsSole
    <2>5. \A i \in steady[s] : Waiting(s, i)'
        BY <1>1, <2>3, <2>4 DEF Waiting, Asked, rows, Sole
    <2> QED
        BY <1>1, <2>3, <2>5, SessionKeeps
<1> QED
    BY <1>2, <1>3 DEF ApiLookup

\* What an HTTP clone knows at a steady path that is not renamed under it.
LEMMA HttpKnows ==
    ASSUME Inv, NEW s \in Sessions, NEW i \in steady[s],
           call[s].kind = "http", call[s].pc = "lookup"
    PROVE  /\ i \in Ids /\ Live(i) /\ call[s].need = "read" /\ call[s].who = Nobody
           /\ "read" \in Rights(i, Nobody)
           /\ \/ /\ cur[i] = call[s].path
                 /\ call[s].direct \in {"unread", "PUBLIC", "UNLISTED"}
              \/ /\ NS!Free(call[s].path) /\ Sole(i, call[s].path)
                 /\ call[s].direct \in {"unread", None}
                 /\ call[s].moved \in {"unread", "public", i}
<1>1. /\ i \in Ids /\ i \in Usable(call[s]) /\ Waiting(s, i) /\ Live(i)
      /\ Fits(call[s]) /\ call[s].pc # "idle"
    BY SteadyIsLive
<1>2. call[s].who = Nobody
    BY <1>1 DEF Fits
<1>3. call[s].need \in Rights(i, Nobody)
    BY <1>1, <1>2 DEF Usable
<1>4. Rights(i, Nobody) \subseteq {"read"}
    <2>1. Nobody # OwnerOf(i)
        BY <1>1, OwnersAreUsers DEF Inv
    <2>2. GrantOf(i, Nobody) = None /\ None \notin {"RO", "RW"}
        BY NoneAssumption DEF GrantOf, Modes
    <2> QED
        BY <2>1, <2>2 DEF Rights
<1> QED
    BY <1>1, <1>2, <1>3, <1>4 DEF Waiting

LEMMA DirectKeeps ==
    ASSUME Inv, NEW s \in Sessions, RepositoryByDiskPath(s)
    PROVE  Inv'
<1>1. Asked /\ call[s].kind = "http" /\ call[s].pc = "lookup"
    BY DEF RepositoryByDiskPath, At
<1>2. call \in [Sessions -> Call]
    BY DEF Inv, TypeOK
<1>3. ASSUME NEW d \in {None} \cup Visibility,
             Step(s, [call[s] EXCEPT !.direct = d]),
             \/ NS!Free(call[s].path) /\ d = None
             \/ \E j \in Ids : cur[j] = call[s].path /\ d = vis[j]
      PROVE  Inv'
    <2>1. /\ call' \in [Sessions -> Call]
          /\ \A t \in Sessions \ {s} : call'[t] = call[t]
          /\ call'[s].kind = call[s].kind /\ call'[s].who = call[s].who
          /\ call'[s].path = call[s].path /\ call'[s].need = call[s].need
          /\ call'[s].pc = call[s].pc /\ call'[s].moved = call[s].moved
          /\ call'[s].direct = d
        BY <1>2, <1>3, ReadsDirect
    <2>2. ASSUME NEW i \in steady[s]
          PROVE  \/ /\ cur[i] = call[s].path
                    /\ d \in {"unread", "PUBLIC", "UNLISTED"}
                 \/ /\ NS!Free(call[s].path) /\ Sole(i, call[s].path)
                    /\ d \in {"unread", None}
                    /\ call[s].moved \in {"unread", "public", i}
        <3>1. CASE NS!Free(call[s].path) /\ d = None
            BY <1>1, <2>2, <3>1, HttpKnows DEF NS!Free
        <3>2. ASSUME NEW j \in Ids, cur[j] = call[s].path, d = vis[j]
              PROVE  /\ cur[i] = call[s].path
                     /\ d \in {"unread", "PUBLIC", "UNLISTED"}
            <4>1. j = i
                BY <1>1, <3>2, FoundIsSteady
            <4>2. i \in Ids /\ Live(i) /\ "read" \in Rights(i, Nobody) /\ TypeOK
                BY <1>1, <2>2, HttpKnows DEF Inv
            <4>3. Nobody # OwnerOf(i) /\ vis[i] \in {"PUBLIC", "UNLISTED", "PRIVATE"}
                BY <4>2, OwnersAreUsers
            <4>4. GrantOf(i, Nobody) = None /\ None \notin {"RO", "RW"}
                BY NoneAssumption DEF GrantOf, Modes
            <4>5. vis[i] # "PRIVATE"
                BY <4>2, <4>3, <4>4 DEF Rights
            <4> QED
                BY <3>2, <4>1, <4>3, <4>5
        <3> QED
            BY <1>3, <3>1, <3>2
    <2>3. \A i \in steady[s] : Waiting(s, i)'
        BY <1>1, <2>1, <2>2 DEF Waiting, Asked, rows, Sole, NS!Free
    <2> QED
        BY <1>1, <2>1, <2>3, SessionKeeps
<1>4. ASSUME NEW j \in Ids, cur[j] = call[s].path
      PROVE  vis[j] \in Visibility
    <2>1. call[s].path \in Paths
        BY <1>1 DEF Inv, SteadyInv, Fits
    <2>2. Live(j)
        BY <1>4, <2>1, NoneAssumption DEF Live
    <2> QED
        BY <2>2 DEF Inv, TypeOK
<1> QED
    BY <1>3, <1>4 DEF RepositoryByDiskPath

LEMMA MovedKeeps ==
    ASSUME Inv, NEW s \in Sessions,
           RedirectByDiskPath(s) \/ RedirectRepository(s)
    PROVE  Inv'
<1>1. Asked /\ call[s].kind = "http" /\ call[s].pc = "lookup"
    BY DEF RedirectByDiskPath, RedirectRepository, At
<1>2. call \in [Sessions -> Call] /\ alias \subseteq [path : Paths, repo : Ids]
    BY DEF Inv, TypeOK
<1>3. ASSUME NEW m \in {"public", None} \cup Ids,
             Step(s, [call[s] EXCEPT !.moved = m]),
             \A i \in steady[s] :
                NS!Free(call[s].path) => m \in {"public", i}
      PROVE  Inv'
    <2>1. /\ call' \in [Sessions -> Call]
          /\ \A t \in Sessions \ {s} : call'[t] = call[t]
          /\ call'[s].kind = call[s].kind /\ call'[s].who = call[s].who
          /\ call'[s].path = call[s].path /\ call'[s].need = call[s].need
          /\ call'[s].pc = call[s].pc /\ call'[s].direct = call[s].direct
          /\ call'[s].moved = m
        BY <1>2, <1>3, ReadsMoved
    <2>2. ASSUME NEW i \in steady[s]
          PROVE  \/ /\ cur[i] = call[s].path
                    /\ call[s].direct \in {"unread", "PUBLIC", "UNLISTED"}
                 \/ /\ NS!Free(call[s].path) /\ Sole(i, call[s].path)
                    /\ call[s].direct \in {"unread", None}
                    /\ m \in {"unread", "public", i}
        BY <1>1, <1>3, <2>2, HttpKnows
    <2>3. \A i \in steady[s] : Waiting(s, i)'
        BY <1>1, <2>1, <2>2 DEF Waiting, Asked, rows, Sole, NS!Free
    <2> QED
        BY <1>1, <2>1, <2>3, SessionKeeps
<1>4. ASSUME NEW d \in alias, d.path = call[s].path,
             Step(s, [call[s] EXCEPT !.moved = d.repo])
      PROVE  Inv'
    <2>1. d.repo \in Ids
        BY <1>2
    <2>2. \A i \in steady[s] : NS!Free(call[s].path) => d.repo = i
        BY <1>1, <1>4, FreeIsSole DEF Sole
    <2> QED
        BY <1>3, <1>4, <2>1, <2>2
<1>5. CASE /\ \A d \in alias : d.path # call[s].path
           /\ Step(s, [call[s] EXCEPT !.moved = None])
    <2>1. \A i \in steady[s] : ~NS!Free(call[s].path)
        BY <1>1, <1>5, FreeIsSole DEF Sole
    <2> QED
        BY <1>3, <1>5, <2>1
<1>6. CASE RedirectRepository(s)
    <2> DEFINE j == call[s].moved
               m == IF RepositoriesByID({j}, Nobody)[j] = None
                    THEN None ELSE "public"
    <2>1. j \in Ids /\ Step(s, [call[s] EXCEPT !.moved = m])
        BY <1>2, <1>6 DEF RedirectRepository, Call
    <2>2. ASSUME NEW i \in steady[s], NS!Free(call[s].path)
          PROVE  m = "public"
        <3>1. i \in Ids /\ Live(i) /\ "read" \in Rights(i, Nobody) /\ TypeOK
            BY <1>1, <2>2, HttpKnows DEF Inv
        <3>2. j \in {"unread", "public", i}
            BY <1>1, <2>2, <3>1, HttpKnows DEF NS!Free
        <3>3. j = i
            BY <2>1, <3>2, NoneAssumption
        <3>4. Visible(i, Nobody)
            BY <3>1, QueryRule
        <3>5. RepositoriesByID({j}, Nobody)[j] = i
            BY <3>1, <3>3, <3>4 DEF RepositoriesByID
        <3>6. None # i
            BY <3>1, NoneAssumption
        <3> QED
            BY <3>5, <3>6
    <2>3. m \in {"public", None}
        OBVIOUS
    <2> HIDE DEF m
    <2> QED
        BY <1>3, <2>1, <2>2, <2>3
<1> QED
    BY <1>4, <1>5, <1>6 DEF RedirectByDiskPath

LEMMA HttpAnswerKeeps ==
    ASSUME Inv, NEW s \in Sessions, HttpAnswer(s)
    PROVE  Inv'
<1>1. /\ Asked /\ call[s].kind = "http" /\ call[s].pc = "lookup"
      /\ call[s].direct # "unread" /\ call[s].moved \in {None, "public"}
    BY DEF HttpAnswer, At
<1>2. ASSUME NEW i \in steady[s]
      PROVE  \/ call[s].direct \in {"PUBLIC", "UNLISTED"}
             \/ /\ call[s].direct = None /\ call[s].moved = "public"
                /\ call[s].need = "read"
    BY <1>1, <1>2, HttpKnows, NoneAssumption
<1>3. None # "PRIVATE"
    BY NoneAssumption, VisibilityAssumption
<1>4. CASE call[s].direct = "PRIVATE"
    <2>1. Answer(s, "missing")
        BY <1>4 DEF HttpAnswer
    <2> QED
        BY <1>1, <1>2, <1>3, <1>4, <2>1, AnswerKeeps
<1>5. CASE call[s].direct \in {"PUBLIC", "UNLISTED"}
    <2>1. Answer(s, "served")
        BY <1>5 DEF HttpAnswer
    <2> QED
        BY <1>1, <2>1, AnswerKeeps
<1>6. CASE call[s].direct \notin {"PRIVATE", "PUBLIC", "UNLISTED"}
    <2>1. \/ Answer(s, "moved")
          \/ /\ call[s].moved # "public" \/ call[s].need # "read"
             /\ Answer(s, "missing")
        BY <1>6 DEF HttpAnswer
    <2> QED
        BY <1>1, <1>2, <1>6, <2>1, AnswerKeeps
<1> QED
    BY <1>4, <1>5, <1>6

\* A query that fails: a caller goes on, or is told of it, or has no steady path
\* any more.
LEMMA QueryFailsKeeps ==
    ASSUME Inv, NEW s \in Sessions, QueryFails(s)
    PROVE  Inv'
<1>1. /\ UNCHANGED rows /\ call[s].pc \in {"lookup", "access", "redirect"}
      /\ steady' = [steady EXCEPT ![s] =
                       IF call[s].kind \in {"shell", "key"} THEN {} ELSE @]
    BY DEF QueryFails
<1>2. call \in [Sessions -> Call] /\ steady \in [Sessions -> SUBSET Ids]
    BY DEF Inv, TypeOK
<1>3. /\ steady' \in [Sessions -> SUBSET Ids] /\ steady'[s] \subseteq steady[s]
      /\ \A t \in Sessions \ {s} : steady'[t] = steady[t]
      /\ call[s].kind \in {"shell", "key"} => steady'[s] = {}
    BY <1>1, <1>2
<1>4. CASE call[s].kind = "shell" /\ Goto(s, "redirect")
    <2>1. /\ call' \in [Sessions -> Call]
          /\ \A t \in Sessions \ {s} : call'[t] = call[t]
          /\ call'[s].kind = call[s].kind /\ call'[s].who = call[s].who
          /\ call'[s].path = call[s].path /\ call'[s].need = call[s].need
          /\ call'[s].pc = "redirect"
        BY <1>2, <1>4, Goes DEF Pcs
    <2> QED
        BY <1>1, <1>3, <1>4, <2>1, SessionGoesOn
<1>5. ASSUME NEW a \in {"missing", "error"}, Answer(s, a),
             a = "missing" => call[s].kind = "key"
      PROVE  Inv'
    <2>1. /\ call' \in [Sessions -> Call]
          /\ \A t \in Sessions \ {s} : call'[t] = call[t]
          /\ call'[s].kind = call[s].kind /\ call'[s].who = call[s].who
          /\ call'[s].path = call[s].path /\ call'[s].need = call[s].need
          /\ call'[s].pc = "answered" /\ call'[s].answer = a
        BY <1>2, <1>5, Answers
    <2>2. \A i \in steady'[s] : Waiting(s, i)'
        BY <1>3, <1>5, <2>1 DEF Waiting
    <2> QED
        BY <1>1, <1>3, <2>1, <2>2, SessionGoesOn
<1>6. \/ call[s].kind = "shell" /\ Goto(s, "redirect")
      \/ call[s].kind = "key" /\ Answer(s, "missing")
      \/ Answer(s, "error")
    BY DEF QueryFails, At
<1> QED
    BY <1>4, <1>5, <1>6

LEMMA StartKeeps ==
    ASSUME Inv, NEW s \in Sessions, NEW kind \in Kinds,
           NEW u \in Users \cup Keys \cup {Nobody}, NEW p \in Paths,
           NEW need \in Needs, Start(s, kind, u, p, need)
    PROVE  Inv'
<1> DEFINE c == [Idle EXCEPT !.kind = kind, !.who = u, !.path = p,
                             !.need = need, !.pc = "lookup"]
<1>1. /\ c.kind = kind /\ c.who = u /\ c.path = p /\ c.need = need
      /\ c.pc = "lookup" /\ c.direct = "unread" /\ c.moved = "unread"
      /\ c \in Call
    BY DEF Idle, Call
<1>2. /\ Step(s, c) /\ steady' = [steady EXCEPT ![s] = Usable(c)]
      /\ UNCHANGED rows
      /\ kind = "shell" => u \in Users
      /\ kind = "key" => u \in Keys
      /\ kind = "web" => u \in Users \cup {Nobody} /\ need = "read"
      /\ kind = "api" => u \in Users /\ need = "read"
      /\ kind = "http" => u = Nobody
    BY KindsAssumption DEF Start
<1>3. call \in [Sessions -> Call]
    BY DEF Inv, TypeOK
<1> HIDE DEF c
<1>4. /\ call' \in [Sessions -> Call] /\ call'[s] = c
      /\ \A t \in Sessions \ {s} : call'[t] = call[t]
    BY <1>1, <1>2, <1>3, CallStep
<1>5. Usable(c) \subseteq Ids
    BY DEF Usable
<1>6. /\ steady' \in [Sessions -> SUBSET Ids] /\ steady'[s] = Usable(c)
      /\ \A t \in Sessions \ {s} : steady'[t] = steady[t]
    BY <1>2, <1>5 DEF Inv, TypeOK
<1>7. Fits(call[s])'
    BY <1>1, <1>2, <1>4 DEF Fits
<1>8. Usable(call[s])' = Usable(c)
    BY <1>2, <1>4
       DEF rows, Usable, Rights, KeyRights, NS!Leads, NS!Free, OwnerOf, GrantOf
<1>9. ASSUME NEW i \in steady'[s]
      PROVE  Waiting(s, i)'
    <2>1. i \in Ids /\ (kind # "key" => NS!Leads(p) = {i})
        BY <1>1, <1>6, <1>9 DEF Usable
    <2>2. kind # "key" => \/ cur[i] = p
                          \/ NS!Free(p) /\ Sole(i, p)
        BY <2>1, LeadsToOne
    <2> QED
        BY <1>1, <1>2, <1>4, <2>2 DEF Waiting, rows, Sole, NS!Free
<1> QED
    BY <1>2, <1>4, <1>6, <1>7, <1>8, <1>9, OneCaller

LEMMA FinishKeeps ==
    ASSUME Inv, NEW s \in Sessions, Finish(s)
    PROVE  Inv'
<1>1. Idle \in Call /\ Idle.pc = "idle"
    BY DEF Idle, Call, Needs
<1>2. /\ Step(s, Idle) /\ steady' = [steady EXCEPT ![s] = {}]
      /\ UNCHANGED rows
    BY DEF Finish
<1>3. call \in [Sessions -> Call]
    BY DEF Inv, TypeOK
<1>4. /\ call' \in [Sessions -> Call] /\ call'[s] = Idle
      /\ \A t \in Sessions \ {s} : call'[t] = call[t]
    BY <1>1, <1>2, <1>3, CallStep
<1>5. /\ steady' \in [Sessions -> SUBSET Ids] /\ steady'[s] = {}
      /\ \A t \in Sessions \ {s} : steady'[t] = steady[t]
    BY <1>2 DEF Inv, TypeOK
<1>6. Fits(call[s])'
    BY <1>1, <1>4 DEF Fits
<1> QED
    BY <1>2, <1>4, <1>5, <1>6, OneCaller

-----------------------------------------------------------------------------
(* Steps that change the tables.                                            *)

LEMMA RegisterTypes ==
    ASSUME TypeOK, Unique, AliasLive, NEW i \in Ids, NEW p \in Paths,
           NEW v \in Visibility, NS!Register(i, p),
           vis' = [vis EXCEPT ![i] = v], UNCHANGED <<grant, key>>,
           call' \in [Sessions -> Call], Changed
    PROVE  TypeOK'
<1>1. /\ cur' \in [Ids -> Paths \cup {None}] /\ alias' = alias
      /\ cur'[i] = p /\ cur[i] = None
      /\ \A j \in Ids \ {i} : cur'[j] = cur[j]
    BY RegisterNames
<1>2. /\ vis' \in [Ids -> Visibility \cup {None}] /\ vis'[i] = v
      /\ \A j \in Ids \ {i} : vis'[j] = vis[j]
    BY DEF TypeOK
<1>3. p # None /\ v # None
    BY NoneAssumption, VisibilityAssumption
<1>4. \A j \in Ids : (Live(j) <=> vis[j] # None)'
    BY <1>1, <1>2, <1>3 DEF TypeOK, Live
<1>5. p[1] \in Users
    BY OwnersAssumption DEF Paths
<1>6. RowsBelong'
    <2>1. \A u \in Users : grant[i][u] = None
        BY <1>1 DEF TypeOK, RowsBelong, Live
    <2>2. grant'[i][OwnerOf(i)'] = None
        BY <1>1, <1>5, <2>1 DEF OwnerOf
    <2>3. ASSUME NEW j \in Ids \ {i}
          PROVE  IF cur'[j] # None THEN grant'[j][OwnerOf(j)'] = None
                 ELSE /\ \A u \in Users : grant'[j][u] = None
                      /\ \A k \in Keys : key'[j][k] = None
        BY <1>1 DEF TypeOK, RowsBelong, Live, OwnerOf
    <2> QED
        BY <1>1, <1>3, <2>2, <2>3 DEF RowsBelong, Live
<1>7. steady' \in [Sessions -> SUBSET Ids]
    BY DEF Changed, ChangedFor, TypeOK
<1> QED
    BY <1>1, <1>2, <1>4, <1>6, <1>7 DEF TypeOK

LEMMA CreateKeeps ==
    ASSUME Inv, NEW i \in Ids, NEW p \in Paths, NEW v \in Visibility,
           CreateRepository(i, p, v)
    PROVE  Inv'
<1>1. TypeOK /\ Unique /\ AliasLive /\ call \in [Sessions -> Call]
    BY DEF Inv, TypeOK
<1>2. TypeOK'
    BY <1>1, RegisterTypes DEF CreateRepository
<1>3. NamesStep /\ Excuses({})
    BY NoOneExcused DEF CreateRepository, NamesStep
<1> QED
    BY <1>2, <1>3, TablesKeep DEF CreateRepository, Changed

LEMMA AutocreateKeeps ==
    ASSUME Inv, NEW s \in Sessions, Autocreate(s)
    PROVE  Inv'
<1>1. call[s].kind = "shell" /\ call[s].pc = "create"
    BY DEF Autocreate, At
<1>2. ASSUME NEW i \in steady[s]
      PROVE  FALSE
    BY <1>1, SteadyIsLive DEF Waiting
<1>3. CASE Answer(s, "missing") /\ Asked
    BY <1>1, <1>2, <1>3, AnswerKeeps
<1>4. ASSUME NEW i \in Ids, NS!Register(i, call[s].path),
             vis' = [vis EXCEPT ![i] = "PRIVATE"], Answer(s, "served"),
             UNCHANGED <<grant, key>>, Changed
      PROVE  Inv'
    <2>1. TypeOK /\ Unique /\ AliasLive /\ call \in [Sessions -> Call]
        BY DEF Inv, TypeOK
    <2>2. Fits(call[s]) /\ call[s].path \in Paths
        BY <1>1 DEF Inv, SteadyInv, Fits
    <2>3. /\ call' \in [Sessions -> Call]
          /\ \A t \in Sessions \ {s} : call'[t] = call[t]
          /\ call'[s].kind = call[s].kind /\ call'[s].who = call[s].who
          /\ call'[s].path = call[s].path /\ call'[s].need = call[s].need
          /\ call'[s].pc = "answered"
        BY <1>4, <2>1, Answers
    <2>4. "PRIVATE" \in Visibility
        BY VisibilityAssumption
    <2>5. PICK p \in Paths : p = call[s].path
        BY <2>2
    <2>6. NS!Register(i, p)
        BY <1>4, <2>5
    <2>7. TypeOK'
        BY <1>4, <2>1, <2>3, <2>4, <2>6, RegisterTypes
    <2>8. NamesStep /\ Excuses({})
        BY <1>4, <2>6, NoOneExcused DEF NamesStep
    <2>9. Fits(call[s])'
        BY <1>1, <2>2, <2>3 DEF Fits
    <2>10. steady[s] = {}
        BY <1>2
    <2> QED
        BY <1>4, <2>3, <2>7, <2>8, <2>9, <2>10, TablesKeep DEF Changed
<1> QED
    BY <1>3, <1>4 DEF Autocreate

LEMMA RenameKeeps ==
    ASSUME Inv, NEW i \in Ids, NEW p \in Paths, RenameRepository(i, p)
    PROVE  Inv'
<1>1. TypeOK /\ Unique /\ AliasLive
    BY DEF Inv
<1>2. /\ NS!Rename(i, p) /\ p[1] = OwnerOf(i) /\ Live(i)
      /\ UNCHANGED <<vis, grant, key, call>> /\ ChangedFor(Cloning)
    BY DEF RenameRepository
<1>3. /\ cur' \in [Ids -> Paths \cup {None}] /\ cur'[i] = p
      /\ \A j \in Ids \ {i} : cur'[j] = cur[j]
      /\ alias' \subseteq [path : Paths, repo : Ids]
    BY <1>1, <1>2, RenameNames
<1>4. p # None
    BY NoneAssumption
<1>5. \A j \in Ids : Live(j)' <=> Live(j)
    BY <1>2, <1>3, <1>4 DEF Live
<1>6. \A j \in Ids : Live(j) => OwnerOf(j)' = OwnerOf(j)
    BY <1>2, <1>3 DEF OwnerOf
<1>7. RowsBelong'
    BY <1>1, <1>2, <1>5, <1>6 DEF TypeOK, RowsBelong
<1>8. steady' \in [Sessions -> SUBSET Ids]
    BY <1>1, <1>2 DEF ChangedFor, TypeOK
<1>9. TypeOK'
    BY <1>1, <1>2, <1>3, <1>5, <1>7, <1>8 DEF TypeOK
<1>10. NamesStep /\ Excuses(Cloning)
    BY <1>2 DEF NamesStep, Excuses
<1> QED
    BY <1>2, <1>9, <1>10, TablesKeep

LEMMA DeleteKeeps ==
    ASSUME Inv, NEW i \in Ids, DeleteRepository(i)
    PROVE  Inv'
<1>1. TypeOK /\ Unique /\ AliasLive
    BY DEF Inv
<1>2. /\ NS!Forget(i) /\ vis' = [vis EXCEPT ![i] = None]
      /\ grant' = [grant EXCEPT ![i] = [u \in Users |-> None]]
      /\ key' = [key EXCEPT ![i] = [k \in Keys |-> None]]
      /\ UNCHANGED call /\ Changed
    BY DEF DeleteRepository
<1>3. /\ cur' \in [Ids -> Paths \cup {None}] /\ cur'[i] = None
      /\ alias' = {d \in alias : d.repo # i}
      /\ \A j \in Ids \ {i} : cur'[j] = cur[j]
    BY <1>1, <1>2, ForgetNames
<1>4. /\ vis' \in [Ids -> Visibility \cup {None}] /\ vis'[i] = None
      /\ \A j \in Ids \ {i} : vis'[j] = vis[j]
    BY <1>1, <1>2 DEF TypeOK
<1>5. /\ grant' \in [Ids -> [Users -> Modes \cup {None}]]
      /\ grant'[i] = [u \in Users |-> None]
      /\ \A j \in Ids \ {i} : grant'[j] = grant[j]
    BY <1>1, <1>2 DEF TypeOK
<1>6. /\ key' \in [Ids -> [Keys -> Modes \cup {None}]]
      /\ key'[i] = [k \in Keys |-> None]
      /\ \A j \in Ids \ {i} : key'[j] = key[j]
    BY <1>1, <1>2 DEF TypeOK
<1>7. \A j \in Ids : (Live(j) <=> vis[j] # None)'
    BY <1>1, <1>3, <1>4 DEF TypeOK, Live
<1>8. RowsBelong'
    <2>1. /\ ~Live(i)'
          /\ \A u \in Users : grant'[i][u] = None
          /\ \A k \in Keys : key'[i][k] = None
        BY <1>3, <1>5, <1>6 DEF Live
    <2>2. ASSUME NEW j \in Ids, j # i
          PROVE  cur'[j] = cur[j] /\ grant'[j] = grant[j] /\ key'[j] = key[j]
        BY <1>3, <1>5, <1>6, <2>2
    <2>3. RowsBelong
        BY <1>1 DEF TypeOK
    <2> QED
        BY <2>1, <2>2, <2>3 DEF RowsBelong, Live, OwnerOf
<1>9. steady' \in [Sessions -> SUBSET Ids]
    BY <1>1, <1>2 DEF Changed, ChangedFor, TypeOK
<1>10. alias' \subseteq [path : Paths, repo : Ids]
    BY <1>1, <1>3 DEF TypeOK
<1>11. TypeOK'
    BY <1>1, <1>2, <1>3, <1>4, <1>5, <1>6, <1>7, <1>8, <1>9, <1>10 DEF TypeOK
<1>12. NamesStep
    BY <1>2 DEF NamesStep
<1>13. ASSUME NEW t \in Sessions, NEW j \in steady[t] \cap Usable(call[t])',
              call[t].pc = "access"
       PROVE  grant'[j][call[t].who] = grant[j][call[t].who]
    <2>1. /\ j \in Ids /\ Fits(call[t]) /\ call'[t] = call[t]
          /\ call[t].kind # "key" /\ call[t].path \in Paths
        BY <1>2, <1>13, SteadyIsLive DEF Fits
    <2>2. PICK p \in Paths : p = call[t].path /\ p = call'[t].path
        BY <2>1
    <2>3. NS!Leads(p)' = {j}
        BY <1>13, <2>1, <2>2 DEF Usable, NS!Leads, NS!Free
    <2>4. \/ cur'[j] = p
          \/ {d.repo : d \in {e \in alias' : e.path = p}} = {j}
        BY <2>3 DEF NS!Leads, NS!Free
    <2>5. j # i
        BY <1>3, <2>4, NoneAssumption
    <2> QED
        BY <1>5, <2>1, <2>5
<1>14. Excuses({})
    BY <1>2, <1>13 DEF Excuses
<1> QED
    BY <1>2, <1>11, <1>12, <1>14, TablesKeep DEF Changed

\* The rows of a repository that keeps its name.
LEMMA RowsKeep ==
    ASSUME Inv, UNCHANGED <<cur, alias, call>>,
           NEW E, ChangedFor(E), Excuses(E),
           vis' \in [Ids -> Visibility \cup {None}],
           grant' \in [Ids -> [Users -> Modes \cup {None}]],
           key' \in [Ids -> [Keys -> Modes \cup {None}]],
           \A j \in Ids : Live(j) <=> vis'[j] # None,
           RowsBelong'
    PROVE  Inv'
<1>1. steady' \in [Sessions -> SUBSET Ids]
    BY DEF ChangedFor, TypeOK, Inv
<1>2. TypeOK'
    BY <1>1 DEF TypeOK, Inv, Live
<1>3. NamesStep
    BY DEF NamesStep
<1> QED
    BY <1>2, <1>3, TablesKeep

LEMMA ShowKeeps ==
    ASSUME Inv, NEW i \in Ids, NEW v \in Visibility, ShowRepository(i, v)
    PROVE  Inv'
<1>1. /\ Live(i) /\ vis' = [vis EXCEPT ![i] = v]
      /\ UNCHANGED <<cur, alias, grant, key, call>> /\ ChangedFor({})
      /\ Excuses({})
    BY NoOneExcused DEF ShowRepository, Changed
<1>2. v # None
    BY NoneAssumption
<1>3. /\ vis' \in [Ids -> Visibility \cup {None}]
      /\ \A j \in Ids : Live(j) <=> vis'[j] # None
    BY <1>1, <1>2 DEF Inv, TypeOK
<1>4. RowsBelong'
    BY <1>1 DEF Inv, TypeOK, RowsBelong, Live, OwnerOf
<1> QED
    BY <1>1, <1>3, <1>4, RowsKeep DEF Inv, TypeOK

LEMMA GrantKeeps ==
    ASSUME Inv, NEW i \in Ids, NEW u \in Users, NEW m \in Modes \cup {None},
           Live(i), u # OwnerOf(i) \/ m = None,
           grant' = [grant EXCEPT ![i][u] = m],
           UNCHANGED <<cur, alias, vis, key, call>>,
           NEW E, ChangedFor(E), E = Opening(i, u) \/ m # None
    PROVE  Inv'
<1>1. TypeOK
    BY DEF Inv
<1>2. /\ grant' \in [Ids -> [Users -> Modes \cup {None}]]
      /\ \A j \in Ids : j # i => grant'[j] = grant[j]
      /\ grant'[i] = [grant[i] EXCEPT ![u] = m]
    BY <1>1 DEF TypeOK
<1>3. OwnerOf(i) \in Users
    BY <1>1, OwnersAreUsers
<1>4. grant'[i][OwnerOf(i)] = None
    BY <1>1, <1>2, <1>3 DEF TypeOK, RowsBelong
<1>5. RowsBelong'
    BY <1>1, <1>2, <1>4 DEF TypeOK, RowsBelong, Live, OwnerOf
<1>6. m \in Modes => m # None
    BY NoneAssumption
<1>7. Excuses(E)
    <2>1. ASSUME NEW t \in Sessions \ E, NEW j \in steady[t],
                 call[t].pc = "access", call[t].direct = "PRIVATE",
                 grant[j][call[t].who] # None
          PROVE  grant'[j][call[t].who] # None
        <3>1. /\ j \in Ids /\ Waiting(t, j) /\ Fits(call[t])
            BY SteadyIsLive
        <3>2. call[t].moved = j /\ call[t].who \in Users
            BY <2>1, <3>1 DEF Waiting, Fits
        <3>3. CASE j = i /\ call[t].who = u
            BY <2>1, <3>2, <3>3, <1>2, <1>1 DEF Opening, TypeOK
        <3>4. CASE j # i \/ call[t].who # u
            BY <1>1, <1>2, <2>1, <3>1, <3>2, <3>4 DEF TypeOK
        <3> QED
            BY <3>3, <3>4
    <2> QED
        BY <2>1 DEF Excuses
<1> QED
    BY <1>1, <1>2, <1>5, <1>7, RowsKeep DEF TypeOK

LEMMA KeysKeep ==
    ASSUME Inv, NEW i \in Ids, NEW k \in Keys, NEW m \in Modes \cup {None},
           Live(i), key' = [key EXCEPT ![i][k] = m],
           UNCHANGED <<cur, alias, vis, grant, call>>, Changed
    PROVE  Inv'
<1>1. TypeOK
    BY DEF Inv
<1>2. /\ key' \in [Ids -> [Keys -> Modes \cup {None}]]
      /\ \A j \in Ids : j # i => key'[j] = key[j]
    BY <1>1 DEF TypeOK
<1>3. RowsBelong'
    BY <1>1, <1>2 DEF TypeOK, RowsBelong, Live, OwnerOf
<1>4. Excuses({})
    BY NoOneExcused
<1> QED
    BY <1>1, <1>2, <1>3, <1>4, RowsKeep DEF TypeOK, Changed

LEMMA MutationKeeps ==
    ASSUME Inv, Mutation
    PROVE  Inv'
<1> SUFFICES ASSUME NEW i \in Ids,
                    \/ \E p \in Paths, v \in Visibility : CreateRepository(i, p, v)
                    \/ \E p \in Paths : RenameRepository(i, p)
                    \/ \E v \in Visibility : ShowRepository(i, v)
                    \/ DeleteRepository(i)
                    \/ \E u \in Users, m \in Modes : UpdateACL(i, u, m)
                    \/ \E u \in Users : DeleteACL(i, u)
                    \/ \E k \in Keys, m \in Modes : CreateDeployKey(i, k, m)
                    \/ \E k \in Keys : DeleteDeployKey(i, k)
             PROVE  Inv'
    BY DEF Mutation
<1>1. ASSUME NEW u \in Users, NEW m \in Modes, UpdateACL(i, u, m)
      PROVE  Inv'
    <2>1. m # None /\ m \in Modes \cup {None}
        BY NoneAssumption
    <2>2. /\ Live(i) /\ u # OwnerOf(i) /\ grant' = [grant EXCEPT ![i][u] = m]
          /\ UNCHANGED <<cur, alias, vis, key, call>> /\ ChangedFor({})
        BY <1>1 DEF UpdateACL, Changed
    <2> QED
        BY <2>1, <2>2, GrantKeeps
<1>2. ASSUME NEW u \in Users, DeleteACL(i, u)
      PROVE  Inv'
    <2>1. PICK m \in Modes \cup {None} : m = None
        OBVIOUS
    <2>2. PICK E : E = Opening(i, u)
        OBVIOUS
    <2>3. /\ Live(i) /\ grant' = [grant EXCEPT ![i][u] = m]
          /\ UNCHANGED <<cur, alias, vis, key, call>> /\ ChangedFor(E)
        BY <1>2, <2>1, <2>2 DEF DeleteACL, ChangedFor
    <2> QED
        BY <2>1, <2>2, <2>3, GrantKeeps
<1>3. CASE \E k \in Keys, m \in Modes : CreateDeployKey(i, k, m)
    BY <1>3, KeysKeep DEF CreateDeployKey
<1>4. CASE \E k \in Keys : DeleteDeployKey(i, k)
    BY <1>4, KeysKeep DEF DeleteDeployKey
<1> QED
    BY <1>1, <1>2, <1>3, <1>4, CreateKeeps, RenameKeeps, ShowKeeps, DeleteKeeps

-----------------------------------------------------------------------------
LEMMA InvInit == Init => Inv
<1> SUFFICES ASSUME Init
             PROVE  Inv
    OBVIOUS
<1>1. TypeOK
    <2>1. Idle \in Call
        BY DEF Idle, Call, Needs
    <2> QED
        BY <2>1 DEF Init, TypeOK, RowsBelong, Live
<1>2. Unique /\ AliasLive
    BY DEF Init, Unique, AliasLive, Live
<1>3. SteadyInv
    BY DEF Init, SteadyInv, Fits, Idle
<1> QED
    BY <1>1, <1>2, <1>3 DEF Inv

LEMMA InvNext == Inv /\ [Next]_vars => Inv'
<1> SUFFICES ASSUME Inv, [Next]_vars
             PROVE  Inv'
    OBVIOUS
<1>1. CASE Mutation
    BY <1>1, MutationKeeps
<1>2. ASSUME NEW s \in Sessions, Session(s)
      PROVE  Inv'
    <2>1. CASE Shell(s)
        BY <2>1, ShellLookupKeeps, ShellRedirectKeeps, AutocreateKeeps DEF Shell
    <2>2. CASE KeyLookup(s)
        BY <2>2, KeyLookupKeeps
    <2>3. CASE Web(s) \/ Api(s)
        BY <2>3, WebLookupKeeps, WebAccessKeeps, ApiLookupKeeps, PlainRedirectKeeps DEF Web, Api
    <2>4. CASE Http(s)
        BY <2>4, DirectKeeps, MovedKeeps, HttpAnswerKeeps DEF Http
    <2>5. CASE QueryFails(s) \/ Finish(s)
        BY <2>5, QueryFailsKeeps, FinishKeeps
    <2> QED
        BY <1>2, <2>1, <2>2, <2>3, <2>4, <2>5, StartKeeps DEF Session
<1>3. CASE UNCHANGED vars
    <2>1. TypeOK'
        BY <1>3 DEF vars, rows, Inv, TypeOK, RowsBelong, Live, OwnerOf
    <2>2. Unique' /\ AliasLive'
        BY <1>3 DEF vars, rows, Inv, Unique, AliasLive, Live
    <2>3. SteadyInv'
        BY <1>3 DEF vars, rows, Inv, SteadyInv, Fits, Waiting, Sole, Usable,
                    Rights, KeyRights, NS!Leads, NS!Free, OwnerOf, GrantOf
    <2> QED
        BY <2>1, <2>2, <2>3 DEF Inv
<1> QED
    BY <1>1, <1>2, <1>3 DEF Next

\* The invariant the others follow from.
THEOREM AccessInvariant == Spec => []Inv
    BY InvInit, InvNext, PTL DEF Spec

\* Every table and every caller keeps its type, and rows of access and keys
\* belong to repositories there are.
THEOREM AccessTyped == Spec => []TypeOK
<1>1. Inv => TypeOK
    BY DEF Inv
<1> QED
    BY <1>1, AccessInvariant, PTL

\* The shell, the web pages, the resolvers and the loaders decide alike for
\* every person and every repository.
THEOREM AllDecideAlike == Spec => []DecisionsAgree
<1>1. Inv => DecisionsAgree
    BY RulesAgree DEF Inv
<1> QED
    BY <1>1, AccessInvariant, PTL

\* A user's list of repositories differs from what its reader may read in
\* unlisted ones alone.
THEOREM ListsShowWhatIsRead == Spec => []ListsAgree
<1>1. Inv => ListsAgree
    BY ListRule DEF Inv
<1> QED
    BY <1>1, AccessInvariant, PTL

\* Whoever names a path that leads to their repository all along is not told that
\* there is nothing, whatever is renamed between the program's two lookups.  An
\* HTTP clone that a rename falls into, a web page whose guest loses the ACL after
\* it was read as private, and a shell whose query fails have no steady path.
THEOREM RenamesLoseNoOne == Spec => []SteadyPathsAreFound
<1>1. Inv => SteadyPathsAreFound
    BY SteadyIsLive DEF Inv, SteadyInv, Waiting, SteadyPathsAreFound
<1> QED
    BY <1>1, AccessInvariant, PTL
=============================================================================
