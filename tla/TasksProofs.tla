---------------------------- MODULE TasksProofs ----------------------------
(***************************************************************************)
(* Proofs about Tasks, for any number of users, repositories, tasks,        *)
(* failures and restarts and queues of any length.                          *)
(***************************************************************************)
EXTENDS Tasks, SequenceTheorems, TLAPS

\* Which tasks come to which queue.
Jobs ==
    /\ \A t \in Range(due) \cup Range(repos) : t.job = "clone" => t.from # None
    /\ \A t \in Range(due) : t.job # "objects" /\ t.step # "objects"
    /\ \A t \in Range(repos) : t.job \in {"clone", "objects"}
    /\ \A t \in Range(repos) : t.job = "objects" <=> t.step = "objects"
    /\ \A t \in Range(search) : t.job \in {"index", "purge"}

-----------------------------------------------------------------------------
(* Sequences.                                                               *)

LEMMA AppendIs ==
    ASSUME NEW S, NEW s \in Seq(S), NEW e \in S
    PROVE  /\ Append(s, e) \in Seq(S) /\ Len(Append(s, e)) = Len(s) + 1
           /\ DOMAIN Append(s, e) = 1 .. Len(s) + 1
           /\ \A n \in 1 .. Len(s) : Append(s, e)[n] = s[n]
           /\ Append(s, e)[Len(s) + 1] = e
    OBVIOUS

LEMMA RemoveAtIs ==
    ASSUME NEW S, NEW s \in Seq(S), NEW n \in 1 .. Len(s)
    PROVE  /\ RemoveAt(s, n) \in Seq(S) /\ Len(RemoveAt(s, n)) = Len(s) - 1
           /\ DOMAIN RemoveAt(s, n) = 1 .. Len(s) - 1
           /\ \A m \in 1 .. Len(s) - 1 :
                 RemoveAt(s, n)[m] = IF m < n THEN s[m] ELSE s[m + 1]
<1> DEFINE a == SubSeq(s, 1, n - 1)
           b == SubSeq(s, n + 1, Len(s))
<1>1. /\ a \in Seq(S) /\ Len(a) = n - 1
      /\ \A m \in 1 .. n - 1 : a[m] = s[m]
    OBVIOUS
<1>2. /\ b \in Seq(S) /\ Len(b) = Len(s) - n
      /\ \A m \in 1 .. Len(s) - n : b[m] = s[m + n]
    OBVIOUS
<1>3. RemoveAt(s, n) = a \o b
    BY DEF RemoveAt
<1> HIDE DEF a, b
<1>4. /\ a \o b \in Seq(S) /\ Len(a \o b) = Len(s) - 1
      /\ DOMAIN (a \o b) = 1 .. Len(s) - 1
    <2>1. a \o b \in Seq(S) /\ Len(a \o b) = Len(a) + Len(b)
        BY <1>1, <1>2, ConcatProperties
    <2>2. Len(a \o b) = Len(s) - 1
        BY <1>1, <1>2, <2>1
    <2> QED
        BY <2>1, <2>2
<1>5. ASSUME NEW m \in 1 .. Len(s) - 1
      PROVE  (a \o b)[m] = IF m < n THEN s[m] ELSE s[m + 1]
    <2>1. CASE m < n
        BY <1>1, <1>2, <2>1
    <2>2. CASE ~(m < n)
        <3>1. (a \o b)[m] = b[m - (n - 1)]
            BY <1>1, <1>2, <2>2
        <3>2. m - (n - 1) \in 1 .. Len(s) - n /\ (m - (n - 1)) + n = m + 1
            BY <2>2
        <3> QED
            BY <1>2, <2>2, <3>1, <3>2
    <2> QED
        BY <2>1, <2>2
<1> QED
    BY <1>3, <1>4, <1>5

LEMMA TailIs ==
    ASSUME NEW S, NEW s \in Seq(S), s # <<>>
    PROVE  /\ Head(s) = s[1] /\ s[1] \in S /\ Len(s) \in Nat \ {0}
           /\ Tail(s) \in Seq(S) /\ Len(Tail(s)) = Len(s) - 1
           /\ DOMAIN Tail(s) = 1 .. Len(s) - 1
           /\ \A n \in 1 .. Len(s) - 1 : Tail(s)[n] = s[n + 1]
    OBVIOUS

LEMMA FirstIs ==
    ASSUME NEW S, NEW s \in Seq(S), s # <<>>, NEW e \in S
    PROVE  /\ <<e>> \o Tail(s) \in Seq(S) /\ Len(<<e>> \o Tail(s)) = Len(s)
           /\ DOMAIN (<<e>> \o Tail(s)) = 1 .. Len(s)
           /\ (<<e>> \o Tail(s))[1] = e
           /\ \A n \in 2 .. Len(s) : (<<e>> \o Tail(s))[n] = s[n]
<1>1. /\ Tail(s) \in Seq(S) /\ Len(Tail(s)) = Len(s) - 1
      /\ \A n \in 1 .. Len(s) - 1 : Tail(s)[n] = s[n + 1]
      /\ Len(s) \in Nat \ {0}
    BY TailIs
<1>2. <<e>> \in Seq(S) /\ Len(<<e>>) = 1 /\ <<e>>[1] = e
    OBVIOUS
<1>3. /\ <<e>> \o Tail(s) \in Seq(S) /\ Len(<<e>> \o Tail(s)) = Len(s)
      /\ DOMAIN (<<e>> \o Tail(s)) = 1 .. Len(s)
      /\ (<<e>> \o Tail(s))[1] = e
    BY <1>1, <1>2
<1>4. ASSUME NEW n \in 2 .. Len(s)
      PROVE  (<<e>> \o Tail(s))[n] = s[n]
    <2>1. (<<e>> \o Tail(s))[n] = Tail(s)[n - 1]
        BY <1>1, <1>2
    <2>2. n - 1 \in 1 .. Len(s) - 1 /\ (n - 1) + 1 = n
        BY <1>1
    <2> QED
        BY <1>1, <2>1, <2>2
<1> QED
    BY <1>3, <1>4

\* What is in them.
LEMMA RangeIn ==
    ASSUME NEW S, NEW s \in Seq(S), NEW e \in Range(s)
    PROVE  e \in S /\ \E n \in DOMAIN s : s[n] = e
    BY DEF Range

LEMMA RangeOfAppend ==
    ASSUME NEW S, NEW s \in Seq(S), NEW e \in S
    PROVE  Range(Append(s, e)) = Range(s) \cup {e}
    BY AppendIs DEF Range

LEMMA RangeOfRemoveAt ==
    ASSUME NEW S, NEW s \in Seq(S), NEW n \in DOMAIN s
    PROVE  /\ Range(RemoveAt(s, n)) \subseteq Range(s)
           /\ Range(s) \subseteq Range(RemoveAt(s, n)) \cup {s[n]}
<1>1. n \in 1 .. Len(s) /\ Len(s) \in Nat /\ DOMAIN s = 1 .. Len(s)
    OBVIOUS
<1> DEFINE r == RemoveAt(s, n)
<1>2. /\ DOMAIN r = 1 .. Len(s) - 1
      /\ \A m \in 1 .. Len(s) - 1 : r[m] = IF m < n THEN s[m] ELSE s[m + 1]
    BY <1>1, RemoveAtIs
<1> HIDE DEF r
<1>3. Range(r) \subseteq Range(s)
    <2> SUFFICES ASSUME NEW m \in 1 .. Len(s) - 1
                 PROVE  r[m] \in Range(s)
        BY <1>2 DEF Range
    <2>1. m \in DOMAIN s /\ m + 1 \in DOMAIN s
        BY <1>1
    <2> QED
        BY <1>2, <2>1 DEF Range
<1>4. ASSUME NEW m \in DOMAIN s, m # n
      PROVE  s[m] \in Range(r)
    <2>1. CASE m < n
        <3>1. m \in 1 .. Len(s) - 1
            BY <1>1, <2>1
        <3> QED
            BY <1>2, <2>1, <3>1 DEF Range
    <2>2. CASE m > n
        <3>1. /\ m - 1 \in 1 .. Len(s) - 1 /\ ~(m - 1 < n)
              /\ (m - 1) + 1 = m
            BY <1>1, <2>2
        <3> QED
            BY <1>2, <3>1 DEF Range
    <2> QED
        BY <1>1, <1>4, <2>1, <2>2
<1> QED
    BY <1>3, <1>4 DEF r, Range

LEMMA RangeOfTail ==
    ASSUME NEW S, NEW s \in Seq(S), s # <<>>
    PROVE  /\ Range(Tail(s)) \subseteq Range(s)
           /\ Range(s) \subseteq Range(Tail(s)) \cup {s[1]}
           /\ Head(s) = s[1] /\ s[1] \in Range(s) /\ s[1] \in S
<1>1. /\ Head(s) = s[1] /\ s[1] \in S /\ Len(s) \in Nat \ {0}
      /\ DOMAIN Tail(s) = 1 .. Len(s) - 1 /\ DOMAIN s = 1 .. Len(s)
      /\ \A n \in 1 .. Len(s) - 1 : Tail(s)[n] = s[n + 1]
    BY TailIs
<1>2. Range(Tail(s)) \subseteq Range(s) /\ s[1] \in Range(s)
    BY <1>1 DEF Range
<1>3. ASSUME NEW n \in DOMAIN s, n # 1
      PROVE  s[n] \in Range(Tail(s))
    <2>1. n - 1 \in 1 .. Len(s) - 1 /\ (n - 1) + 1 = n
        BY <1>1, <1>3
    <2> QED
        BY <1>1, <2>1 DEF Range
<1> QED
    BY <1>1, <1>2, <1>3 DEF Range

LEMMA RangeOfFirst ==
    ASSUME NEW S, NEW s \in Seq(S), s # <<>>, NEW e \in S
    PROVE  /\ Range(<<e>> \o Tail(s)) \subseteq Range(s) \cup {e}
           /\ Range(s) \subseteq Range(<<e>> \o Tail(s)) \cup {s[1]}
           /\ e \in Range(<<e>> \o Tail(s))
<1> DEFINE r == <<e>> \o Tail(s)
<1>1. /\ Len(s) \in Nat \ {0} /\ DOMAIN s = 1 .. Len(s)
      /\ DOMAIN r = 1 .. Len(s) /\ r[1] = e
      /\ \A n \in 2 .. Len(s) : r[n] = s[n]
    BY TailIs, FirstIs
<1> HIDE DEF r
<1>2. \A n \in DOMAIN s : n = 1 \/ n \in 2 .. Len(s)
    BY <1>1
<1>3. Range(r) \subseteq Range(s) \cup {e}
    BY <1>1, <1>2 DEF Range
<1>4. Range(s) \subseteq Range(r) \cup {s[1]}
    BY <1>1, <1>2 DEF Range
<1>5. e \in Range(r)
    BY <1>1 DEF Range
<1> QED
    BY <1>3, <1>4, <1>5 DEF r

-----------------------------------------------------------------------------
(* What each action does to the tables, the queues and the directories.     *)

LEMMA PathsHaveUsers == \A p \in Paths : p[1] \in Users
    BY DEF Paths

LEMMA CallsAreTasks ==
    ASSUME NEW i \in Ids, NEW row \in Row, NEW from \in Sources,
           NEW job \in {"clone", "objects", "index", "purge"}
    PROVE  /\ Call(job, i, row, from) \in Task
           /\ Call(job, i, row, from).job = job
           /\ Call(job, i, row, from).id = i
           /\ Call(job, i, row, from).path = row.path
           /\ Call(job, i, row, from).vis = row.vis
           /\ Call(job, i, row, from).from = from
           /\ Call(job, i, row, from).step = "ask"
    BY DEF Call, Task, Row

LEMMA Scheduled ==
    ASSUME TypeOK, NEW c \in Task, Schedule(c)
    PROVE  /\ due' \in Seq(Task) /\ Range(due') = Range(due) \cup {c}
           /\ due' = Append(due, c)
    BY AppendIs, RangeOfAppend DEF Schedule, TypeOK

\* The artifacts of i are left to the queue of the imports, or it has none.
LEMMA ObjectsQueued ==
    ASSUME TypeOK, NEW i \in Ids, Live(i), DeleteArtifacts(i)
    PROVE  /\ repos' \in Seq(Task) /\ Len(repos') <= Room
           /\ Range(repos) \subseteq Range(repos')
           /\ \A t \in Range(repos') \ Range(repos) :
                 t.job = "objects" /\ t.step = "objects" /\ t.id = i
<1> DEFINE c == Call("objects", i, repo[i], None)
           e == [c EXCEPT !.step = "objects"]
<1>1. repo[i] \in Row /\ None \in Sources
    BY DEF TypeOK, Live, Sources
<1>2. c \in Task /\ c.job = "objects" /\ c.id = i
    BY <1>1, CallsAreTasks
<1> HIDE DEF c
<1>3. e \in Task /\ e.job = "objects" /\ e.step = "objects" /\ e.id = i
    BY <1>2 DEF Task
<1>4. repos' = repos \/ (Len(repos) < Room /\ repos' = Append(repos, e))
    BY DEF DeleteArtifacts, c
<1> HIDE DEF e
<1>5. CASE repos' = repos
    BY <1>5 DEF TypeOK
<1>6. CASE Len(repos) < Room /\ repos' = Append(repos, e)
    <2>1. /\ repos \in Seq(Task) /\ repos' \in Seq(Task)
          /\ Len(repos') = Len(repos) + 1 /\ Range(repos') = Range(repos) \cup {e}
        BY <1>3, <1>6, AppendIs, RangeOfAppend DEF TypeOK
    <2>2. Len(repos') <= Room
        BY <1>6, <2>1, NumbersAssumption
    <2> QED
        BY <1>3, <2>1, <2>2
<1> QED
    BY <1>4, <1>5, <1>6

LEMMA CreateRow ==
    ASSUME TypeOK, NEW i \in Ids, NEW p \in Paths, NEW v \in Visibility,
           NEW from \in Sources, CreateRepository(i, p, v, from)
    PROVE  /\ i \notin used /\ used' = used \cup {i} /\ p[1] \in user
           /\ repo' \in [Ids -> Row \cup {None}] /\ Live(i)'
           /\ repo'[i].path = p
           /\ repo'[i].clone # "COMPLETE"
           /\ repo'[i].clone = "IN_PROGRESS" => from # None
           /\ \A j \in Ids \ {i} : repo'[j] = repo[j]
<1> DEFINE row == [path |-> p, vis |-> v,
                   clone |-> IF from = None THEN "NONE" ELSE "IN_PROGRESS"]
<1>1. row \in Row /\ row # None
    BY NoneAssumption DEF Row, Status
<1>2. /\ i \notin used /\ used' = used \cup {i} /\ p[1] \in user
      /\ repo' = [repo EXCEPT ![i] = row]
    BY DEF CreateRepository
<1>3. /\ row.path = p /\ row.clone # "COMPLETE"
      /\ row.clone = "IN_PROGRESS" => from # None
    OBVIOUS
<1> HIDE DEF row
<1>4. /\ repo' \in [Ids -> Row \cup {None}] /\ repo'[i] = row
      /\ \A j \in Ids \ {i} : repo'[j] = repo[j]
    BY <1>1, <1>2 DEF TypeOK
<1> QED
    BY <1>1, <1>2, <1>3, <1>4 DEF Live

LEMMA CreateDirectory ==
    ASSUME TypeOK, NEW i \in Ids, NEW p \in Paths, NEW v \in Visibility,
           NEW from \in Sources, CreateRepository(i, p, v, from)
    PROVE  /\ \A j \in Ids : Live(j) => repo[j].path # p
           /\ disk' \in [Paths -> Dir \cup {None}]
           /\ disk'[p] # None /\ disk'[p].repo = i
           /\ \A q \in Paths \ {p} : disk'[q] = disk[q]
<1> DEFINE dir == [repo |-> i, got |-> None]
<1>1. dir \in Dir /\ dir # None /\ dir.repo = i
    BY NoneAssumption DEF Dir, Contents
<1>2. At(p) = {} /\ disk' = [disk EXCEPT ![p] = dir]
    BY DEF CreateRepository
<1>3. \A j \in Ids : Live(j) => repo[j].path # p
    BY <1>2 DEF At
<1> HIDE DEF dir
<1>4. /\ disk' \in [Paths -> Dir \cup {None}] /\ disk'[p] = dir
      /\ \A q \in Paths \ {p} : disk'[q] = disk[q]
    BY <1>1, <1>2 DEF TypeOK
<1> QED
    BY <1>1, <1>3, <1>4

LEMMA CreateQueues ==
    ASSUME TypeOK, NEW i \in Ids, NEW p \in Paths, NEW v \in Visibility,
           NEW from \in Sources, CreateRepository(i, p, v, from)
    PROVE  /\ due' \in Seq(Task)
           /\ from = None => due' = due
           /\ from # None =>
                \E c \in Task :
                    /\ c.job = "clone" /\ c.id = i /\ c.path = p
                    /\ c.from = from /\ c.step = "ask"
                    /\ due' = Append(due, c)
                    /\ Range(due') = Range(due) \cup {c}
           /\ wanted' \in [Ids -> Contents]
           /\ \A j \in Ids \ {i} : wanted'[j] = wanted[j]
           /\ from \notin Paths => wanted'[i] = from
           /\ from \in Paths => /\ wanted'[i] \in Ids /\ Live(wanted'[i])
                                /\ repo[wanted'[i]].path = from
<1> DEFINE row == [path |-> p, vis |-> v,
                   clone |-> IF from = None THEN "NONE" ELSE "IN_PROGRESS"]
           w == IF from \in Paths THEN CHOOSE j \in At(from) : TRUE ELSE from
<1>1. row \in Row /\ row.path = p
    BY DEF Row, Status
<1>2. /\ IF from = None THEN UNCHANGED due
                        ELSE Schedule(Call("clone", i, row, from))
      /\ wanted' = [wanted EXCEPT ![i] = w]
      /\ from \in Paths => At(from) # {}
    BY DEF CreateRepository
<1>3. from \in Paths => w \in Ids /\ Live(w) /\ repo[w].path = from
    BY <1>2 DEF At
<1>4. w \in Contents
    BY <1>3 DEF Sources, Contents
<1> HIDE DEF row, w
<1>5. from # None => /\ due' \in Seq(Task)
                     /\ due' = Append(due, Call("clone", i, row, from))
                     /\ Range(due') = Range(due) \cup {Call("clone", i, row, from)}
    BY <1>1, <1>2, CallsAreTasks, Scheduled
<1>6. due' \in Seq(Task)
    BY <1>2, <1>5 DEF TypeOK
<1>7. from # None =>
        \E c \in Task :
            /\ c.job = "clone" /\ c.id = i /\ c.path = p
            /\ c.from = from /\ c.step = "ask"
            /\ due' = Append(due, c)
            /\ Range(due') = Range(due) \cup {c}
    BY <1>1, <1>5, CallsAreTasks
<1>8. /\ wanted' \in [Ids -> Contents] /\ wanted'[i] = w
      /\ \A j \in Ids \ {i} : wanted'[j] = wanted[j]
    BY <1>2, <1>4 DEF TypeOK
<1>9. from \notin Paths => w = from
    BY DEF w
<1> QED
    BY <1>2, <1>3, <1>6, <1>7, <1>8, <1>9

LEMMA CreateMoves ==
    ASSUME TypeOK, NEW i \in Ids, NEW p \in Paths, NEW v \in Visibility,
           NEW from \in Sources, CreateRepository(i, p, v, from)
    PROVE  moved' = moved \cup Disturbed(i, p)
                          \cup (IF wanted'[i] \in stranded THEN {i} ELSE {})
<1> DEFINE w == IF from \in Paths THEN CHOOSE j \in At(from) : TRUE ELSE from
<1>1. /\ wanted' = [wanted EXCEPT ![i] = w]
      /\ moved' = moved \cup Disturbed(i, p)
                       \cup (IF w \in stranded THEN {i} ELSE {})
    BY DEF CreateRepository
<1> HIDE DEF w
<1> QED
    BY <1>1 DEF TypeOK

LEMMA UpdateTables ==
    ASSUME TypeOK, NEW i \in Ids, NEW p \in Paths, NEW v \in Visibility,
           UpdateRepository(i, p, v)
    PROVE  /\ Live(i) /\ repo[i].path \in Paths /\ p[1] = repo[i].path[1]
           /\ p # repo[i].path =>
                /\ \A j \in Ids : Live(j) => repo[j].path # p
                /\ disk[p] = None /\ disk[repo[i].path] # None
           /\ repo' \in [Ids -> Row \cup {None}] /\ Live(i)'
           /\ repo'[i].path = p /\ repo'[i].vis = v
           /\ repo'[i].clone = repo[i].clone
           /\ \A j \in Ids \ {i} : repo'[j] = repo[j]
           /\ disk' \in [Paths -> Dir \cup {None}]
           /\ disk'[p] = disk[repo[i].path]
           /\ p # repo[i].path => disk'[repo[i].path] = None
           /\ \A q \in Paths \ {p, repo[i].path} : disk'[q] = disk[q]
<1> DEFINE q == repo[i].path
           row == [repo[i] EXCEPT !.path = p, !.vis = v]
<1>1. /\ Live(i) /\ p[1] = q[1]
      /\ p # q => At(p) = {} /\ disk[p] = None
      /\ disk[q] = None => p = q
      /\ repo' = [repo EXCEPT ![i] = row]
      /\ disk' = [disk EXCEPT ![q] = None, ![p] = disk[q]]
    BY DEF UpdateRepository
<1>2. repo[i] \in Row /\ q \in Paths
    BY <1>1 DEF TypeOK, Live, Row
<1>3. /\ row \in Row /\ row.path = p /\ row.vis = v
      /\ row.clone = repo[i].clone
    BY <1>2 DEF Row
<1>4. row # None
    BY <1>3, NoneAssumption
<1> HIDE DEF row
<1>5. /\ repo' \in [Ids -> Row \cup {None}] /\ repo'[i] = row
      /\ \A j \in Ids \ {i} : repo'[j] = repo[j]
    BY <1>1, <1>3 DEF TypeOK
<1>6. p # q => \A j \in Ids : Live(j) => repo[j].path # p
    BY <1>1 DEF At
<1> HIDE DEF q
<1>7. /\ disk' \in [Paths -> Dir \cup {None}]
      /\ disk'[p] = disk[q]
      /\ p # q => disk'[q] = None
      /\ \A r \in Paths \ {p, q} : disk'[r] = disk[r]
    BY <1>1, <1>2 DEF TypeOK
<1> QED
    BY <1>1, <1>2, <1>3, <1>4, <1>5, <1>6, <1>7 DEF q, Live

LEMMA UpdateQueues ==
    ASSUME TypeOK, NEW i \in Ids, NEW p \in Paths, NEW v \in Visibility,
           UpdateRepository(i, p, v)
    PROVE  \E c \in Task :
                /\ c.job = "index" /\ c.id = i /\ c.path = p /\ c.vis = v
                /\ c.step = "ask" /\ due' = Append(due, c)
                /\ Range(due') = Range(due) \cup {c}
                /\ due' \in Seq(Task)
<1> DEFINE row == [repo[i] EXCEPT !.path = p, !.vis = v]
<1>1. Live(i) /\ Schedule(Call("index", i, row, None))
    BY DEF UpdateRepository
<1>2. repo[i] \in Row
    BY <1>1 DEF TypeOK, Live
<1>3. row \in Row /\ row.path = p /\ row.vis = v
    BY <1>2 DEF Row
<1> HIDE DEF row
<1>4. None \in Sources
    BY DEF Sources
<1> QED
    BY <1>1, <1>3, <1>4, CallsAreTasks, Scheduled

LEMMA DeleteTables ==
    ASSUME TypeOK, NEW i \in Ids, DeleteRepository(i)
    PROVE  /\ Live(i) /\ repo[i].path \in Paths
           /\ repo' \in [Ids -> Row \cup {None}] /\ repo'[i] = None
           /\ \A j \in Ids \ {i} : repo'[j] = repo[j]
           /\ disk' \in [Paths -> Dir \cup {None}]
           /\ disk'[repo[i].path] = None
           /\ \A q \in Paths \ {repo[i].path} : disk'[q] = disk[q]
           /\ \E c \in Task :
                /\ c.job = "purge" /\ c.id = i
                /\ c.step = "ask" /\ due' = Append(due, c)
                /\ Range(due') = Range(due) \cup {c}
                /\ due' \in Seq(Task)
<1>1. /\ Live(i) /\ repo' = [repo EXCEPT ![i] = None]
      /\ disk' = [disk EXCEPT ![repo[i].path] = None]
      /\ Schedule(Call("purge", i, repo[i], None))
    BY DEF DeleteRepository
<1>2. repo[i] \in Row /\ repo[i].path \in Paths
    BY <1>1 DEF TypeOK, Live, Row
<1>3. /\ repo' \in [Ids -> Row \cup {None}] /\ repo'[i] = None
      /\ \A j \in Ids \ {i} : repo'[j] = repo[j]
    BY <1>1 DEF TypeOK
<1>4. /\ disk' \in [Paths -> Dir \cup {None}]
      /\ disk'[repo[i].path] = None
      /\ \A q \in Paths \ {repo[i].path} : disk'[q] = disk[q]
    BY <1>1, <1>2 DEF TypeOK
<1>5. None \in Sources
    BY DEF Sources
<1>6. \E c \in Task : /\ c.job = "purge" /\ c.id = i /\ c.step = "ask"
                      /\ due' = Append(due, c)
                      /\ Range(due') = Range(due) \cup {c}
                      /\ due' \in Seq(Task)
    BY <1>1, <1>2, <1>5, CallsAreTasks, Scheduled
<1> QED
    BY <1>1, <1>2, <1>3, <1>4, <1>6

\* A failed mutation takes the directory of i to p, or away, and no row.
LEMMA StrandWrites ==
    ASSUME TypeOK, NEW i \in Ids, NEW p \in Paths \cup {None}, Strand(i, p)
    PROVE  /\ Live(i) /\ repo[i].path \in Paths
           /\ disk' \in [Paths -> Dir \cup {None}]
           /\ disk'[repo[i].path] = None
           /\ \A r \in Paths \ {p, repo[i].path} : disk'[r] = disk[r]
           /\ p \in Paths => /\ p[1] = repo[i].path[1] /\ disk[p] = None
                             /\ disk'[p] = disk[repo[i].path]
                             /\ disk[repo[i].path] # None
           /\ repos' \in Seq(Task) /\ Len(repos') <= Room
           /\ Range(repos) \subseteq Range(repos')
           /\ \A t \in Range(repos') \ Range(repos) :
                 t.job = "objects" /\ t.step = "objects" /\ t.id = i
           /\ stranded' = stranded \cup {i} \cup At(p)
           /\ off' = off \cup {i} \cup At(p)
           /\ moved' \subseteq Ids /\ moved \subseteq moved'
           /\ \A j \in {i} \cup At(p) : Strayed(j) \subseteq moved'
           /\ UNCHANGED <<repo, used, user, index, due, search, account, lost,
                          wanted, late, littered>>
           /\ Counted
<1> DEFINE q == repo[i].path
<1>1. /\ Live(i)
      /\ IF p = None THEN DeleteArtifacts(i)
         ELSE p[1] = q[1] /\ p # q /\ disk[p] = None /\ disk[q] # None /\ UNCHANGED repos
      /\ disk' = [d \in Paths |-> IF d = q THEN None
                                  ELSE IF d = p THEN disk[q] ELSE disk[d]]
      /\ stranded' = stranded \cup {i} \cup At(p)
      /\ off' = off \cup {i} \cup At(p)
      /\ moved' = moved \cup UNION {Strayed(j) : j \in {i} \cup At(p)}
      /\ UNCHANGED <<repo, due>> /\ Change
    BY DEF Strand
<1>2. q \in Paths /\ None \notin Paths
    BY <1>1, NoneAssumption DEF TypeOK, Live, Row
<1> HIDE DEF q
<1>3. /\ disk' \in [Paths -> Dir \cup {None}]
      /\ disk'[q] = None
      /\ \A r \in Paths \ {p, q} : disk'[r] = disk[r]
      /\ p \in Paths => /\ p[1] = q[1] /\ disk[p] = None
                        /\ disk'[p] = disk[q] /\ disk[q] # None
    BY <1>1, <1>2 DEF TypeOK
<1>4. /\ repos' \in Seq(Task) /\ Len(repos') <= Room
      /\ Range(repos) \subseteq Range(repos')
      /\ \A t \in Range(repos') \ Range(repos) :
            t.job = "objects" /\ t.step = "objects" /\ t.id = i
    <2>1. CASE p = None
        BY <1>1, <2>1, ObjectsQueued
    <2>2. CASE p # None
        <3>1. repos' = repos
            BY <1>1, <2>2
        <3> QED
            BY <3>1 DEF TypeOK
    <2> QED
        BY <2>1, <2>2
<1>5. /\ UNCHANGED <<used, user, index, search, account, lost, wanted, late,
                     littered>>
      /\ Counted
    BY <1>1 DEF Change
<1>6. moved' \subseteq Ids
    BY <1>1 DEF TypeOK, Strayed, At
<1>7. moved \subseteq moved' /\ \A j \in {i} \cup At(p) : Strayed(j) \subseteq moved'
    BY <1>1
<1> QED
    BY <1>1, <1>2, <1>3, <1>4, <1>5, <1>6, <1>7 DEF q

LEMMA EventQueues ==
    ASSUME TypeOK, NEW i \in Ids, DeliverGitEvent(i)
    PROVE  /\ Live(i)
           /\ \E c \in Task :
                /\ c.job = "index" /\ c.id = i
                /\ c.path = repo[i].path /\ c.vis = repo[i].vis
                /\ c.step = "ask" /\ due' = Append(due, c)
                /\ Range(due') = Range(due) \cup {c}
                /\ due' \in Seq(Task)
<1>1. Live(i) /\ Schedule(Call("index", i, repo[i], None))
    BY DEF DeliverGitEvent
<1>2. repo[i] \in Row
    BY <1>1 DEF TypeOK, Live
<1>3. None \in Sources
    BY DEF Sources
<1> QED
    BY <1>1, <1>2, <1>3, CallsAreTasks, Scheduled

\* A call comes to its queue.
LEMMA DueLosesOne ==
    ASSUME TypeOK, NEW n \in DOMAIN due, due' = RemoveAt(due, n)
    PROVE  /\ due[n] \in Task /\ due' \in Seq(Task)
           /\ Range(due') \subseteq Range(due)
           /\ Range(due) \subseteq Range(due') \cup {due[n]}
           /\ due[n] \in Range(due)
<1>1. due \in Seq(Task) /\ n \in 1 .. Len(due)
    BY DEF TypeOK
<1>2. due[n] \in Task /\ due[n] \in Range(due)
    BY <1>1 DEF Range
<1> QED
    BY <1>1, <1>2, RemoveAtIs, RangeOfRemoveAt

\* The import at the head of its queue takes a step.
LEMMA ThenGoesOn ==
    ASSUME TypeOK, repos # <<>>,
           NEW step \in {"ask", "fetch", "head", "good", "bad"}, Then(step)
    PROVE  /\ Head(repos) \in Task /\ Head(repos) \in Range(repos)
           /\ repos' \in Seq(Task) /\ Len(repos') = Len(repos)
           /\ \E e \in Task :
                 /\ e.job = Head(repos).job /\ e.id = Head(repos).id
                 /\ e.path = Head(repos).path /\ e.from = Head(repos).from
                 /\ e.step = step
                 /\ e \in Range(repos')
                 /\ Range(repos') \subseteq Range(repos) \cup {e}
                 /\ Range(repos) \subseteq Range(repos') \cup {Head(repos)}
<1>1. repos \in Seq(Task)
    BY DEF TypeOK
<1>2. /\ Head(repos) = repos[1] /\ repos[1] \in Task
      /\ repos[1] \in Range(repos)
    BY <1>1, RangeOfTail
<1> DEFINE e == [Head(repos) EXCEPT !.step = step]
<1>3. /\ e \in Task /\ e.job = Head(repos).job /\ e.id = Head(repos).id
      /\ e.path = Head(repos).path /\ e.from = Head(repos).from
      /\ e.step = step
    BY <1>2 DEF Task
<1>4. repos' = <<e>> \o Tail(repos)
    BY DEF Then
<1> HIDE DEF e
<1>5. repos' \in Seq(Task) /\ Len(repos') = Len(repos)
    BY <1>1, <1>3, <1>4, FirstIs
<1>6. /\ e \in Range(repos')
      /\ Range(repos') \subseteq Range(repos) \cup {e}
      /\ Range(repos) \subseteq Range(repos') \cup {Head(repos)}
    BY <1>1, <1>2, <1>3, <1>4, RangeOfFirst
<1> QED
    BY <1>2, <1>3, <1>5, <1>6

\* A queue loses its first task.
LEMMA HeadLeaves ==
    ASSUME NEW q \in Seq(Task), q # <<>>
    PROVE  /\ Head(q) \in Task /\ Head(q) \in Range(q)
           /\ Tail(q) \in Seq(Task) /\ Len(Tail(q)) <= Len(q)
           /\ Range(Tail(q)) \subseteq Range(q)
           /\ Range(q) \subseteq Range(Tail(q)) \cup {Head(q)}
    BY TailIs, RangeOfTail

\* A fetch writes into the directory at the task's path, or nowhere.
LEMMA FetchWrites ==
    ASSUME TypeOK, Jobs, CloneFetch
    PROVE  /\ repos # <<>> /\ Head(repos) \in Task /\ Head(repos).step = "fetch"
           /\ disk' \in [Paths -> Dir \cup {None}]
           /\ \A p \in Paths : (disk'[p] = None) <=> (disk[p] = None)
           /\ \A p \in Paths : disk[p] # None => disk'[p].repo = disk[p].repo
           /\ \A p \in Paths \ {Head(repos).path} : disk'[p] = disk[p]
           /\ \/ Then("bad") /\ disk' = disk
              \/ /\ Then("head")
                 /\ disk[Head(repos).path] # None
                 /\ \E c \in Offer(Head(repos).from) :
                       c # None /\ disk'[Head(repos).path].got = c
<1> DEFINE t == Head(repos)
<1>1. /\ repos # <<>> /\ t.step = "fetch"
      /\ \E c \in Offer(t.from) :
            IF disk[t.path] # None /\ c # None
            THEN disk' = [disk EXCEPT ![t.path].got = c] /\ Then("head")
            ELSE UNCHANGED disk /\ Then("bad")
    BY DEF CloneFetch, Importing
<1>2. t \in Task
    BY <1>1, HeadLeaves DEF TypeOK
<1>3. t.path \in Paths /\ t.from \in {Remote} \cup Paths
    <2>1. t \in Range(repos)
        BY <1>1, HeadLeaves DEF TypeOK
    <2>2. t.step # "objects"
        BY <1>1
    <2> HIDE DEF t
    <2>3. t.job = "clone"
        BY <2>1, <2>2 DEF Jobs
    <2>4. t.from # None
        BY <2>1, <2>3 DEF Jobs
    <2> QED
        BY <1>2, <2>4 DEF Task, Sources
<1> HIDE DEF t
<1>4. PICK c \in Offer(t.from) :
            IF disk[t.path] # None /\ c # None
            THEN disk' = [disk EXCEPT ![t.path].got = c] /\ Then("head")
            ELSE UNCHANGED disk /\ Then("bad")
    BY <1>1
<1>5. CASE ~(disk[t.path] # None /\ c # None)
    BY <1>1, <1>2, <1>4, <1>5 DEF TypeOK, t
<1>6. CASE disk[t.path] # None /\ c # None
    <2>1. c \in Contents
        <3>1. CASE t.from = Remote
            BY <1>4, <1>6, <3>1 DEF Offer, Contents
        <3>2. CASE t.from # Remote
            <4>1. c = disk[t.from].repo /\ disk[t.from] # None
                BY <1>4, <1>6, <3>2 DEF Offer
            <4> QED
                BY <1>3, <3>2, <4>1 DEF TypeOK, Dir, Contents
        <3> QED
            BY <3>1, <3>2
    <2>2. disk[t.path] \in Dir
        BY <1>3, <1>6 DEF TypeOK
    <2> DEFINE d == [disk[t.path] EXCEPT !.got = c]
    <2>3. d \in Dir /\ d.got = c /\ d.repo = disk[t.path].repo
        BY <2>1, <2>2 DEF Dir
    <2>4. d # None
        BY <2>3, NoneAssumption
    <2>5. disk' = [disk EXCEPT ![t.path] = d] /\ Then("head")
        BY <1>4, <1>6
    <2> HIDE DEF d
    <2>6. /\ disk' \in [Paths -> Dir \cup {None}] /\ disk'[t.path] = d
          /\ \A q \in Paths \ {t.path} : disk'[q] = disk[q]
        BY <1>3, <2>3, <2>5 DEF TypeOK
    <2> QED
        BY <1>1, <1>2, <1>4, <1>6, <2>3, <2>4, <2>5, <2>6 DEF t
<1> QED
    BY <1>5, <1>6

\* The end of an import writes one column of one row, if the row is there.
LEMMA DoneWrites ==
    ASSUME TypeOK, CloneDone
    PROVE  /\ repos # <<>> /\ Head(repos) \in Task
           /\ Head(repos).step \in {"good", "bad"}
           /\ repos' = Tail(repos)
           /\ repo' \in [Ids -> Row \cup {None}]
           /\ \A i \in Ids : /\ Live(i)' <=> Live(i)
                             /\ Live(i) => /\ repo'[i].path = repo[i].path
                                           /\ repo'[i].vis = repo[i].vis
           /\ \A i \in Ids \ {Head(repos).id} : repo'[i] = repo[i]
           /\ Live(Head(repos).id) =>
                repo'[Head(repos).id].clone =
                    (IF Head(repos).step = "good" THEN "COMPLETE" ELSE "ERROR")
<1> DEFINE t == Head(repos)
           status == IF t.step = "good" THEN "COMPLETE" ELSE "ERROR"
<1>1. /\ repos # <<>> /\ t.step \in {"good", "bad"} /\ repos' = Tail(repos)
      /\ repo' = [repo EXCEPT ![t.id] =
                    IF @ = None THEN None ELSE [@ EXCEPT !.clone = status]]
    BY DEF CloneDone, Importing
<1>2. t \in Task
    BY <1>1, HeadLeaves DEF TypeOK
<1>3. t.id \in Ids
    BY <1>2 DEF Task
<1>4. status \in Status
    BY DEF Status
<1> HIDE DEF t, status
<1>5. CASE repo[t.id] = None
    <2>1. repo' = repo
        BY <1>1, <1>3, <1>5 DEF TypeOK
    <2> QED
        BY <1>1, <1>2, <1>5, <2>1 DEF TypeOK, Live, t
<1>6. CASE repo[t.id] # None
    <2> DEFINE row == [repo[t.id] EXCEPT !.clone = status]
    <2>1. repo[t.id] \in Row
        BY <1>3, <1>6 DEF TypeOK
    <2>2. /\ row \in Row /\ row.path = repo[t.id].path
          /\ row.vis = repo[t.id].vis /\ row.clone = status
        BY <1>4, <2>1 DEF Row
    <2>3. row # None
        BY <2>2, NoneAssumption
    <2>4. repo' = [repo EXCEPT ![t.id] = row]
        BY <1>1, <1>6
    <2> HIDE DEF row
    <2>5. /\ repo' \in [Ids -> Row \cup {None}] /\ repo'[t.id] = row
          /\ \A i \in Ids \ {t.id} : repo'[i] = repo[i]
        BY <1>3, <2>2, <2>4 DEF TypeOK
    <2>6. \A i \in Ids : /\ Live(i)' <=> Live(i)
                         /\ Live(i) => /\ repo'[i].path = repo[i].path
                                       /\ repo'[i].vis = repo[i].vis
        BY <1>6, <2>2, <2>3, <2>5 DEF Live
    <2> QED
        BY <1>1, <1>2, <2>2, <2>5, <2>6 DEF t, status
<1> QED
    BY <1>5, <1>6

Deletions == [user : Users, step : {"files", "rows"}]

\* What is left of the files of a user, it is told by littered.
LEMMA FilesGo ==
    ASSUME TypeOK, AccountFiles
    PROVE  LET u == Head(account).user IN
           /\ account # <<>> /\ u \in Users
           /\ account' \in Seq(Deletions) /\ Len(account') = Len(account)
           /\ account'[1] = [user |-> u, step |-> "rows"]
           /\ account[1] = [user |-> u, step |-> "files"]
           /\ DOMAIN account' = 1 .. Len(account)
           /\ \A n \in 2 .. Len(account) : account'[n] = account[n]
           /\ disk' \in [Paths -> Dir \cup {None}]
           /\ \A p \in Paths : /\ disk'[p] \in {None, disk[p]}
                               /\ p[1] # u => disk'[p] = disk[p]
           /\ littered \subseteq littered' /\ littered' \subseteq littered \cup {u}
           /\ u \notin littered' =>
                 \A p \in Paths : p[1] = u => disk'[p] = None
           /\ moved \subseteq moved' /\ moved' \subseteq Ids
           /\ changes' \in 0 .. Changes
<1> DEFINE u == Head(account).user
<1>1. PICK left \in SUBSET {p \in Paths : p[1] = u /\ disk[p] # None} :
         /\ disk' = [p \in Paths |-> IF p[1] = u /\ p \notin left THEN None
                                     ELSE disk[p]]
         /\ IF left = {} THEN UNCHANGED <<littered, moved, changes>>
            ELSE /\ Counted /\ littered' = littered \cup {u}
                 /\ moved' = moved \cup UNION {Strayed(i) : i \in Theirs(u)}
    BY DEF AccountFiles
<1>2. /\ account # <<>> /\ Head(account).step = "files"
      /\ account' = <<[user |-> u, step |-> "rows"]>> \o Tail(account)
      /\ account \in Seq(Deletions)
    BY DEF AccountFiles, TypeOK, Deletions
<1>3. Head(account) = account[1] /\ account[1] \in Deletions
    BY <1>2, TailIs
<1>4. u \in Users /\ account[1] = [user |-> u, step |-> "files"]
    BY <1>2, <1>3 DEF Deletions
<1>5. [user |-> u, step |-> "rows"] \in Deletions
    BY <1>4 DEF Deletions
<1> HIDE DEF u
<1>6. /\ account' \in Seq(Deletions) /\ Len(account') = Len(account)
      /\ account'[1] = [user |-> u, step |-> "rows"]
      /\ DOMAIN account' = 1 .. Len(account)
      /\ \A n \in 2 .. Len(account) : account'[n] = account[n]
    BY <1>2, <1>5, FirstIs
<1>7. /\ disk' \in [Paths -> Dir \cup {None}]
      /\ \A p \in Paths : /\ disk'[p] \in {None, disk[p]}
                          /\ p[1] # u => disk'[p] = disk[p]
      /\ left = {} => \A p \in Paths : p[1] = u => disk'[p] = None
    BY <1>1 DEF TypeOK
<1>8. /\ littered \subseteq littered' /\ littered' \subseteq littered \cup {u}
      /\ u \notin littered' => left = {}
    <2>1. CASE left = {}
        BY <1>1, <2>1
    <2>2. CASE left # {}
        BY <1>1, <2>2
    <2> QED
        BY <2>1, <2>2
<1>9. moved \subseteq moved' /\ moved' \subseteq Ids
    <2>1. UNION {Strayed(i) : i \in Theirs(u)} \subseteq Ids
        BY DEF Strayed, Theirs
    <2>2. CASE left = {}
        BY <1>1, <2>2 DEF TypeOK
    <2>3. CASE left # {}
        BY <1>1, <2>1, <2>3 DEF TypeOK
    <2> QED
        BY <2>2, <2>3
<1>10. changes' \in 0 .. Changes
    BY <1>1, NumbersAssumption DEF Counted, TypeOK
<1> QED
    BY <1>2, <1>4, <1>6, <1>7, <1>8, <1>9, <1>10 DEF u

LEMMA RowsGo ==
    ASSUME TypeOK, AccountRows
    PROVE  LET u == Head(account).user IN
           /\ account # <<>> /\ u \in Users
           /\ account[1] = [user |-> u, step |-> "rows"]
           /\ account' \in Seq(Deletions) /\ Len(account') = Len(account) - 1
           /\ DOMAIN account' = 1 .. Len(account) - 1
           /\ \A n \in 1 .. Len(account) - 1 : account'[n] = account[n + 1]
           /\ repo' \in [Ids -> Row \cup {None}]
           /\ \A i \in Ids : Live(i) /\ repo[i].path[1] = u => repo'[i] = None
           /\ \A i \in Ids :
                 ~(Live(i) /\ repo[i].path[1] = u) => repo'[i] = repo[i]
<1> DEFINE u == Head(account).user
<1>1. /\ account # <<>> /\ Head(account).step = "rows"
      /\ account' = Tail(account)
      /\ repo' = [i \in Ids |-> IF i \in Theirs(u) THEN None ELSE repo[i]]
    BY DEF AccountRows
<1>2. account \in Seq(Deletions)
    BY DEF TypeOK, Deletions
<1>3. Head(account) = account[1] /\ account[1] \in Deletions
    BY <1>1, <1>2, TailIs
<1>4. u \in Users /\ account[1] = [user |-> u, step |-> "rows"]
    BY <1>1, <1>3 DEF Deletions
<1>5. /\ account' \in Seq(Deletions) /\ Len(account') = Len(account) - 1
      /\ DOMAIN account' = 1 .. Len(account) - 1
      /\ \A n \in 1 .. Len(account) - 1 : account'[n] = account[n + 1]
    BY <1>1, <1>2, TailIs
<1>6. /\ repo' \in [Ids -> Row \cup {None}]
      /\ \A i \in Ids : Live(i) /\ repo[i].path[1] = u => repo'[i] = None
      /\ \A i \in Ids : ~(Live(i) /\ repo[i].path[1] = u) => repo'[i] = repo[i]
    BY <1>1 DEF TypeOK, Theirs
<1> QED
    BY <1>1, <1>4, <1>5, <1>6

\* What is counted stays within its bound.
LEMMA CountedTypes ==
    ASSUME TypeOK, Counted
    PROVE  changes' \in 0 .. Changes
    BY NumbersAssumption DEF Counted, TypeOK

LEMMA IndexWrites ==
    ASSUME TypeOK, IndexRun
    PROVE  LET t == Head(search) IN
           /\ search # <<>> /\ t \in Task /\ t.job = "index"
           /\ search' = Tail(search)
           /\ index' \in [Ids -> Shards \cup {None}]
           /\ \A i \in Ids \ {t.id} : index'[i] = index[i]
           /\ disk[t.path] # None /\ t.id \notin off' =>
                index'[t.id] = [path |-> t.path, vis |-> t.vis,
                                of |-> disk[t.path].repo]
           /\ off \subseteq off' /\ off' \subseteq Ids
           /\ changes' \in 0 .. Changes
<1> DEFINE t == Head(search)
           shards == [path |-> t.path, vis |-> t.vis, of |-> disk[t.path].repo]
<1>1. /\ search # <<>> /\ t.job = "index" /\ search' = Tail(search)
      /\ \/ disk[t.path] = None /\ UNCHANGED <<index, off, changes>>
         \/ /\ disk[t.path] # None
            /\ index' = [index EXCEPT ![t.id] = shards]
            /\ UNCHANGED <<off, changes>>
         \/ UNCHANGED index /\ off' = off \cup {t.id} /\ Counted
    BY DEF IndexRun, Searching, Searched, IndexKept
<1>2. t \in Task
    BY <1>1, HeadLeaves DEF TypeOK
<1>3. t.id \in Ids /\ t.path \in Paths /\ t.vis \in Visibility
    BY <1>2 DEF Task
<1> HIDE DEF t
<1>4. CASE UNCHANGED <<index, off, changes>> /\ disk[t.path] = None
    BY <1>1, <1>2, <1>4 DEF TypeOK, t
<1>5. CASE /\ disk[t.path] # None /\ index' = [index EXCEPT ![t.id] = shards]
           /\ UNCHANGED <<off, changes>>
    <2>1. disk[t.path] \in Dir
        BY <1>3, <1>5 DEF TypeOK
    <2>2. shards \in Shards
        BY <1>3, <2>1 DEF Shards, Dir
    <2> HIDE DEF shards
    <2>3. /\ index' \in [Ids -> Shards \cup {None}] /\ index'[t.id] = shards
          /\ \A i \in Ids \ {t.id} : index'[i] = index[i]
        BY <1>3, <1>5, <2>2 DEF TypeOK
    <2>4. off' = off /\ off \subseteq Ids /\ changes' \in 0 .. Changes
        BY <1>5 DEF TypeOK
    <2> QED
        BY <1>1, <1>2, <2>3, <2>4 DEF t, shards
<1>6. CASE UNCHANGED index /\ off' = off \cup {t.id} /\ Counted
    <2>1. index' \in [Ids -> Shards \cup {None}] /\ off' \subseteq Ids
        BY <1>3, <1>6 DEF TypeOK
    <2> QED
        BY <1>1, <1>2, <1>6, <2>1, CountedTypes DEF t
<1> QED
    BY <1>1, <1>4, <1>5, <1>6

LEMMA PurgeWrites ==
    ASSUME TypeOK, PurgeRun
    PROVE  LET t == Head(search) IN
           /\ search # <<>> /\ t \in Task /\ t.job = "purge"
           /\ search' = Tail(search)
           /\ index' \in [Ids -> Shards \cup {None}]
           /\ \A i \in Ids \ {t.id} : index'[i] = index[i]
           /\ t.id \notin off' => index'[t.id] = None
           /\ off \subseteq off' /\ off' \subseteq Ids
           /\ changes' \in 0 .. Changes
<1> DEFINE t == Head(search)
<1>1. /\ search # <<>> /\ t.job = "purge" /\ search' = Tail(search)
      /\ \/ index' = [index EXCEPT ![t.id] = None] /\ UNCHANGED <<off, changes>>
         \/ UNCHANGED index /\ off' = off \cup {t.id} /\ Counted
    BY DEF PurgeRun, Searching, Searched, IndexKept
<1>2. t \in Task
    BY <1>1, HeadLeaves DEF TypeOK
<1>3. t.id \in Ids
    BY <1>2 DEF Task
<1> HIDE DEF t
<1>4. CASE index' = [index EXCEPT ![t.id] = None] /\ UNCHANGED <<off, changes>>
    <2>1. /\ index' \in [Ids -> Shards \cup {None}] /\ index'[t.id] = None
          /\ \A i \in Ids \ {t.id} : index'[i] = index[i]
        BY <1>3, <1>4 DEF TypeOK
    <2>2. off' = off /\ off \subseteq Ids /\ changes' \in 0 .. Changes
        BY <1>4 DEF TypeOK
    <2> QED
        BY <1>1, <1>2, <2>1, <2>2 DEF t
<1>5. CASE UNCHANGED index /\ off' = off \cup {t.id} /\ Counted
    <2>1. index' \in [Ids -> Shards \cup {None}] /\ off' \subseteq Ids
        BY <1>3, <1>5 DEF TypeOK
    <2> QED
        BY <1>1, <1>2, <1>5, <2>1, CountedTypes DEF t
<1> QED
    BY <1>1, <1>4, <1>5

-----------------------------------------------------------------------------
(* Types.                                                                   *)

LEMMA StrayedAreIds ==
    ASSUME NEW i \in Ids, NEW p
    PROVE  Strayed(i) \subseteq Ids /\ Disturbed(i, p) \subseteq Ids
    BY DEF Strayed, Disturbed

LEMMA RequestTypes ==
    ASSUME TypeOK, Request
    PROVE  TypeOK'
<1>1. ASSUME NEW i \in Ids, NEW p \in Paths, NEW v \in Visibility,
             NEW from \in Sources, CreateRepository(i, p, v, from)
      PROVE  TypeOK'
    <2>1. /\ UNCHANGED <<index, user, queues, changes, off, lost, littered, stranded>>
          /\ late' = IF Leaving(p[1]) THEN late \cup {p[1]} ELSE late
        BY <1>1 DEF CreateRepository
    <2>2. moved' = moved \cup Disturbed(i, p)
                        \cup (IF wanted'[i] \in stranded THEN {i} ELSE {})
        BY <1>1, CreateMoves
    <2>3. moved' \subseteq moved \cup Disturbed(i, p) \cup {i}
        BY <2>2
    <2>4. moved' \subseteq Ids /\ late' \subseteq Users
        BY <2>1, <2>3, StrayedAreIds, PathsHaveUsers DEF TypeOK
    <2>5. repo' \in [Ids -> Row \cup {None}] /\ used' = used \cup {i}
        BY <1>1, CreateRow
    <2>6. disk' \in [Paths -> Dir \cup {None}]
        BY <1>1, CreateDirectory
    <2>7. due' \in Seq(Task) /\ wanted' \in [Ids -> Contents]
        BY <1>1, CreateQueues
    <2>8. used' \subseteq Ids
        BY <2>5 DEF TypeOK
    <2> QED
        BY <2>1, <2>4, <2>5, <2>6, <2>7, <2>8 DEF TypeOK, queues
<1>2. ASSUME Change PROVE changes' \in 0 .. Changes
    BY <1>2, CountedTypes DEF Change
<1>3. ASSUME NEW i \in Ids, NEW p \in Paths, NEW v \in Visibility,
             UpdateRepository(i, p, v)
      PROVE  TypeOK'
    <2>1. /\ Change /\ UNCHANGED <<repos, off, stranded>>
          /\ moved' = moved \cup (IF p = repo[i].path THEN {}
                                  ELSE Strayed(i) \cup Disturbed(i, p))
        BY <1>3 DEF UpdateRepository
    <2>2. moved' \subseteq Ids
        BY <2>1, StrayedAreIds DEF TypeOK
    <2>3. /\ repo' \in [Ids -> Row \cup {None}]
          /\ disk' \in [Paths -> Dir \cup {None}]
        BY <1>3, UpdateTables
    <2>4. due' \in Seq(Task)
        BY <1>3, UpdateQueues
    <2> QED
        BY <1>2, <2>1, <2>2, <2>3, <2>4 DEF TypeOK, Change
<1>4. ASSUME NEW i \in Ids, DeleteRepository(i)
      PROVE  TypeOK'
    <2>1. /\ Change /\ moved' = moved \cup Strayed(i)
          /\ Live(i) /\ DeleteArtifacts(i) /\ UNCHANGED <<off, stranded>>
        BY <1>4 DEF DeleteRepository
    <2>4. repos' \in Seq(Task) /\ Len(repos') <= Room
        BY <2>1, ObjectsQueued
    <2>2. moved' \subseteq Ids
        BY <2>1, StrayedAreIds DEF TypeOK
    <2>3. /\ repo' \in [Ids -> Row \cup {None}]
          /\ disk' \in [Paths -> Dir \cup {None}]
          /\ due' \in Seq(Task)
        BY <1>4, DeleteTables
    <2> QED
        BY <1>2, <2>1, <2>2, <2>3, <2>4 DEF TypeOK, Change
<1>5. ASSUME NEW i \in Ids, DeliverGitEvent(i)
      PROVE  TypeOK'
    <2>1. Change /\ UNCHANGED <<repo, disk, repos, off, moved, stranded>>
        BY <1>5 DEF DeliverGitEvent
    <2>2. due' \in Seq(Task)
        BY <1>5, EventQueues
    <2> QED
        BY <1>2, <2>1, <2>2 DEF TypeOK, Change
<1>6. ASSUME NEW u \in Users, DeleteUser(u)
      PROVE  TypeOK'
    <2>1. /\ Len(account) < Room /\ Counted
          /\ account' = Append(account, [user |-> u, step |-> "files"])
          /\ UNCHANGED <<tables, disk, index, due, repos, search, history>>
        BY <1>6 DEF DeleteUser
    <2>2. [user |-> u, step |-> "files"] \in Deletions
        BY DEF Deletions
    <2>3. account \in Seq(Deletions)
        BY DEF TypeOK, Deletions
    <2>4. account' \in Seq(Deletions) /\ Len(account') = Len(account) + 1
        BY <2>1, <2>2, <2>3, AppendIs
    <2>5. Len(account') <= Room /\ changes' \in 0 .. Changes
        BY <2>1, <2>3, <2>4, NumbersAssumption, CountedTypes
    <2> QED
        BY <2>1, <2>4, <2>5 DEF TypeOK, Deletions, tables, history
<1>7. ASSUME NEW i \in Ids, NEW p \in Paths \cup {None}, Strand(i, p)
      PROVE  TypeOK'
    <2>1. /\ disk' \in [Paths -> Dir \cup {None}]
          /\ repos' \in Seq(Task) /\ Len(repos') <= Room
          /\ stranded' = stranded \cup {i} \cup At(p)
          /\ off' = off \cup {i} \cup At(p) /\ moved' \subseteq Ids
          /\ UNCHANGED <<repo, used, user, index, due, search, account, lost,
                         wanted, late, littered>>
          /\ Counted
        BY <1>7, StrandWrites
    <2>2. stranded' \subseteq Ids /\ off' \subseteq Ids
        BY <2>1 DEF TypeOK, At
    <2> QED
        BY <2>1, <2>2, CountedTypes DEF TypeOK
<1> QED
    BY <1>1, <1>3, <1>4, <1>5, <1>6, <1>7 DEF Request

LEMMA EnqueueTypes ==
    ASSUME TypeOK, Enqueue
    PROVE  TypeOK'
<1>1. ASSUME NEW n \in DOMAIN due, Clone(n)
      PROVE  TypeOK'
    <2>1. /\ Len(repos) < Room /\ repos' = Append(repos, due[n])
          /\ due' = RemoveAt(due, n)
          /\ UNCHANGED <<tables, disk, index, search, account, changes, history>>
        BY <1>1 DEF Clone
    <2>2. due[n] \in Task /\ due' \in Seq(Task) /\ repos \in Seq(Task)
        BY <2>1, DueLosesOne DEF TypeOK
    <2>3. repos' \in Seq(Task) /\ Len(repos') = Len(repos) + 1
        BY <2>1, <2>2, AppendIs
    <2>4. Len(repos') <= Room
        BY <2>1, <2>2, <2>3, NumbersAssumption
    <2> QED
        BY <2>1, <2>2, <2>3, <2>4 DEF TypeOK, tables, history
<1>2. ASSUME NEW n \in DOMAIN due, Index(n) \/ Delete(n)
      PROVE  TypeOK'
    <2>1. /\ due' = RemoveAt(due, n)
          /\ \/ Len(search) < Room /\ search' = Append(search, due[n])
             \/ search' = search
          /\ off' \subseteq off \cup {due[n].id}
          /\ UNCHANGED <<tables, disk, index, repos, account, changes, lost,
                         moved, wanted, late, littered, stranded>>
        BY <1>2 DEF Index, Delete
    <2>2. due[n] \in Task /\ due' \in Seq(Task) /\ search \in Seq(Task)
        BY <2>1, DueLosesOne DEF TypeOK
    <2>3. off' \subseteq Ids
        BY <2>1, <2>2 DEF TypeOK, Task
    <2>4. search' \in Seq(Task) /\ Len(search') <= Room
        <3>1. CASE Len(search) < Room /\ search' = Append(search, due[n])
            <4>1. search' \in Seq(Task) /\ Len(search') = Len(search) + 1
                BY <2>2, <3>1, AppendIs
            <4> QED
                BY <2>2, <3>1, <4>1, NumbersAssumption
        <3>2. CASE search' = search
            BY <3>2 DEF TypeOK
        <3> QED
            BY <2>1, <3>1, <3>2
    <2> QED
        BY <2>1, <2>2, <2>3, <2>4 DEF TypeOK, tables
<1> QED
    BY <1>1, <1>2 DEF Enqueue

LEMMA CloneTypes ==
    ASSUME TypeOK, Jobs, CloneStep
    PROVE  TypeOK'
<1>1. CASE CloneAsk
    <2>1. /\ repos # <<>> /\ UNCHANGED disk /\ Cloning
          /\ \E step \in {"fetch", "bad"} : Then(step)
        BY <1>1 DEF CloneAsk, Importing
    <2>2. repos' \in Seq(Task) /\ Len(repos') = Len(repos)
        BY <2>1, ThenGoesOn
    <2> QED
        BY <2>1, <2>2 DEF TypeOK, Cloning, tables, history
<1>2. CASE CloneFetch
    <2>1. Cloning
        BY <1>2 DEF CloneFetch
    <2>2. /\ repos # <<>> /\ disk' \in [Paths -> Dir \cup {None}]
          /\ \E step \in {"head", "bad"} : Then(step)
        BY <1>2, FetchWrites
    <2>3. repos' \in Seq(Task) /\ Len(repos') = Len(repos)
        BY <2>2, ThenGoesOn
    <2> QED
        BY <2>1, <2>2, <2>3 DEF TypeOK, Cloning, tables, history
<1>3. CASE CloneHead
    <2>1. /\ repos # <<>> /\ UNCHANGED disk /\ Cloning
          /\ \E step \in {"good", "bad"} : Then(step)
        BY <1>3 DEF CloneHead, Importing
    <2>2. repos' \in Seq(Task) /\ Len(repos') = Len(repos)
        BY <2>1, ThenGoesOn
    <2> QED
        BY <2>1, <2>2 DEF TypeOK, Cloning, tables, history
<1>4. ASSUME repos # <<>>, repos' = Tail(repos)
      PROVE  repos' \in Seq(Task) /\ Len(repos') <= Room
    <2>1. /\ repos \in Seq(Task) /\ repos' \in Seq(Task)
          /\ Len(repos') = Len(repos) - 1
        BY <1>4, TailIs DEF TypeOK
    <2> QED
        BY <2>1, NumbersAssumption DEF TypeOK
<1>5. CASE CloneDone
    <2>1. UNCHANGED <<used, user, disk, index, due, search, account, changes,
                      history>>
        BY <1>5 DEF CloneDone
    <2>2. /\ repos # <<>> /\ repos' = Tail(repos)
          /\ repo' \in [Ids -> Row \cup {None}]
        BY <1>5, DoneWrites
    <2> QED
        BY <1>4, <2>1, <2>2 DEF TypeOK, history
<1>6. CASE ClonePanics
    <2>1. /\ repos # <<>> /\ repos' = Tail(repos)
          /\ lost' = lost \cup {Head(repos).id} /\ Counted
          /\ UNCHANGED <<tables, disk, index, due, search, account, off, moved,
                         wanted, late, littered, stranded>>
        BY <1>6 DEF ClonePanics, Importing
    <2>2. Head(repos).id \in Ids
        BY <2>1, HeadLeaves DEF TypeOK, Task
    <2>3. lost' \subseteq Ids \cup Users
        BY <2>1, <2>2 DEF TypeOK
    <2> QED
        BY <1>4, <2>1, <2>3, CountedTypes DEF TypeOK, tables
<1>7. CASE ObjectsGo
    <2>1. repos # <<>> /\ repos' = Tail(repos) /\ UNCHANGED disk /\ Cloning
        BY <1>7 DEF ObjectsGo, Importing
    <2> QED
        BY <1>4, <2>1 DEF TypeOK, Cloning, tables, history
<1> QED
    BY <1>1, <1>2, <1>3, <1>5, <1>6, <1>7 DEF CloneStep

\* A deletion is done with.
LEMMA DeletionLeaves ==
    ASSUME TypeOK, account # <<>>, account' = Tail(account)
    PROVE  /\ account' \in Seq(Deletions) /\ Len(account') <= Room
           /\ Head(account) = account[1] /\ Head(account).user \in Users
<1>1. account \in Seq(Deletions)
    BY DEF TypeOK, Deletions
<1>2. /\ account' \in Seq(Deletions) /\ Len(account') = Len(account) - 1
      /\ Head(account) = account[1] /\ account[1] \in Deletions
      /\ Len(account) \in Nat
    BY <1>1, TailIs
<1>3. Len(account') <= Room
    BY <1>2, NumbersAssumption DEF TypeOK
<1> QED
    BY <1>2, <1>3 DEF Deletions

LEMMA WorkerTypes ==
    ASSUME TypeOK, IndexRun \/ PurgeRun \/ AccountStep
    PROVE  TypeOK'
<1>1. CASE IndexRun \/ PurgeRun
    <2>1. UNCHANGED <<tables, disk, due, repos, account, lost, moved, wanted, late,
                      littered, stranded>>
        BY <1>1 DEF IndexRun, PurgeRun, Searched
    <2>2. /\ search # <<>> /\ search' = Tail(search)
          /\ index' \in [Ids -> Shards \cup {None}]
          /\ off' \subseteq Ids /\ changes' \in 0 .. Changes
        BY <1>1, IndexWrites, PurgeWrites
    <2>3. /\ search \in Seq(Task) /\ search' \in Seq(Task)
          /\ Len(search') = Len(search) - 1
        BY <2>2, TailIs DEF TypeOK
    <2>4. Len(search') <= Room
        BY <2>3, NumbersAssumption DEF TypeOK
    <2> QED
        BY <2>1, <2>2, <2>3, <2>4 DEF TypeOK, tables
<1>2. CASE AccountFiles
    <2> DEFINE u == Head(account).user
    <2>1. /\ off' = off \cup Theirs(u)
          /\ UNCHANGED <<tables, index, due, repos, search, lost, wanted, late,
                         stranded>>
        BY <1>2 DEF AccountFiles
    <2>2. /\ account' \in Seq(Deletions) /\ Len(account') = Len(account)
          /\ disk' \in [Paths -> Dir \cup {None}]
          /\ u \in Users /\ littered' \subseteq littered \cup {u}
          /\ moved' \subseteq Ids /\ changes' \in 0 .. Changes
        BY <1>2, FilesGo
    <2>3. off' \subseteq Ids /\ littered' \subseteq Users
        BY <2>1, <2>2 DEF TypeOK, Theirs
    <2> QED
        BY <2>1, <2>2, <2>3 DEF TypeOK, Deletions, tables
<1>3. CASE AccountRows
    <2> DEFINE u == Head(account).user
    <2>1. /\ account # <<>> /\ account' = Tail(account)
          /\ user' = user \ {u} /\ off' = off \cup Theirs(u)
          /\ moved' = moved \cup UNION {Strayed(i) : i \in Theirs(u)}
          /\ UNCHANGED <<used, disk, index, due, repos, search, changes, lost,
                         wanted, late, littered, stranded>>
        BY <1>3 DEF AccountRows
    <2>2. account' \in Seq(Deletions) /\ Len(account') <= Room
        BY <2>1, DeletionLeaves
    <2>3. repo' \in [Ids -> Row \cup {None}]
        BY <1>3, RowsGo
    <2>4. moved' \subseteq Ids
        BY <2>1 DEF TypeOK, Strayed, Theirs
    <2>5. off' \subseteq Ids /\ user' \subseteq Users
        BY <2>1 DEF TypeOK, Theirs
    <2> HIDE DEF u
    <2> QED
        BY <2>1, <2>2, <2>3, <2>4, <2>5 DEF TypeOK, Deletions
<1>4. CASE AccountFails
    <2>1. /\ account # <<>> /\ account' = Tail(account) /\ Counted
          /\ UNCHANGED <<tables, disk, index, due, repos, search, history>>
        BY <1>4 DEF AccountFails
    <2> QED
        BY <2>1, DeletionLeaves, CountedTypes DEF TypeOK, Deletions, tables, history
<1>5. CASE AccountRowsFail
    <2>1. /\ account # <<>> /\ account' = Tail(account) /\ Counted
          /\ lost' = lost \cup {Head(account).user}
          /\ UNCHANGED <<tables, disk, index, due, repos, search, off, moved,
                         wanted, late, littered, stranded>>
        BY <1>5 DEF AccountRowsFail
    <2>2. lost' \subseteq Ids \cup Users
        BY <2>1, DeletionLeaves DEF TypeOK
    <2> QED
        BY <2>1, <2>2, DeletionLeaves, CountedTypes DEF TypeOK, Deletions, tables
<1> QED
    BY <1>1, <1>2, <1>3, <1>4, <1>5 DEF AccountStep

LEMMA CrashTypes ==
    ASSUME TypeOK, Crash
    PROVE  TypeOK'
<1>1. /\ Counted
      /\ due' = <<>> /\ repos' = <<>> /\ search' = <<>> /\ account' = <<>>
      /\ UNCHANGED <<tables, disk, index, moved, wanted, late, littered, stranded>>
    BY DEF Crash
<1> DEFINE tasks == Range(due) \cup Range(repos) \cup Range(search)
<1>2. \A t \in tasks : t.id \in Ids
    <2>1. \A t \in tasks : t \in Task
        BY RangeIn DEF TypeOK
    <2> QED
        BY <2>1 DEF Task
<1>3. \A a \in Range(account) : a.user \in Users
    <2>1. account \in Seq(Deletions)
        BY DEF TypeOK, Deletions
    <2>2. \A a \in Range(account) : a \in Deletions
        BY <2>1, RangeIn
    <2> QED
        BY <2>2 DEF Deletions
<1>4. /\ off' = off \cup {t.id : t \in {s \in tasks : s.job \in {"index", "purge"}}}
      /\ lost' = lost \cup {t.id : t \in {s \in tasks : s.job \in {"clone"}}}
                      \cup {a.user : a \in Range(account)}
    BY DEF Crash
<1>5. off' \subseteq Ids
    BY <1>2, <1>4 DEF TypeOK
<1>6. lost' \subseteq Ids \cup Users
    BY <1>2, <1>3, <1>4 DEF TypeOK
<1>7. changes' \in 0 .. Changes
    BY <1>1, CountedTypes
<1>8. \A S : <<>> \in Seq(S)
    OBVIOUS
<1>9. Len(<<>>) <= Room
    BY NumbersAssumption
<1> QED
    BY <1>1, <1>5, <1>6, <1>7, <1>8, <1>9 DEF TypeOK, tables

LEMMA TypesKeep ==
    ASSUME TypeOK, Jobs, [Next]_vars
    PROVE  TypeOK'
<1>1. CASE UNCHANGED vars
    BY <1>1 DEF TypeOK, vars, tables, queues, history
<1> QED
    BY <1>1, RequestTypes, EnqueueTypes, CloneTypes, WorkerTypes, CrashTypes
       DEF Next, Worker

-----------------------------------------------------------------------------
(* Rows, directories and deletions.                                         *)

PathsUnique ==
    \A i, j \in Ids : Live(i) /\ Live(j) /\ repo[i].path = repo[j].path => i = j

\* No repository is at a path where another's directory is, but those whose
\* directory a failed mutation took away.
OwnDisk ==
    \A i \in Ids \ stranded : Live(i) /\ disk[repo[i].path] # None
                   => disk[repo[i].path].repo = i

\* The files of a user whose row is about to go are gone, if all could be removed.
FilesGone ==
    \A u \in Users : Leaving(u) /\ u \notin late \cup littered =>
        \A p \in Paths : p[1] = u => disk[p] = None

DiskInv ==
    /\ PathsUnique /\ OwnDisk /\ FilesGone
    /\ DeletedUserLeavesNothing /\ RowsHaveFiles

\* A step that leaves rows where they are and directories what they are.
LEMMA NothingMoves ==
    ASSUME TypeOK, DiskInv,
           \A i \in Ids : /\ Live(i)' <=> Live(i)
                          /\ Live(i) => repo'[i].path = repo[i].path,
           \A p \in Paths : /\ (disk'[p] = None) <=> (disk[p] = None)
                            /\ disk[p] # None => disk'[p].repo = disk[p].repo,
           \A u \in Users : /\ Leaving(u)' => Leaving(u)
                            /\ Leaving(u) => Leaving(u)' \/ u \in lost',
           UNCHANGED <<user, late, littered, stranded>>, lost \subseteq lost'
    PROVE  DiskInv'
<1>1. \A i \in Ids : Live(i) => repo[i].path \in Paths /\ repo[i].path[1] \in Users
    BY PathsHaveUsers DEF TypeOK, Live, Row
<1>2. PathsUnique'
    BY DEF DiskInv, PathsUnique
<1>3. OwnDisk'
    BY <1>1 DEF DiskInv, OwnDisk
<1>4. FilesGone'
    BY DEF DiskInv, FilesGone
<1>5. DeletedUserLeavesNothing'
    BY DEF DiskInv, DeletedUserLeavesNothing
<1>6. RowsHaveFiles'
    BY <1>1 DEF DiskInv, RowsHaveFiles
<1> QED
    BY <1>2, <1>3, <1>4, <1>5, <1>6 DEF DiskInv

LEMMA LeavingSame ==
    ASSUME UNCHANGED account
    PROVE  \A u \in Users : Leaving(u)' <=> Leaving(u)
    BY DEF Leaving

LEMMA CreateKeepsDisk ==
    ASSUME TypeOK, DiskInv,
           NEW i \in Ids, NEW p \in Paths, NEW v \in Visibility,
           NEW from \in Sources, CreateRepository(i, p, v, from)
    PROVE  DiskInv'
<1>0. /\ \A j \in Ids : Live(j) => repo[j].path # p
      /\ disk'[p] # None /\ disk'[p].repo = i
      /\ \A q \in Paths \ {p} : disk'[q] = disk[q]
    BY CreateDirectory
<1>1. /\ UNCHANGED <<user, account, lost, littered, stranded>>
      /\ late' = IF Leaving(p[1]) THEN late \cup {p[1]} ELSE late
    BY DEF CreateRepository, queues
<1>2. /\ Live(i)' /\ repo'[i].path = p /\ p[1] \in user
      /\ \A j \in Ids \ {i} : repo'[j] = repo[j]
    BY CreateRow
<1>3. \A j \in Ids \ {i} : /\ Live(j)' <=> Live(j)
                           /\ Live(j) => /\ repo[j].path \in Paths \ {p}
                                         /\ repo[j].path[1] \in Users
    BY <1>0, <1>2, PathsHaveUsers DEF TypeOK, Live, Row
<1>4. \A u \in Users : Leaving(u)' <=> Leaving(u)
    BY <1>1, LeavingSame
<1>5. PathsUnique'
    BY <1>0, <1>2, <1>3 DEF DiskInv, PathsUnique
<1>6. OwnDisk'
    BY <1>0, <1>1, <1>2, <1>3 DEF DiskInv, OwnDisk
<1>7. FilesGone'
    BY <1>1, <1>0, <1>2, <1>4 DEF DiskInv, FilesGone
<1>8. DeletedUserLeavesNothing'
    BY <1>1, <1>0, <1>2 DEF DiskInv, DeletedUserLeavesNothing
<1>9. RowsHaveFiles'
    BY <1>1, <1>0, <1>2, <1>3, <1>4 DEF DiskInv, RowsHaveFiles
<1> QED
    BY <1>5, <1>6, <1>7, <1>8, <1>9 DEF DiskInv

LEMMA UpdateKeepsDisk ==
    ASSUME TypeOK, DiskInv,
           NEW i \in Ids, NEW p \in Paths, NEW v \in Visibility,
           UpdateRepository(i, p, v)
    PROVE  DiskInv'
<1> DEFINE q == repo[i].path
<1>1. UNCHANGED <<user, account, lost, late, littered, stranded>>
    BY DEF UpdateRepository, Change
<1>2. /\ Live(i) /\ q \in Paths /\ p[1] = q[1]
      /\ p # q => \A j \in Ids : Live(j) => repo[j].path # p
      /\ Live(i)' /\ repo'[i].path = p
      /\ \A j \in Ids \ {i} : repo'[j] = repo[j]
      /\ disk'[p] = disk[q]
      /\ p # q => disk'[q] = None
      /\ \A r \in Paths \ {p, q} : disk'[r] = disk[r]
    BY UpdateTables
<1> HIDE DEF q
<1>3. \A j \in Ids \ {i} : /\ Live(j)' <=> Live(j)
                           /\ Live(j) => /\ repo[j].path \in Paths \ {p, q}
                                         /\ repo[j].path[1] \in Users
    BY <1>2, PathsHaveUsers DEF TypeOK, Live, Row, DiskInv, PathsUnique, q
<1>4. \A u \in Users : Leaving(u)' <=> Leaving(u)
    BY <1>1, LeavingSame
<1>5. PathsUnique'
    BY <1>2, <1>3 DEF DiskInv, PathsUnique
<1>6. OwnDisk'
    BY <1>1, <1>2, <1>3 DEF DiskInv, OwnDisk, q
<1>7. \A r \in Paths : disk[r] = None /\ disk[q] = None => disk'[r] = None
    BY <1>2
<1>8. \A r \in Paths \ {p, q} : disk'[r] = disk[r]
    BY <1>2
<1>9. FilesGone'
    <2> SUFFICES ASSUME NEW u \in Users, Leaving(u), u \notin late \cup littered,
                        NEW r \in Paths, r[1] = u
                 PROVE  disk'[r] = None
        BY <1>1, <1>4 DEF FilesGone
    <2>1. \A s \in Paths : s[1] = u => disk[s] = None
        BY DEF DiskInv, FilesGone
    <2> QED
        BY <1>2, <2>1
<1>10. DeletedUserLeavesNothing'
    <2> SUFFICES ASSUME NEW r \in Paths, r[1] \notin user \cup late \cup littered
                 PROVE  disk'[r] = None
        BY <1>1 DEF DeletedUserLeavesNothing
    <2>1. \A s \in Paths : s[1] = r[1] => disk[s] = None
        BY DEF DiskInv, DeletedUserLeavesNothing
    <2> QED
        BY <1>2, <2>1
<1>11. RowsHaveFiles'
    <2>1. i \notin stranded => \/ disk[q] # None /\ disk[q].repo = i
                             \/ Leaving(q[1]) \/ q[1] \in lost
        BY <1>2 DEF DiskInv, RowsHaveFiles, q
    <2> QED
        BY <1>1, <1>2, <1>3, <1>4, <2>1, PathsHaveUsers DEF DiskInv, RowsHaveFiles
<1> QED
    BY <1>5, <1>6, <1>9, <1>10, <1>11 DEF DiskInv

LEMMA DeleteKeepsDisk ==
    ASSUME TypeOK, DiskInv, NEW i \in Ids, DeleteRepository(i)
    PROVE  DiskInv'
<1> DEFINE q == repo[i].path
<1>1. UNCHANGED <<user, account, lost, late, littered, stranded>>
    BY DEF DeleteRepository, Change
<1>2. /\ Live(i) /\ q \in Paths /\ ~Live(i)'
      /\ \A j \in Ids \ {i} : repo'[j] = repo[j]
      /\ disk'[q] = None
      /\ \A r \in Paths \ {q} : disk'[r] = disk[r]
    BY DeleteTables DEF Live
<1> HIDE DEF q
<1>3. \A j \in Ids \ {i} : /\ Live(j)' <=> Live(j)
                           /\ Live(j) => /\ repo[j].path \in Paths \ {q}
                                         /\ repo[j].path[1] \in Users
    BY <1>2, PathsHaveUsers DEF TypeOK, Live, Row, DiskInv, PathsUnique, q
<1>4. \A u \in Users : Leaving(u)' <=> Leaving(u)
    BY <1>1, LeavingSame
<1>5. PathsUnique'
    BY <1>2, <1>3 DEF DiskInv, PathsUnique
<1>6. OwnDisk'
    BY <1>1, <1>2, <1>3 DEF DiskInv, OwnDisk
<1>7. FilesGone'
    BY <1>1, <1>2, <1>4 DEF DiskInv, FilesGone
<1>8. DeletedUserLeavesNothing'
    BY <1>1, <1>2 DEF DiskInv, DeletedUserLeavesNothing
<1>9. RowsHaveFiles'
    BY <1>1, <1>2, <1>3, <1>4 DEF DiskInv, RowsHaveFiles
<1> QED
    BY <1>5, <1>6, <1>7, <1>8, <1>9 DEF DiskInv

LEMMA StrandKeepsDisk ==
    ASSUME TypeOK, DiskInv, NEW i \in Ids, NEW p \in Paths \cup {None}, Strand(i, p)
    PROVE  DiskInv'
<1> DEFINE q == repo[i].path
<1>1. /\ UNCHANGED <<repo, user, account, lost, late, littered>>
      /\ stranded' = stranded \cup {i} \cup At(p)
    BY StrandWrites
<1>2. /\ Live(i) /\ q \in Paths /\ disk'[q] = None
      /\ \A r \in Paths \ {p, q} : disk'[r] = disk[r]
      /\ p \in Paths => p[1] = q[1] /\ disk'[p] = disk[q]
    BY StrandWrites
<1> HIDE DEF q
<1>3. \A j \in Ids \ stranded' :
         /\ j \notin stranded /\ (Live(j)' <=> Live(j))
         /\ Live(j) => /\ repo[j].path \in Paths \ {p, q}
                       /\ repo[j].path[1] \in Users
    BY <1>1, <1>2, PathsHaveUsers
       DEF TypeOK, Live, Row, At, DiskInv, PathsUnique, q
<1>4. \A u \in Users : Leaving(u)' <=> Leaving(u)
    BY <1>1, LeavingSame
<1>5. PathsUnique'
    BY <1>1 DEF DiskInv, PathsUnique, Live
<1>6. OwnDisk'
    BY <1>1, <1>2, <1>3 DEF DiskInv, OwnDisk
<1>7. ASSUME NEW u, \A r \in Paths : r[1] = u => disk[r] = None
      PROVE  \A r \in Paths : r[1] = u => disk'[r] = None
    BY <1>2, <1>7
<1>8. FilesGone'
    BY <1>1, <1>4, <1>7 DEF DiskInv, FilesGone
<1>9. DeletedUserLeavesNothing'
    <2> SUFFICES ASSUME NEW r \in Paths, r[1] \notin user \cup late \cup littered
                 PROVE  disk'[r] = None
        BY <1>1 DEF DeletedUserLeavesNothing
    <2>1. \A d \in Paths : d[1] = r[1] => disk[d] = None
        BY DEF DiskInv, DeletedUserLeavesNothing
    <2> QED
        BY <1>7, <2>1
<1>10. RowsHaveFiles'
    BY <1>1, <1>2, <1>3, <1>4 DEF DiskInv, RowsHaveFiles
<1> QED
    BY <1>5, <1>6, <1>8, <1>9, <1>10 DEF DiskInv

LEMMA FilesKeepDisk ==
    ASSUME TypeOK, DiskInv, AccountFiles
    PROVE  DiskInv'
<1>0. PICK u \in Users : u = Head(account).user
    BY FilesGo
<1>1. UNCHANGED <<repo, user, lost, late, stranded>>
    BY DEF AccountFiles, tables
<1>2. /\ account # <<>> /\ u \in Users
      /\ account'[1] = [user |-> u, step |-> "rows"]
      /\ account[1] = [user |-> u, step |-> "files"]
      /\ DOMAIN account' = 1 .. Len(account)
      /\ \A n \in 2 .. Len(account) : account'[n] = account[n]
      /\ \A p \in Paths : disk'[p] \in {None, disk[p]} /\ (p[1] # u => disk'[p] = disk[p])
      /\ littered \subseteq littered'
      /\ u \notin littered' => \A p \in Paths : p[1] = u => disk'[p] = None
    BY <1>0, FilesGo
<1>3. DOMAIN account = 1 .. Len(account) /\ Len(account) \in Nat \ {0}
    BY <1>2 DEF TypeOK
<1>4. \A v \in Users : Leaving(v)' <=> Leaving(v) \/ v = u
    <2>1. \A n \in DOMAIN account : n = 1 \/ n \in 2 .. Len(account)
        BY <1>3
    <2>2. Leaving(u)'
        <3>1. 1 \in DOMAIN account'
            BY <1>2, <1>3
        <3> QED
            BY <1>2, <3>1 DEF Leaving
    <2>3. ASSUME NEW v \in Users, Leaving(v)
          PROVE  Leaving(v)'
        <3>1. PICK n \in DOMAIN account : account[n] = [user |-> v, step |-> "rows"]
            BY <2>3 DEF Leaving
        <3>2. n \in 2 .. Len(account)
            <4>1. account[1].step = "files" /\ account[n].step = "rows"
                BY <1>2, <3>1
            <4> QED
                BY <2>1, <4>1
        <3>3. n \in DOMAIN account' /\ account'[n] = [user |-> v, step |-> "rows"]
            BY <1>2, <1>3, <3>1, <3>2
        <3> QED
            BY <3>3 DEF Leaving
    <2>4. ASSUME NEW v \in Users, Leaving(v)', v # u
          PROVE  Leaving(v)
        <3>1. PICK n \in DOMAIN account' : account'[n] = [user |-> v, step |-> "rows"]
            BY <2>4 DEF Leaving
        <3>2. n \in 2 .. Len(account)
            <4>1. account'[1].user = u /\ account'[n].user = v
                BY <1>2, <3>1
            <4> QED
                BY <1>2, <1>3, <2>1, <2>4, <4>1
        <3>3. n \in DOMAIN account /\ account[n] = [user |-> v, step |-> "rows"]
            BY <1>2, <1>3, <3>1, <3>2
        <3> QED
            BY <3>3 DEF Leaving
    <2> QED
        BY <2>2, <2>3, <2>4
<1>5. \A i \in Ids : Live(i)' <=> Live(i)
    BY <1>1 DEF Live
<1>6. \A i \in Ids : Live(i) => repo[i].path \in Paths /\ repo[i].path[1] \in Users
    BY PathsHaveUsers DEF TypeOK, Live, Row
<1>7. PathsUnique'
    BY <1>1, <1>5 DEF DiskInv, PathsUnique
<1>8. OwnDisk'
    <2> SUFFICES ASSUME NEW i \in Ids \ stranded, Live(i), disk'[repo[i].path] # None
                 PROVE  disk'[repo[i].path].repo = i
        BY <1>1, <1>5 DEF OwnDisk
    <2>1. disk'[repo[i].path] = disk[repo[i].path]
        BY <1>2, <1>6
    <2> QED
        BY <2>1 DEF DiskInv, OwnDisk
<1>9. FilesGone'
    <2> SUFFICES ASSUME NEW v \in Users, Leaving(v)', v \notin late \cup littered',
                        NEW p \in Paths, p[1] = v
                 PROVE  disk'[p] = None
        BY <1>1 DEF FilesGone
    <2>1. CASE v = u
        BY <1>2, <2>1
    <2>2. CASE v # u
        <3>1. Leaving(v) /\ v \notin late \cup littered
            BY <1>2, <1>4, <2>2
        <3>2. disk[p] = None
            BY <3>1 DEF DiskInv, FilesGone
        <3> QED
            BY <1>2, <2>2, <3>2
    <2> QED
        BY <2>1, <2>2
<1>10. DeletedUserLeavesNothing'
    <2> SUFFICES ASSUME NEW p \in Paths, p[1] \notin user \cup late \cup littered'
                 PROVE  disk'[p] = None
        BY <1>1 DEF DeletedUserLeavesNothing
    <2>1. disk[p] = None
        BY <1>2 DEF DiskInv, DeletedUserLeavesNothing
    <2> QED
        BY <1>2, <2>1
<1>11. RowsHaveFiles'
    <2>1. \A i \in Ids : Live(i) /\ repo[i].path[1] # u =>
             disk'[repo[i].path] = disk[repo[i].path]
        BY <1>2, <1>6
    <2> QED
        BY <1>1, <1>4, <1>5, <1>6, <2>1 DEF DiskInv, RowsHaveFiles
<1> QED
    BY <1>7, <1>8, <1>9, <1>10, <1>11 DEF DiskInv

\* The first deletion is done with: of the others as many are between the files
\* and the rows as before.
LEMMA LeavingTail ==
    ASSUME TypeOK, account # <<>>, account' = Tail(account)
    PROVE  \A v \in Users :
              /\ Leaving(v)' => Leaving(v)
              /\ Leaving(v) => Leaving(v)' \/ account[1] = [user |-> v, step |-> "rows"]
<1>1. /\ DOMAIN account' = 1 .. Len(account) - 1
      /\ DOMAIN account = 1 .. Len(account) /\ Len(account) \in Nat \ {0}
      /\ \A n \in 1 .. Len(account) - 1 : account'[n] = account[n + 1]
    BY TailIs DEF TypeOK
<1>2. ASSUME NEW v \in Users, Leaving(v)'
      PROVE  Leaving(v)
    <2>1. PICK n \in DOMAIN account' : account'[n] = [user |-> v, step |-> "rows"]
        BY <1>2 DEF Leaving
    <2>2. n + 1 \in DOMAIN account /\ account[n + 1] = [user |-> v, step |-> "rows"]
        BY <1>1, <2>1
    <2> QED
        BY <2>2 DEF Leaving
<1>3. ASSUME NEW v \in Users, Leaving(v), account[1] # [user |-> v, step |-> "rows"]
      PROVE  Leaving(v)'
    <2>1. PICK n \in DOMAIN account : account[n] = [user |-> v, step |-> "rows"]
        BY <1>3 DEF Leaving
    <2>2. n - 1 \in 1 .. Len(account) - 1 /\ (n - 1) + 1 = n
        BY <1>1, <1>3, <2>1
    <2>3. n - 1 \in DOMAIN account' /\ account'[n - 1] = [user |-> v, step |-> "rows"]
        BY <1>1, <2>1, <2>2
    <2> QED
        BY <2>3 DEF Leaving
<1> QED
    BY <1>2, <1>3

LEMMA RowsKeepDisk ==
    ASSUME TypeOK, DiskInv, AccountRows
    PROVE  DiskInv'
<1> DEFINE u == Head(account).user
<1>1. /\ UNCHANGED <<disk, lost, late, littered, stranded>> /\ user' = user \ {u}
      /\ account' = Tail(account)
    BY DEF AccountRows
<1>2. /\ account # <<>> /\ u \in Users
      /\ account[1] = [user |-> u, step |-> "rows"]
      /\ \A i \in Ids : Live(i) /\ repo[i].path[1] = u => repo'[i] = None
      /\ \A i \in Ids : ~(Live(i) /\ repo[i].path[1] = u) => repo'[i] = repo[i]
    BY RowsGo
<1>3. DOMAIN account = 1 .. Len(account) /\ Len(account) \in Nat \ {0}
    BY <1>2 DEF TypeOK
<1> HIDE DEF u
<1>4. Leaving(u)
    BY <1>2, <1>3 DEF Leaving
<1>5. \A v \in Users : Leaving(v)' => Leaving(v)
    BY <1>1, <1>2, LeavingTail
<1>6. \A v \in Users : Leaving(v) /\ v # u => Leaving(v)'
    <2> SUFFICES ASSUME NEW v \in Users, Leaving(v), v # u
                 PROVE  Leaving(v)'
        OBVIOUS
    <2>1. account[1] # [user |-> v, step |-> "rows"]
        BY <1>2
    <2> QED
        BY <1>1, <1>2, <2>1, LeavingTail
<1>7. \A i \in Ids : Live(i)' => /\ Live(i) /\ repo'[i] = repo[i]
                                 /\ repo[i].path[1] # u
    BY <1>2 DEF Live
<1>8. \A i \in Ids : Live(i) => repo[i].path \in Paths /\ repo[i].path[1] \in Users
    BY PathsHaveUsers DEF TypeOK, Live, Row
<1>9. PathsUnique'
    BY <1>7 DEF DiskInv, PathsUnique
<1>10. OwnDisk'
    BY <1>1, <1>7 DEF DiskInv, OwnDisk
<1>11. FilesGone'
    BY <1>1, <1>5 DEF DiskInv, FilesGone
<1>12. DeletedUserLeavesNothing'
    BY <1>1, <1>2, <1>4 DEF DiskInv, DeletedUserLeavesNothing, FilesGone
<1>13. RowsHaveFiles'
    BY <1>1, <1>6, <1>7, <1>8 DEF DiskInv, RowsHaveFiles
<1> QED
    BY <1>9, <1>10, <1>11, <1>12, <1>13 DEF DiskInv

\* A deletion that fails before the files leaves all as it is; one that fails
\* after them is told by lost.
LEMMA FailureKeepsDisk ==
    ASSUME TypeOK, DiskInv, AccountFails \/ AccountRowsFail
    PROVE  DiskInv'
<1>1. /\ account # <<>> /\ account' = Tail(account)
      /\ UNCHANGED <<repo, disk, user, late, littered, stranded>>
      /\ lost \subseteq lost'
      /\ Head(account).step = "files" \/ Head(account).user \in lost'
    BY DEF AccountFails, AccountRowsFail, tables, history
<1>2. Head(account) = account[1]
    BY <1>1, DeletionLeaves
<1>3. ASSUME NEW u \in Users
      PROVE  /\ Leaving(u)' => Leaving(u)
             /\ Leaving(u) => Leaving(u)' \/ u \in lost'
    <2>1. account[1] = [user |-> u, step |-> "rows"] =>
             account[1].user = u /\ account[1].step = "rows"
        OBVIOUS
    <2> QED
        BY <1>1, <1>2, <2>1, LeavingTail
<1> QED
    BY <1>1, <1>3, NothingMoves DEF Live

LEMMA CrashKeepsDisk ==
    ASSUME TypeOK, DiskInv, Crash
    PROVE  DiskInv'
<1>1. /\ account' = <<>>
      /\ UNCHANGED <<repo, user, disk, late, littered, stranded>>
      /\ lost \cup {a.user : a \in Range(account)} \subseteq lost'
    BY DEF Crash, tables
<1>2. \A u \in Users : ~Leaving(u)' /\ (Leaving(u) => u \in lost')
    BY <1>1 DEF Leaving, Range
<1>3. \A i \in Ids : Live(i)' <=> Live(i)
    BY <1>1 DEF Live
<1>4. \A i \in Ids : Live(i) => repo[i].path[1] \in Users
    BY PathsHaveUsers DEF TypeOK, Live, Row
<1>5. PathsUnique' /\ OwnDisk' /\ DeletedUserLeavesNothing'
    BY <1>1, <1>3 DEF DiskInv, PathsUnique, OwnDisk, DeletedUserLeavesNothing
<1>6. FilesGone'
    BY <1>2 DEF FilesGone
<1>7. RowsHaveFiles'
    BY <1>1, <1>2, <1>3, <1>4 DEF DiskInv, RowsHaveFiles
<1> QED
    BY <1>5, <1>6, <1>7 DEF DiskInv

LEMMA DiskKeeps ==
    ASSUME TypeOK, Jobs, DiskInv, [Next]_vars
    PROVE  DiskInv'
<1>1. ASSUME UNCHANGED <<repo, disk, user, late, littered, stranded>>,
             lost \subseteq lost',
             \A u \in Users : Leaving(u)' <=> Leaving(u)
      PROVE  DiskInv'
    BY <1>1, NothingMoves DEF Live
<1>2. CASE UNCHANGED vars
    BY <1>1, <1>2, LeavingSame DEF vars, tables, queues, history
<1>3. CASE Request
    <2>1. ASSUME NEW i \in Ids, DeliverGitEvent(i) PROVE DiskInv'
        BY <1>1, <2>1, LeavingSame DEF DeliverGitEvent, Change
    <2>2. ASSUME NEW u \in Users, DeleteUser(u) PROVE DiskInv'
        <3>1. /\ account' = Append(account, [user |-> u, step |-> "files"])
              /\ UNCHANGED <<repo, disk, user, late, lost, littered, stranded>>
            BY <2>2 DEF DeleteUser, tables, history
        <3>2. account \in Seq(Deletions) /\ [user |-> u, step |-> "files"] \in Deletions
            BY DEF TypeOK, Deletions
        <3>3. /\ Len(account) \in Nat /\ DOMAIN account = 1 .. Len(account)
              /\ DOMAIN account' = 1 .. Len(account) + 1
              /\ \A n \in 1 .. Len(account) : account'[n] = account[n]
              /\ account'[Len(account) + 1] = [user |-> u, step |-> "files"]
            BY <3>1, <3>2, AppendIs
        <3>4. \A n \in DOMAIN account' : n \in DOMAIN account \/ n = Len(account) + 1
            BY <3>3
        <3>5. DOMAIN account \subseteq DOMAIN account'
            BY <3>3
        <3>6. \A v \in Users : [user |-> u, step |-> "files"] # [user |-> v, step |-> "rows"]
            OBVIOUS
        <3>7. \A v \in Users : Leaving(v)' <=> Leaving(v)
            BY <3>3, <3>4, <3>5, <3>6 DEF Leaving
        <3> QED
            BY <1>1, <3>1, <3>7
    <2> QED
        BY <1>3, <2>1, <2>2, CreateKeepsDisk, UpdateKeepsDisk, DeleteKeepsDisk,
           StrandKeepsDisk DEF Request
<1>4. CASE Enqueue
    <2>1. UNCHANGED <<repo, disk, user, late, lost, littered, stranded, account>>
        BY <1>4 DEF Enqueue, Clone, Index, Delete, tables, history
    <2> QED
        BY <1>1, <2>1, LeavingSame
<1>5. CASE CloneStep
    <2>1. /\ UNCHANGED <<user, late, littered, stranded, account>>
          /\ lost \subseteq lost'
        BY <1>5 DEF CloneStep, CloneAsk, CloneFetch, CloneHead, CloneDone,
                    ClonePanics, ObjectsGo, Cloning, tables, history
    <2>2. CASE CloneAsk \/ CloneHead \/ ClonePanics \/ ObjectsGo
        <3>1. UNCHANGED <<repo, disk>>
            BY <2>2 DEF CloneAsk, CloneHead, ClonePanics, ObjectsGo, Cloning, tables
        <3> QED
            BY <1>1, <2>1, <3>1, LeavingSame
    <2>3. CASE CloneFetch
        <3>1. UNCHANGED repo
            BY <2>3 DEF CloneFetch, Cloning, tables
        <3> QED
            BY <2>1, <2>3, <3>1, FetchWrites, LeavingSame, NothingMoves DEF Live
    <2>4. CASE CloneDone
        <3>1. UNCHANGED disk
            BY <2>4 DEF CloneDone
        <3> QED
            BY <2>1, <2>4, <3>1, DoneWrites, LeavingSame, NothingMoves
    <2> QED
        BY <1>5, <2>2, <2>3, <2>4 DEF CloneStep
<1>6. CASE IndexRun \/ PurgeRun
    <2>1. UNCHANGED <<repo, disk, user, late, lost, littered, stranded, account>>
        BY <1>6 DEF IndexRun, PurgeRun, Searched, tables
    <2> QED
        BY <1>1, <2>1, LeavingSame
<1> QED
    BY <1>2, <1>3, <1>4, <1>5, <1>6, FilesKeepDisk, RowsKeepDisk,
       FailureKeepsDisk, CrashKeepsDisk DEF Next, Worker, AccountStep

-----------------------------------------------------------------------------
(* Tasks and what they are for.                                             *)

\* A request adds at most a call, and leaves the queues alone but for the removal
\* of artifacts.
NewCalls ==
    /\ search' = search
    /\ Range(repos) \subseteq Range(repos') /\ Range(due) \subseteq Range(due')
    /\ \A t \in Range(repos') \ Range(repos) :
          t.job = "objects" /\ t.step = "objects" /\ \E i \in Ids : Live(i) /\ t.id = i
    /\ \A t \in Range(due') \ Range(due) :
          t.job # "objects" /\ t.step = "ask" /\ (t.job = "clone" => t.from # None)

LEMMA RequestCalls ==
    ASSUME TypeOK, Request
    PROVE  NewCalls
<1>1. ASSUME NEW i \in Ids, NEW p \in Paths, NEW v \in Visibility,
             NEW from \in Sources, CreateRepository(i, p, v, from)
      PROVE  NewCalls
    <2>1. repos' = repos /\ search' = search
        BY <1>1 DEF CreateRepository, queues
    <2>2. CASE from = None
        BY <1>1, <2>1, <2>2, CreateQueues DEF NewCalls
    <2>3. CASE from # None
        BY <1>1, <2>1, <2>3, CreateQueues DEF NewCalls
    <2> QED
        BY <2>2, <2>3
<1>2. ASSUME NEW i \in Ids, NEW p \in Paths, NEW v \in Visibility,
             UpdateRepository(i, p, v)
      PROVE  NewCalls
    <2>1. repos' = repos /\ search' = search
        BY <1>2 DEF UpdateRepository, Change
    <2> QED
        BY <1>2, <2>1, UpdateQueues DEF NewCalls
<1>3. ASSUME NEW i \in Ids, DeleteRepository(i)
      PROVE  NewCalls
    <2>1. search' = search /\ Live(i) /\ DeleteArtifacts(i)
        BY <1>3 DEF DeleteRepository, Change
    <2>2. /\ Range(repos) \subseteq Range(repos')
          /\ \A t \in Range(repos') \ Range(repos) :
                t.job = "objects" /\ t.step = "objects" /\ t.id = i
        BY <2>1, ObjectsQueued
    <2>3. \E c \in Task : /\ c.job = "purge" /\ c.step = "ask"
                          /\ Range(due') = Range(due) \cup {c}
        BY <1>3, DeleteTables
    <2> QED
        BY <2>1, <2>2, <2>3 DEF NewCalls
<1>4. ASSUME NEW i \in Ids, DeliverGitEvent(i)
      PROVE  NewCalls
    <2>1. repos' = repos /\ search' = search
        BY <1>4 DEF DeliverGitEvent, Change
    <2> QED
        BY <1>4, <2>1, EventQueues DEF NewCalls
<1>5. ASSUME NEW u \in Users, DeleteUser(u)
      PROVE  NewCalls
    <2>1. repos' = repos /\ search' = search /\ due' = due
        BY <1>5 DEF DeleteUser
    <2> QED
        BY <2>1 DEF NewCalls
<1>6. ASSUME NEW i \in Ids, NEW p \in Paths \cup {None}, Strand(i, p)
      PROVE  NewCalls
    <2>1. /\ Live(i) /\ search' = search /\ due' = due
          /\ Range(repos) \subseteq Range(repos')
          /\ \A t \in Range(repos') \ Range(repos) :
                t.job = "objects" /\ t.step = "objects" /\ t.id = i
        BY <1>6, StrandWrites
    <2> QED
        BY <2>1 DEF NewCalls
<1> QED
    BY <1>1, <1>2, <1>3, <1>4, <1>5, <1>6 DEF Request

\* The worker of the imports goes on with its first task or is done with it, the
\* import having ended, or not, which is told by lost.
LEMMA CloneGoesOn ==
    ASSUME TypeOK, Jobs, CloneStep
    PROVE  /\ repos # <<>> /\ Head(repos) \in Task /\ Head(repos) \in Range(repos)
           /\ UNCHANGED <<due, search, account, user, index, used, off, moved,
                          wanted, late, littered, stranded>>
           /\ lost \subseteq lost'
           /\ Range(repos) \subseteq Range(repos') \cup {Head(repos)}
           /\ \A t \in Range(repos') \ Range(repos) :
                 /\ t.job = Head(repos).job /\ t.id = Head(repos).id
                 /\ t.path = Head(repos).path /\ t.from = Head(repos).from
                 /\ t.job = "clone" /\ t.step # "objects"
           /\ \/ CloneDone
              \/ /\ UNCHANGED repo
                 /\ \/ \E t \in Range(repos') : /\ t.job = Head(repos).job
                                                /\ t.id = Head(repos).id
                    \/ Head(repos).id \in lost'
                    \/ Head(repos).job = "objects"
<1>1. /\ UNCHANGED <<due, search, account, user, index, used, off, moved,
                     wanted, late, littered, stranded>>
      /\ lost \subseteq lost'
    BY DEF CloneStep, CloneAsk, CloneFetch, CloneHead, CloneDone, ClonePanics,
           ObjectsGo, Cloning, tables, history
<1>2. ASSUME NEW step \in {"fetch", "head", "good", "bad"}, Then(step),
             repos # <<>>, Head(repos).step # "objects", Cloning
      PROVE  /\ Head(repos) \in Task /\ Head(repos) \in Range(repos)
             /\ Range(repos) \subseteq Range(repos') \cup {Head(repos)}
             /\ \A t \in Range(repos') \ Range(repos) :
                   /\ t.job = Head(repos).job /\ t.id = Head(repos).id
                   /\ t.path = Head(repos).path /\ t.from = Head(repos).from
                   /\ t.job = "clone" /\ t.step # "objects"
             /\ UNCHANGED repo
             /\ \E t \in Range(repos') : /\ t.job = Head(repos).job
                                         /\ t.id = Head(repos).id
    <2>1. UNCHANGED repo
        BY <1>2 DEF Cloning, tables
    <2>2. Head(repos) \in Range(repos)
        BY <1>2, HeadLeaves DEF TypeOK
    <2>3. Head(repos).job = "clone"
        BY <1>2, <2>2 DEF Jobs
    <2>4. step \in {"ask", "fetch", "head", "good", "bad"} /\ step # "objects"
        BY <1>2
    <2> QED
        BY <1>2, <2>1, <2>3, <2>4, ThenGoesOn
<1>3. CASE CloneAsk \/ CloneHead
    <2>1. /\ repos # <<>> /\ Cloning /\ Head(repos).step # "objects"
          /\ \E step \in {"fetch", "head", "good", "bad"} : Then(step)
        BY <1>3 DEF CloneAsk, CloneHead, Importing
    <2> QED
        BY <1>1, <1>2, <2>1
<1>4. CASE CloneFetch
    <2>1. Cloning
        BY <1>4 DEF CloneFetch
    <2>2. /\ repos # <<>> /\ Head(repos).step # "objects"
          /\ \E step \in {"fetch", "head", "good", "bad"} : Then(step)
        BY <1>4, FetchWrites
    <2> QED
        BY <1>1, <1>2, <2>1, <2>2
<1>5. CASE CloneDone
    <2>1. repos # <<>> /\ repos' = Tail(repos) /\ repos \in Seq(Task)
        BY <1>5, DoneWrites DEF TypeOK
    <2> QED
        BY <1>1, <1>5, <2>1, HeadLeaves
<1>6. CASE ClonePanics
    <2>1. /\ repos # <<>> /\ repos' = Tail(repos) /\ repos \in Seq(Task)
          /\ UNCHANGED repo /\ Head(repos).id \in lost'
        BY <1>6 DEF ClonePanics, Importing, TypeOK, tables
    <2> QED
        BY <1>1, <2>1, HeadLeaves
<1>7. CASE ObjectsGo
    <2>1. /\ repos # <<>> /\ repos' = Tail(repos) /\ repos \in Seq(Task)
          /\ UNCHANGED repo /\ Head(repos).step = "objects"
        BY <1>7 DEF ObjectsGo, Importing, Cloning, TypeOK, tables
    <2>2. Head(repos).job = "objects"
        BY <2>1, HeadLeaves DEF Jobs
    <2> QED
        BY <1>1, <2>1, <2>2, HeadLeaves
<1> QED
    BY <1>3, <1>4, <1>5, <1>6, <1>7 DEF CloneStep

LEMMA JobsKeep ==
    ASSUME TypeOK, Jobs, [Next]_vars
    PROVE  Jobs'
<1>1. CASE UNCHANGED vars
    BY <1>1 DEF Jobs, vars, queues, Range
<1>2. CASE Request
    <2>1. NewCalls
        BY <1>2, RequestCalls
    <2>2. Range(search') = Range(search)
        BY <2>1 DEF NewCalls
    <2>3. /\ \A t \in Range(due') :
                \/ t \in Range(due)
                \/ /\ t.job # "objects" /\ t.step = "ask"
                   /\ t.job = "clone" => t.from # None
          /\ \A t \in Range(repos') :
                t \in Range(repos) \/ (t.job = "objects" /\ t.step = "objects")
        BY <2>1 DEF NewCalls
    <2> QED
        BY <2>2, <2>3 DEF Jobs
<1>3. ASSUME NEW n \in DOMAIN due, Clone(n)
      PROVE  Jobs'
    <2>1. /\ due[n].job = "clone" /\ repos' = Append(repos, due[n])
          /\ due' = RemoveAt(due, n) /\ search' = search
        BY <1>3 DEF Clone
    <2>2. /\ due[n] \in Task /\ due[n] \in Range(due)
          /\ Range(due') \subseteq Range(due)
        BY <2>1, DueLosesOne
    <2>3. Range(repos') = Range(repos) \cup {due[n]}
        BY <2>1, <2>2, RangeOfAppend DEF TypeOK
    <2>4. Range(search') = Range(search)
        BY <2>1
    <2> QED
        BY <2>1, <2>2, <2>3, <2>4 DEF Jobs
<1>4. ASSUME NEW n \in DOMAIN due, Index(n) \/ Delete(n)
      PROVE  Jobs'
    <2>1. /\ due[n].job \in {"index", "purge"} /\ repos' = repos
          /\ due' = RemoveAt(due, n)
          /\ search' \in {search, Append(search, due[n])}
        BY <1>4 DEF Index, Delete
    <2>2. due[n] \in Task /\ Range(due') \subseteq Range(due)
        BY <2>1, DueLosesOne
    <2>3. Range(search') \subseteq Range(search) \cup {due[n]}
        <3>1. Range(Append(search, due[n])) = Range(search) \cup {due[n]}
            BY <2>2, RangeOfAppend DEF TypeOK
        <3>2. CASE search' = search
            BY <3>2
        <3>3. CASE search' = Append(search, due[n])
            BY <3>1, <3>3
        <3> QED
            BY <2>1, <3>2, <3>3
    <2>4. Range(repos') = Range(repos)
        BY <2>1
    <2> QED
        BY <2>1, <2>2, <2>3, <2>4 DEF Jobs
<1>5. CASE CloneStep
    <2>1. /\ UNCHANGED <<due, search>> /\ Head(repos) \in Range(repos)
          /\ \A t \in Range(repos') \ Range(repos) :
                 /\ t.job = Head(repos).job /\ t.from = Head(repos).from
                 /\ t.job = "clone" /\ t.step # "objects"
        BY <1>5, CloneGoesOn
    <2>2. Range(due') = Range(due) /\ Range(search') = Range(search)
        BY <2>1
    <2>3. \A t \in Range(repos') : t \in Range(repos) \/ t \in Range(repos') \ Range(repos)
        OBVIOUS
    <2> QED
        BY <2>1, <2>2, <2>3 DEF Jobs
<1>6. CASE IndexRun \/ PurgeRun
    <2>1. search # <<>> /\ search' = Tail(search) /\ UNCHANGED <<due, repos>>
        BY <1>6 DEF IndexRun, PurgeRun, Searching, Searched
    <2>2. Range(search') \subseteq Range(search)
        BY <2>1, HeadLeaves DEF TypeOK
    <2>3. Range(due') = Range(due) /\ Range(repos') = Range(repos)
        BY <2>1
    <2> QED
        BY <2>2, <2>3 DEF Jobs
<1>7. CASE AccountStep
    <2>1. UNCHANGED <<due, repos, search>>
        BY <1>7 DEF AccountStep, AccountFails, AccountFiles, AccountRows,
                    AccountRowsFail
    <2>2. /\ Range(due') = Range(due) /\ Range(repos') = Range(repos)
          /\ Range(search') = Range(search)
        BY <2>1
    <2> QED
        BY <2>2 DEF Jobs
<1>8. CASE Crash
    <2>1. due' = <<>> /\ repos' = <<>> /\ search' = <<>>
        BY <1>8 DEF Crash
    <2>2. Range(due') = {} /\ Range(repos') = {} /\ Range(search') = {}
        BY <2>1 DEF Range
    <2> QED
        BY <2>2 DEF Jobs
<1> QED
    BY <1>1, <1>2, <1>3, <1>4, <1>5, <1>6, <1>7, <1>8 DEF Next, Enqueue, Worker

\* Every repository whose import is in progress has a task.  Where a step takes
\* a task away it is carried on, has ended, or is lost.
LEMMA InProgressKeeps ==
    ASSUME TypeOK, Jobs, InProgressHasTask, [Next]_vars
    PROVE  InProgressHasTask'
<1>1. ASSUME UNCHANGED repo, lost \subseteq lost',
             \A t \in Range(due) \cup Range(repos) :
                t.job = "clone" =>
                \/ t.id \in lost'
                \/ \E s \in Range(due') \cup Range(repos') :
                      s.job = "clone" /\ s.id = t.id
      PROVE  InProgressHasTask'
    BY <1>1 DEF InProgressHasTask, InProgress, Underway, Live
<1>2. CASE UNCHANGED vars
    BY <1>1, <1>2 DEF vars, tables, history, queues
<1>3. ASSUME NEW i \in Ids, NEW p \in Paths, NEW v \in Visibility,
             NEW from \in Sources, CreateRepository(i, p, v, from)
      PROVE  InProgressHasTask'
    <2>1. /\ repo'[i].clone = "IN_PROGRESS" => from # None
          /\ \A j \in Ids \ {i} : repo'[j] = repo[j]
        BY <1>3, CreateRow
    <2>2. UNCHANGED lost
        BY <1>3 DEF CreateRepository
    <2>3. Range(repos) \subseteq Range(repos') /\ Range(due) \subseteq Range(due')
        BY <1>3, RequestCalls DEF Request, NewCalls
    <2>4. from # None => \E c \in Range(due') : c.job = "clone" /\ c.id = i
        BY <1>3, CreateQueues
    <2>5. InProgress(i)' => Underway(i)'
        BY <2>1, <2>4 DEF InProgress, Underway
    <2>6. \A j \in Ids \ {i} : InProgress(j)' => Underway(j)' \/ j \in lost'
        BY <2>1, <2>2, <2>3 DEF InProgressHasTask, InProgress, Underway, Live
    <2> QED
        BY <2>5, <2>6 DEF InProgressHasTask
<1>4. ASSUME NEW i \in Ids, NEW p \in Paths, NEW v \in Visibility,
             UpdateRepository(i, p, v)
      PROVE  InProgressHasTask'
    <2>1. /\ Live(i) /\ repo'[i].clone = repo[i].clone
          /\ \A j \in Ids \ {i} : repo'[j] = repo[j]
        BY <1>4, UpdateTables
    <2>2. UNCHANGED lost
        BY <1>4 DEF UpdateRepository, Change
    <2>3. Range(repos) \subseteq Range(repos') /\ Range(due) \subseteq Range(due')
        BY <1>4, RequestCalls DEF Request, NewCalls
    <2>4. \A j \in Ids : InProgress(j)' => InProgress(j)
        BY <2>1 DEF InProgress, Live
    <2> QED
        BY <2>2, <2>3, <2>4 DEF InProgressHasTask, Underway
<1>5. ASSUME NEW i \in Ids, DeleteRepository(i)
      PROVE  InProgressHasTask'
    <2>1. repo'[i] = None /\ \A j \in Ids \ {i} : repo'[j] = repo[j]
        BY <1>5, DeleteTables
    <2>2. UNCHANGED lost
        BY <1>5 DEF DeleteRepository, Change
    <2>3. Range(repos) \subseteq Range(repos') /\ Range(due) \subseteq Range(due')
        BY <1>5, RequestCalls DEF Request, NewCalls
    <2>4. \A j \in Ids : InProgress(j)' => InProgress(j)
        BY <2>1 DEF InProgress, Live
    <2> QED
        BY <2>2, <2>3, <2>4 DEF InProgressHasTask, Underway
<1>6. ASSUME \/ \E i \in Ids : DeliverGitEvent(i)
             \/ \E u \in Users : DeleteUser(u)
             \/ \E i \in Ids, p \in Paths \cup {None} : Strand(i, p)
      PROVE  InProgressHasTask'
    <2>1. UNCHANGED <<repo, lost>>
        <3>1. ASSUME NEW i \in Ids, NEW p \in Paths \cup {None}, Strand(i, p)
              PROVE  UNCHANGED <<repo, lost>>
            BY <3>1, StrandWrites
        <3> QED
            BY <1>6, <3>1 DEF DeliverGitEvent, DeleteUser, Change, tables, history
    <2>2. Range(repos) \subseteq Range(repos') /\ Range(due) \subseteq Range(due')
        BY <1>6, RequestCalls DEF Request, NewCalls
    <2> QED
        BY <1>1, <2>1, <2>2
<1>7. ASSUME NEW n \in DOMAIN due, Clone(n)
      PROVE  InProgressHasTask'
    <2>1. /\ repos' = Append(repos, due[n]) /\ due' = RemoveAt(due, n)
          /\ UNCHANGED <<repo, lost>>
        BY <1>7 DEF Clone, tables, history
    <2>2. due[n] \in Task /\ Range(due) \subseteq Range(due') \cup {due[n]}
        BY <2>1, DueLosesOne
    <2>3. Range(repos') = Range(repos) \cup {due[n]}
        BY <2>1, <2>2, RangeOfAppend DEF TypeOK
    <2> QED
        BY <1>1, <2>1, <2>2, <2>3
<1>8. ASSUME NEW n \in DOMAIN due, Index(n) \/ Delete(n)
      PROVE  InProgressHasTask'
    <2>1. /\ due[n].job # "clone" /\ repos' = repos /\ due' = RemoveAt(due, n)
          /\ UNCHANGED <<repo, lost>>
        BY <1>8 DEF Index, Delete, tables
    <2>2. Range(due) \subseteq Range(due') \cup {due[n]}
        BY <2>1, DueLosesOne
    <2> QED
        BY <1>1, <2>1, <2>2
<1>9. CASE CloneStep
    <2>1. /\ Range(repos) \subseteq Range(repos') \cup {Head(repos)}
          /\ due' = due /\ lost \subseteq lost'
          /\ \/ CloneDone
             \/ /\ UNCHANGED repo
                /\ \/ \E t \in Range(repos') : /\ t.job = Head(repos).job
                                               /\ t.id = Head(repos).id
                   \/ Head(repos).id \in lost'
                   \/ Head(repos).job = "objects"
        BY <1>9, CloneGoesOn
    <2>2. CASE CloneDone
        <3>1. /\ \A i \in Ids : Live(i)' <=> Live(i)
              /\ \A i \in Ids \ {Head(repos).id} : repo'[i] = repo[i]
              /\ Live(Head(repos).id) =>
                    repo'[Head(repos).id].clone \in {"COMPLETE", "ERROR"}
            BY <2>2, DoneWrites
        <3>2. \A i \in Ids : InProgress(i)' => i # Head(repos).id /\ InProgress(i)
            BY <3>1 DEF InProgress
        <3> QED
            BY <2>1, <3>2 DEF InProgressHasTask, Underway
    <2>3. CASE /\ UNCHANGED repo
               /\ \/ \E t \in Range(repos') : /\ t.job = Head(repos).job
                                              /\ t.id = Head(repos).id
                  \/ Head(repos).id \in lost'
                  \/ Head(repos).job = "objects"
        BY <1>1, <2>1, <2>3
    <2> QED
        BY <2>1, <2>2, <2>3
<1>10. CASE \/ IndexRun \/ PurgeRun
            \/ AccountFails \/ AccountFiles \/ AccountRowsFail
    <2>1. UNCHANGED <<repo, due, repos>> /\ lost \subseteq lost'
        BY <1>10 DEF IndexRun, PurgeRun, Searched, AccountFails, AccountFiles,
                     AccountRowsFail, tables, history
    <2> QED
        BY <1>1, <2>1
<1>11. CASE AccountRows
    <2>1. UNCHANGED <<lost, due, repos>>
        BY <1>11 DEF AccountRows
    <2>2. \A i \in Ids : repo'[i] \in {None, repo[i]}
        BY <1>11, RowsGo
    <2>3. \A i \in Ids : InProgress(i)' => InProgress(i)
        BY <2>2 DEF InProgress, Live
    <2> QED
        BY <2>1, <2>3 DEF InProgressHasTask, Underway
<1>12. CASE Crash
    <2>1. UNCHANGED repo
        BY <1>12 DEF Crash, tables
    <2>2. \A t \in Range(due) \cup Range(repos) : t.job = "clone" => t.id \in lost'
        BY <1>12 DEF Crash
    <2>3. lost \subseteq lost'
        BY <1>12 DEF Crash
    <2>4. \A i \in Ids : InProgress(i)' => i \in lost'
        BY <2>1, <2>2, <2>3 DEF InProgressHasTask, InProgress, Underway, Live
    <2> QED
        BY <2>4 DEF InProgressHasTask
<1>13. CASE Request
    BY <1>3, <1>4, <1>5, <1>6, <1>13 DEF Request
<1> QED
    BY <1>2, <1>7, <1>8, <1>9, <1>10, <1>11, <1>12, <1>13
       DEF Next, Enqueue, Worker, AccountStep

\* Of a repository that is still to come there is nothing.
IdsDrawn ==
    \A i \in Ids : i \notin used =>
        /\ ~Live(i) /\ index[i] = None
        /\ \A t \in Range(due) \cup Range(repos) \cup Range(search) : t.id # i

\* A step that adds no task, row or shards but of repositories there are.
LEMMA NothingDrawn ==
    ASSUME IdsDrawn, used \subseteq used',
           \A i \in Ids : Live(i)' => Live(i) \/ i \in used',
           \A i \in Ids : index'[i] # None => index[i] # None \/ i \in used',
           \A t \in Range(due') \cup Range(repos') \cup Range(search') :
              \/ t.id \in used'
              \/ \E s \in Range(due) \cup Range(repos) \cup Range(search) : s.id = t.id
    PROVE  IdsDrawn'
    BY DEF IdsDrawn

LEMMA DrawnKeep ==
    ASSUME TypeOK, Jobs, IdsDrawn, [Next]_vars
    PROVE  IdsDrawn'
<1>1. ASSUME UNCHANGED <<used, index>>, NewCalls,
             \A i \in Ids : Live(i)' => Live(i),
             \A t \in Range(due') \ Range(due) : t.id \in used
      PROVE  IdsDrawn'
    <2>1. /\ Range(search') = Range(search)
          /\ \A t \in Range(repos') \ Range(repos) : t.id \in used
        BY <1>1 DEF NewCalls, IdsDrawn
    <2> QED
        BY <1>1, <2>1, NothingDrawn
<1>2. \A i \in Ids : Live(i) => i \in used
    BY DEF IdsDrawn
<1>3. CASE UNCHANGED vars
    BY <1>3 DEF IdsDrawn, vars, tables, queues, Live
<1>4. ASSUME NEW i \in Ids, NEW p \in Paths, NEW v \in Visibility,
             NEW from \in Sources, CreateRepository(i, p, v, from)
      PROVE  IdsDrawn'
    <2>1. UNCHANGED <<index, repos, search>>
        BY <1>4 DEF CreateRepository, queues
    <2>2. /\ used' = used \cup {i}
          /\ \A j \in Ids \ {i} : repo'[j] = repo[j]
        BY <1>4, CreateRow
    <2>3. \A t \in Range(due') : t \in Range(due) \/ t.id = i
        <3>1. from = None => due' = due
            BY <1>4, CreateQueues
        <3>2. from # None =>
                 \E c \in Task : c.id = i /\ Range(due') = Range(due) \cup {c}
            BY <1>4, CreateQueues
        <3> QED
            BY <3>1, <3>2
    <2>4. Range(repos') = Range(repos) /\ Range(search') = Range(search)
        BY <2>1
    <2> QED
        BY <2>1, <2>2, <2>3, <2>4 DEF IdsDrawn, Live
<1>5. ASSUME NEW i \in Ids, NEW p \in Paths, NEW v \in Visibility,
             UpdateRepository(i, p, v)
      PROVE  IdsDrawn'
    <2>1. UNCHANGED <<used, index>> /\ NewCalls
        BY <1>5, RequestCalls DEF UpdateRepository, Change, Request
    <2>2. Live(i) /\ \A j \in Ids \ {i} : repo'[j] = repo[j]
        BY <1>5, UpdateTables
    <2>3. PICK c \in Task : c.id = i /\ Range(due') = Range(due) \cup {c}
        BY <1>5, UpdateQueues
    <2>4. \A j \in Ids : Live(j)' => Live(j)
        BY <2>2 DEF Live
    <2> QED
        BY <1>1, <1>2, <2>1, <2>2, <2>3, <2>4
<1>6. ASSUME NEW i \in Ids, DeleteRepository(i)
      PROVE  IdsDrawn'
    <2>1. UNCHANGED <<used, index>> /\ NewCalls
        BY <1>6, RequestCalls DEF DeleteRepository, Change, Request
    <2>2. Live(i) /\ repo'[i] = None /\ \A j \in Ids \ {i} : repo'[j] = repo[j]
        BY <1>6, DeleteTables
    <2>3. PICK c \in Task : c.id = i /\ Range(due') = Range(due) \cup {c}
        BY <1>6, DeleteTables
    <2>4. \A j \in Ids : Live(j)' => Live(j)
        BY <2>2 DEF Live
    <2> QED
        BY <1>1, <1>2, <2>1, <2>2, <2>3, <2>4
<1>7. ASSUME NEW i \in Ids, DeliverGitEvent(i)
      PROVE  IdsDrawn'
    <2>1. UNCHANGED <<used, index, repo>> /\ NewCalls
        BY <1>7, RequestCalls DEF DeliverGitEvent, Change, Request
    <2>2. Live(i)
        BY <1>7, EventQueues
    <2>3. PICK c \in Task : c.id = i /\ Range(due') = Range(due) \cup {c}
        BY <1>7, EventQueues
    <2>4. \A j \in Ids : Live(j)' => Live(j)
        BY <2>1 DEF Live
    <2> QED
        BY <1>1, <1>2, <2>1, <2>2, <2>3, <2>4
<1>8. ASSUME UNCHANGED <<used, index>>, \A i \in Ids : Live(i)' => Live(i),
             \A t \in Range(due') \cup Range(repos') \cup Range(search') :
                \E s \in Range(due) \cup Range(repos) \cup Range(search) : s.id = t.id
      PROVE  IdsDrawn'
    BY <1>8, NothingDrawn
<1>9. ASSUME NEW u \in Users, DeleteUser(u)
      PROVE  IdsDrawn'
    BY <1>9 DEF IdsDrawn, DeleteUser, tables, Live
<1>10. ASSUME NEW n \in DOMAIN due, Clone(n) \/ Index(n) \/ Delete(n)
       PROVE  IdsDrawn'
    <2>1. /\ UNCHANGED <<used, index, repo>> /\ due' = RemoveAt(due, n)
          /\ repos' \in {repos, Append(repos, due[n])}
          /\ search' \in {search, Append(search, due[n])}
        BY <1>10 DEF Clone, Index, Delete, tables
    <2>2. /\ due[n] \in Task /\ due[n] \in Range(due)
          /\ Range(due') \subseteq Range(due)
        BY <2>1, DueLosesOne
    <2>3. /\ Range(Append(repos, due[n])) = Range(repos) \cup {due[n]}
          /\ Range(Append(search, due[n])) = Range(search) \cup {due[n]}
        BY <2>2, RangeOfAppend DEF TypeOK
    <2>4. /\ Range(repos') \subseteq Range(repos) \cup {due[n]}
          /\ Range(search') \subseteq Range(search) \cup {due[n]}
        BY <2>1, <2>3
    <2>5. \A i \in Ids : Live(i)' => Live(i)
        BY <2>1 DEF Live
    <2> QED
        BY <1>8, <2>1, <2>2, <2>4, <2>5
<1>11. CASE CloneStep
    <2>1. /\ UNCHANGED <<due, search, index, used>>
          /\ Head(repos) \in Range(repos)
          /\ \A t \in Range(repos') \ Range(repos) : t.id = Head(repos).id
          /\ CloneDone \/ UNCHANGED repo
        BY <1>11, CloneGoesOn
    <2>2. \A t \in Range(repos') : \E s \in Range(repos) : s.id = t.id
        BY <2>1
    <2>3. \A i \in Ids : Live(i)' => Live(i)
        BY <2>1, DoneWrites DEF Live
    <2>4. Range(due') = Range(due) /\ Range(search') = Range(search)
        BY <2>1
    <2> QED
        BY <1>8, <2>1, <2>2, <2>3, <2>4
<1>12. CASE IndexRun \/ PurgeRun
    <2>1. UNCHANGED <<used, repo, due, repos>>
        BY <1>12 DEF IndexRun, PurgeRun, Searched, tables
    <2>2. /\ search # <<>> /\ search' = Tail(search) /\ Head(search) \in Task
          /\ \A i \in Ids \ {Head(search).id} : index'[i] = index[i]
        BY <1>12, IndexWrites, PurgeWrites
    <2>3. Head(search) \in Range(search) /\ Range(search') \subseteq Range(search)
        BY <2>2, HeadLeaves DEF TypeOK
    <2>4. Head(search).id \in used
        BY <2>2, <2>3 DEF IdsDrawn, Task
    <2>5. \A i \in Ids : Live(i)' => Live(i)
        BY <2>1 DEF Live
    <2>6. Range(due') = Range(due) /\ Range(repos') = Range(repos)
        BY <2>1
    <2> QED
        BY <2>1, <2>2, <2>3, <2>4, <2>5, <2>6, NothingDrawn
<1>13. CASE AccountStep
    <2>1. UNCHANGED <<used, index, due, repos, search>>
        BY <1>13 DEF AccountStep, AccountFails, AccountFiles, AccountRows,
                     AccountRowsFail, tables
    <2>2. \A i \in Ids : Live(i)' => Live(i)
        <3>1. CASE AccountFails \/ AccountFiles \/ AccountRowsFail
            BY <3>1 DEF AccountFails, AccountFiles, AccountRowsFail, tables, Live
        <3>2. CASE AccountRows
            BY <3>2, RowsGo DEF Live
        <3> QED
            BY <1>13, <3>1, <3>2 DEF AccountStep
    <2>3. /\ Range(due') = Range(due) /\ Range(repos') = Range(repos)
          /\ Range(search') = Range(search)
        BY <2>1
    <2> QED
        BY <1>8, <2>1, <2>2, <2>3
<1>14. CASE Crash
    <2>1. /\ due' = <<>> /\ repos' = <<>> /\ search' = <<>>
          /\ UNCHANGED <<used, repo, index>>
        BY <1>14 DEF Crash, tables
    <2>2. Range(due') = {} /\ Range(repos') = {} /\ Range(search') = {}
        BY <2>1 DEF Range
    <2>3. \A i \in Ids : Live(i)' => Live(i)
        BY <2>1 DEF Live
    <2> QED
        BY <1>8, <2>1, <2>2, <2>3
<1>15. ASSUME NEW i \in Ids, NEW p \in Paths \cup {None}, Strand(i, p)
       PROVE  IdsDrawn'
    <2>1. UNCHANGED <<used, index, repo, due>> /\ NewCalls
        BY <1>15, StrandWrites, RequestCalls DEF Request
    <2>2. \A j \in Ids : Live(j)' => Live(j)
        BY <2>1 DEF Live
    <2> QED
        BY <1>1, <2>1, <2>2
<1> QED
    BY <1>3, <1>4, <1>5, <1>6, <1>7, <1>9, <1>10, <1>11, <1>12, <1>13, <1>14, <1>15
       DEF Next, Request, Enqueue, Worker

\* An import from a place leads to what is wanted.
Leads(from, w) ==
    \/ from = Remote /\ w = Remote
    \/ w \in Ids /\ Live(w) /\ repo[w].path = from

Has(p, w) == disk[p] = None \/ disk[p].got = w

\* Of a repository that has not moved, nor its source: its imports, and no
\* others, have its path and lead to what was wanted, and what they have
\* fetched is that.
ImportRight(i) ==
    /\ \A t \in Range(due) \cup Range(repos) : t.job = "clone" =>
          /\ t.path = repo[i].path => t.id = i
          /\ t.id = i => /\ t.path = repo[i].path /\ Leads(t.from, wanted[i])
                         /\ t.step \in {"head", "good"} => Has(t.path, wanted[i])
    /\ repo[i].clone = "COMPLETE" => Has(repo[i].path, wanted[i])

ImportInv == \A i \in Ids \ moved : Live(i) => ImportRight(i)

\* Those whose directory a failed mutation took away count as moved, and so do
\* those they are a source of; of their index nothing is said.
StrandedOut ==
    /\ stranded \subseteq off \cap moved
    /\ \A i \in Ids \ moved : wanted[i] \notin stranded

\* What a step leaves to an import as it was.
Undisturbed(i) ==
    /\ Live(i) /\ repo'[i].path = repo[i].path
    /\ wanted'[i] = wanted[i]
    /\ wanted[i] \in Ids /\ Live(wanted[i]) =>
          Live(wanted[i])' /\ repo'[wanted[i]].path = repo[wanted[i]].path

LEMMA ImportStays ==
    ASSUME NEW i \in Ids, ImportRight(i), Undisturbed(i),
           repo'[i].clone = repo[i].clone,
           Has(repo[i].path, wanted[i]) => Has(repo[i].path, wanted[i])',
           \A t \in Range(due') \cup Range(repos') : t.job = "clone" =>
              \E s \in Range(due) \cup Range(repos) :
                 /\ s.job = "clone" /\ s.id = t.id
                 /\ s.path = t.path /\ s.from = t.from
                 /\ t.step \in {"head", "good"} => s.step \in {"head", "good"}
    PROVE  ImportRight(i)'
<1>1. \A p : p = repo[i].path /\ Has(p, wanted[i]) => Has(p, wanted[i])'
    BY DEF Has, Undisturbed
<1>2. \A from : Leads(from, wanted[i]) => Leads(from, wanted[i])'
    BY DEF Leads, Undisturbed
<1>3. ASSUME NEW t \in Range(due') \cup Range(repos'), t.job = "clone"
      PROVE  /\ t.path = repo'[i].path => t.id = i
             /\ t.id = i => /\ t.path = repo'[i].path /\ Leads(t.from, wanted[i])'
                            /\ t.step \in {"head", "good"} => Has(t.path, wanted[i])'
    <2>1. PICK s \in Range(due) \cup Range(repos) :
                 /\ s.job = "clone" /\ s.id = t.id
                 /\ s.path = t.path /\ s.from = t.from
                 /\ t.step \in {"head", "good"} => s.step \in {"head", "good"}
        BY <1>3
    <2>2. /\ s.path = repo[i].path => s.id = i
          /\ s.id = i => /\ s.path = repo[i].path /\ Leads(s.from, wanted[i])
                         /\ s.step \in {"head", "good"} => Has(s.path, wanted[i])
        BY <2>1 DEF ImportRight
    <2> QED
        BY <1>1, <1>2, <2>1, <2>2 DEF Undisturbed
<1>4. repo'[i].clone = "COMPLETE" => Has(repo[i].path, wanted[i])'
    BY DEF ImportRight, Has, Undisturbed
<1> QED
    BY <1>3, <1>4 DEF ImportRight, Undisturbed, Leads, Has

LEMMA CreateKeepsImports ==
    ASSUME TypeOK, IdsDrawn, ImportInv,
           NEW i \in Ids, NEW p \in Paths, NEW v \in Visibility,
           NEW from \in Sources, CreateRepository(i, p, v, from)
    PROVE  ImportInv'
<1>0. /\ \A j \in Ids : Live(j) => repo[j].path # p
      /\ disk'[p] # None
      /\ \A q \in Paths \ {p} : disk'[q] = disk[q]
    BY CreateDirectory
<1>1. /\ repos' = repos
      /\ moved' = moved \cup Disturbed(i, p)
                       \cup (IF wanted'[i] \in stranded THEN {i} ELSE {})
    BY CreateMoves DEF CreateRepository, queues
<1>2. /\ i \notin used /\ Live(i)' /\ repo'[i].path = p
      /\ repo'[i].clone # "COMPLETE"
      /\ \A j \in Ids \ {i} : repo'[j] = repo[j]
    BY CreateRow
<1>3. ~Live(i) /\ \A t \in Range(due) \cup Range(repos) : t.id # i
    BY <1>0, <1>2 DEF IdsDrawn
<1>4. /\ \A j \in Ids \ {i} : wanted'[j] = wanted[j]
      /\ from \notin Paths => wanted'[i] = from
      /\ from \in Paths => /\ wanted'[i] \in Ids /\ Live(wanted'[i])
                           /\ repo[wanted'[i]].path = from
    BY CreateQueues
<1>5. \A t \in Range(due') \cup Range(repos') :
         \/ t \in Range(due) \cup Range(repos)
         \/ /\ t.id = i /\ t.path = p /\ t.from = from /\ from # None
            /\ t.step = "ask"
    <2>1. from = None => due' = due
        BY CreateQueues
    <2>2. from # None => \E c \in Task : /\ c.id = i /\ c.path = p /\ c.from = from
                                        /\ c.step = "ask"
                                        /\ Range(due') = Range(due) \cup {c}
        BY CreateQueues
    <2>3. Range(repos') = Range(repos)
        BY <1>1
    <2> QED
        BY <2>1, <2>2, <2>3
<1>6. ASSUME NEW j \in Ids \ moved', Live(j)', j # i
      PROVE  ImportRight(j)'
    <2>1. Live(j) /\ ImportRight(j) /\ repo'[j] = repo[j] /\ wanted'[j] = wanted[j]
        BY <1>0, <1>1, <1>2, <1>4, <1>6 DEF Live, ImportInv
    <2>2. repo[j].path \in Paths \ {p}
        BY <1>0, <1>2, <2>1 DEF TypeOK, Live, Row
    <2>3. \A w \in Ids : Live(w) => Live(w)' /\ repo'[w] = repo[w]
        BY <1>0, <1>2, <1>3 DEF Live
    <2>4. \A s : Leads(s, wanted[j]) => Leads(s, wanted[j])'
        BY <2>1, <2>3 DEF Leads
    <2>5. Has(repo[j].path, wanted[j]) => Has(repo[j].path, wanted[j])'
        BY <1>0, <1>2, <2>1, <2>2 DEF Has
    <2>6. \A q : q = repo[j].path /\ Has(q, wanted[j]) => Has(q, wanted[j])'
        BY <1>0, <1>2, <2>1, <2>2 DEF Has
    <2>7. ASSUME NEW t \in Range(due') \cup Range(repos'), t.job = "clone"
          PROVE  /\ t.path = repo'[j].path => t.id = j
                 /\ t.id = j => /\ t.path = repo'[j].path /\ Leads(t.from, wanted[j])'
                                /\ t.step \in {"head", "good"} => Has(t.path, wanted[j])'
        <3>1. CASE t \in Range(due) \cup Range(repos)
            BY <2>1, <2>4, <2>6, <2>7, <3>1 DEF ImportRight
        <3>2. CASE t.id = i /\ t.path = p
            BY <1>6, <2>1, <2>2, <3>2
        <3> QED
            BY <1>5, <3>1, <3>2
    <2>8. repo'[j].clone = "COMPLETE" => Has(repo[j].path, wanted[j])'
        BY <2>1, <2>5 DEF ImportRight
    <2> QED
        BY <2>7, <2>8 DEF ImportRight
<1>7. ASSUME i \notin moved'
      PROVE  ImportRight(i)'
    <2>1. Expected(p) \subseteq {i}
        BY <1>1, <1>7 DEF Disturbed
    <2>2. \A t \in Range(due) \cup Range(repos) : t.job = "clone" => t.path # p
        BY <1>3, <2>1 DEF Expected
    <2>3. from # None => Leads(from, wanted[i])'
        <3>1. CASE from \in Paths
            <4>1. wanted'[i] # i
                BY <1>3, <1>4, <3>1
            <4>2. repo'[wanted'[i]] = repo[wanted'[i]]
                BY <1>0, <1>2, <1>4, <3>1, <4>1
            <4> QED
                BY <1>4, <3>1, <4>2 DEF Leads, Live
        <3>2. CASE from \notin Paths /\ from # None
            <4>1. from = Remote
                BY <3>2 DEF Sources
            <4> QED
                BY <1>4, <3>2, <4>1 DEF Leads
        <3> QED
            BY <3>1, <3>2
    <2>4. \A t \in Range(due') \cup Range(repos') : t.job = "clone" =>
            /\ t.path = repo'[i].path => t.id = i
            /\ t.id = i => /\ t.path = repo'[i].path /\ Leads(t.from, wanted[i])'
                           /\ t.step \in {"head", "good"} => Has(t.path, wanted[i])'
        BY <1>0, <1>2, <1>3, <1>5, <2>2, <2>3
    <2>5. repo'[i].clone # "COMPLETE"
        BY <1>0, <1>2
    <2> QED
        BY <2>4, <2>5 DEF ImportRight
<1> QED
    BY <1>6, <1>7 DEF ImportInv

LEMMA UpdateKeepsImports ==
    ASSUME TypeOK, DiskInv, ImportInv,
           NEW i \in Ids, NEW p \in Paths, NEW v \in Visibility,
           UpdateRepository(i, p, v)
    PROVE  ImportInv'
<1> DEFINE q == repo[i].path
<1>1. /\ repos' = repos /\ wanted' = wanted
      /\ moved' = moved \cup (IF p = q THEN {} ELSE Strayed(i) \cup Disturbed(i, p))
    BY DEF UpdateRepository, Change, queues
<1>2. /\ Live(i) /\ q \in Paths
      /\ p # q => \A j \in Ids : Live(j) => repo[j].path # p
      /\ Live(i)' /\ repo'[i].path = p /\ repo'[i].clone = repo[i].clone
      /\ \A j \in Ids \ {i} : repo'[j] = repo[j]
      /\ disk'[p] = disk[q]
      /\ \A r \in Paths \ {p, q} : disk'[r] = disk[r]
    BY UpdateTables
<1> HIDE DEF q
<1>3. \A t \in Range(due') \cup Range(repos') : t.job = "clone" =>
         t \in Range(due) \cup Range(repos)
    <2>1. \E c \in Task : c.job = "index" /\ Range(due') = Range(due) \cup {c}
        BY UpdateQueues
    <2>2. Range(repos') = Range(repos)
        BY <1>1
    <2> QED
        BY <2>1, <2>2
<1> SUFFICES ASSUME NEW j \in Ids \ moved', Live(j)'
             PROVE  ImportRight(j)'
    BY DEF ImportInv
<1>4. Live(j) /\ ImportRight(j) /\ repo'[j].clone = repo[j].clone
    BY <1>1, <1>2 DEF ImportInv, Live
<1>5. p # q => j # i /\ wanted[j] # i
    BY <1>1 DEF Strayed
<1>6. /\ repo'[j].path = repo[j].path
      /\ wanted[j] \in Ids /\ Live(wanted[j]) =>
            Live(wanted[j])' /\ repo'[wanted[j]].path = repo[wanted[j]].path
    BY <1>1, <1>2, <1>5 DEF Live, q
<1>7. disk'[repo[j].path] = disk[repo[j].path]
    <2>1. repo[j].path \in Paths
        BY <1>4 DEF TypeOK, Live, Row
    <2>2. CASE p = q
        BY <1>2, <2>1, <2>2
    <2>3. CASE p # q
        <3>1. repo[j].path # q
            BY <1>2, <1>4, <1>5, <2>3 DEF DiskInv, PathsUnique, q
        <3> QED
            BY <1>2, <1>4, <2>1, <2>3, <3>1
    <2> QED
        BY <2>2, <2>3
<1>8. Undisturbed(j)
    BY <1>1, <1>4, <1>6 DEF Undisturbed
<1>9. Has(repo[j].path, wanted[j]) => Has(repo[j].path, wanted[j])'
    BY <1>1, <1>6, <1>7 DEF Has
<1> QED
    BY <1>3, <1>4, <1>8, <1>9, ImportStays

LEMMA DeleteKeepsImports ==
    ASSUME TypeOK, DiskInv, ImportInv, NEW i \in Ids, DeleteRepository(i)
    PROVE  ImportInv'
<1>1. wanted' = wanted /\ moved' = moved \cup Strayed(i)
    BY DEF DeleteRepository, Change
<1>2. /\ Live(i) /\ repo[i].path \in Paths
      /\ \A j \in Ids \ {i} : repo'[j] = repo[j]
      /\ \A r \in Paths \ {repo[i].path} : disk'[r] = disk[r]
    BY DeleteTables
<1>3. \A t \in Range(due') \cup Range(repos') : t.job = "clone" =>
         t \in Range(due) \cup Range(repos)
    <2>1. \E c \in Task : c.job = "purge" /\ Range(due') = Range(due) \cup {c}
        BY DeleteTables
    <2>2. \A t \in Range(repos') \ Range(repos) : t.job = "objects"
        BY RequestCalls DEF Request, NewCalls
    <2> QED
        BY <2>1, <2>2
<1> SUFFICES ASSUME NEW j \in Ids \ moved', Live(j)'
             PROVE  ImportRight(j)'
    BY DEF ImportInv
<1>4. j # i /\ wanted[j] # i
    BY <1>1 DEF Strayed
<1>5. Live(j) /\ ImportRight(j) /\ repo'[j] = repo[j]
    BY <1>1, <1>2, <1>4 DEF ImportInv, Live
<1>6. disk'[repo[j].path] = disk[repo[j].path]
    <2>1. repo[j].path \in Paths
        BY <1>5 DEF TypeOK, Live, Row
    <2>2. repo[j].path # repo[i].path
        BY <1>2, <1>4, <1>5 DEF DiskInv, PathsUnique
    <2> QED
        BY <1>2, <2>1, <2>2
<1>7. Undisturbed(j)
    BY <1>1, <1>2, <1>4, <1>5 DEF Undisturbed, Live
<1>8. Has(repo[j].path, wanted[j]) => Has(repo[j].path, wanted[j])'
    BY <1>1, <1>5, <1>6 DEF Has
<1> QED
    BY <1>3, <1>5, <1>7, <1>8, ImportStays

\* A failed mutation disturbs only those whose directory it takes, those at whose
\* path it puts it, and their readers.
LEMMA StrandKeepsImports ==
    ASSUME TypeOK, DiskInv, ImportInv,
           NEW i \in Ids, NEW p \in Paths \cup {None}, Strand(i, p)
    PROVE  ImportInv'
<1>1. /\ UNCHANGED <<repo, wanted, due>> /\ moved \subseteq moved'
      /\ \A j \in {i} \cup At(p) : Strayed(j) \subseteq moved'
      /\ \A t \in Range(repos') \ Range(repos) : t.job = "objects"
    BY StrandWrites
<1>2. /\ Live(i) /\ \A r \in Paths \ {p, repo[i].path} : disk'[r] = disk[r]
    BY StrandWrites
<1> SUFFICES ASSUME NEW j \in Ids \ moved', Live(j)'
             PROVE  ImportRight(j)'
    BY DEF ImportInv
<1>3. Live(j) /\ ImportRight(j) /\ repo'[j] = repo[j]
    BY <1>1 DEF ImportInv, Live
<1>4. disk'[repo[j].path] = disk[repo[j].path]
    <2>1. repo[j].path \in Paths
        BY <1>3 DEF TypeOK, Live, Row
    <2>2. j \notin {i} \cup At(p)
        BY <1>1 DEF Strayed
    <2>3. repo[j].path # repo[i].path
        BY <1>2, <1>3, <2>2 DEF DiskInv, PathsUnique
    <2>4. repo[j].path # p
        BY <1>3, <2>2 DEF At
    <2> QED
        BY <1>2, <2>1, <2>3, <2>4
<1>5. Undisturbed(j)
    BY <1>1, <1>3 DEF Undisturbed, Live
<1>6. Has(repo[j].path, wanted[j]) => Has(repo[j].path, wanted[j])'
    BY <1>1, <1>3, <1>4 DEF Has
<1>7. \A t \in Range(due') \cup Range(repos') : t.job = "clone" =>
         t \in Range(due) \cup Range(repos)
    BY <1>1
<1> QED
    BY <1>3, <1>5, <1>6, <1>7, ImportStays

\* A fetch brings what was wanted to those that have not moved.
LEMMA FetchKeepsImports ==
    ASSUME TypeOK, Jobs, DiskInv, StrandedOut, ImportInv, CloneFetch
    PROVE  ImportInv'
<1> DEFINE t == Head(repos)
<1>1. UNCHANGED <<repo, wanted, moved>> /\ due' = due
    BY DEF CloneFetch, Cloning, tables, history
<1>2. /\ repos # <<>> /\ t \in Task /\ t.step = "fetch"
      /\ \A p \in Paths : (disk'[p] = None) <=> (disk[p] = None)
      /\ \A p \in Paths \ {t.path} : disk'[p] = disk[p]
      /\ \/ Then("bad") /\ disk' = disk
         \/ /\ Then("head") /\ disk[t.path] # None
            /\ \E c \in Offer(t.from) : c # None /\ disk'[t.path].got = c
    BY FetchWrites
<1>3. t \in Range(repos) /\ t.job = "clone"
    BY <1>2, HeadLeaves DEF TypeOK, Jobs
<1> SUFFICES ASSUME NEW i \in Ids \ moved, Live(i)
             PROVE  ImportRight(i)'
    BY <1>1 DEF ImportInv, Live
<1>4. ImportRight(i) /\ repo[i].path \in Paths
    BY DEF ImportInv, TypeOK, Live, Row
<1>5. Undisturbed(i) /\ repo'[i] = repo[i]
    BY <1>1 DEF Undisturbed, Live
<1>6. CASE Then("bad") /\ disk' = disk
    <2>1. PICK e : /\ e.job = t.job /\ e.id = t.id /\ e.path = t.path
                   /\ e.from = t.from /\ e.step = "bad"
                   /\ Range(repos') \subseteq Range(repos) \cup {e}
        BY <1>2, <1>6, ThenGoesOn
    <2>2. Has(repo[i].path, wanted[i]) => Has(repo[i].path, wanted[i])'
        BY <1>1, <1>6 DEF Has
    <2>3. \A s \in Range(due') \cup Range(repos') :
             s \in Range(due) \cup Range(repos) \/ s = e
        BY <1>1, <2>1
    <2> QED
        BY <1>3, <1>4, <1>5, <2>1, <2>2, <2>3, ImportStays
<1>7. CASE /\ Then("head") /\ disk[t.path] # None
           /\ \E c \in Offer(t.from) : c # None /\ disk'[t.path].got = c
    <2>1. PICK e : /\ e.job = t.job /\ e.id = t.id /\ e.path = t.path
                   /\ e.from = t.from /\ e.step = "head"
                   /\ Range(repos') \subseteq Range(repos) \cup {e}
        BY <1>2, <1>7, ThenGoesOn
    <2>2. \A s \in Range(due') \cup Range(repos') :
             s \in Range(due) \cup Range(repos) \/ s = e
        BY <1>1, <2>1
    <2>3. PICK c \in Offer(t.from) : c # None /\ disk'[t.path].got = c
        BY <1>7
    <2>4. CASE t.id = i
        <3>1. t.path = repo[i].path /\ Leads(t.from, wanted[i])
            BY <1>3, <1>4, <2>4 DEF ImportRight
        <3>2. c = wanted[i]
            <4>1. CASE t.from = Remote /\ wanted[i] = Remote
                BY <2>3, <4>1 DEF Offer
            <4>2. CASE /\ wanted[i] \in Ids /\ Live(wanted[i])
                       /\ repo[wanted[i]].path = t.from
                <5>1. t.from \in Paths /\ t.from # Remote
                    BY <4>2, NoneAssumption DEF TypeOK, Live, Row
                <5>2. disk[t.from] # None /\ c = disk[t.from].repo
                    BY <2>3, <5>1 DEF Offer
                <5> QED
                    BY <4>2, <5>2 DEF DiskInv, OwnDisk, StrandedOut
            <4> QED
                BY <3>1, <4>1, <4>2 DEF Leads
        <3>3. disk'[repo[i].path].got = wanted[i]
            BY <2>3, <3>1, <3>2
        <3>4. /\ e.path = repo[i].path /\ Leads(e.from, wanted[i])
            BY <2>1, <3>1
        <3>5. \A from : Leads(from, wanted[i]) => Leads(from, wanted[i])'
            BY <1>1 DEF Leads, Live
        <3>6. Has(repo[i].path, wanted[i])'
            BY <1>1, <3>3 DEF Has
        <3>7. ASSUME NEW s \in Range(due') \cup Range(repos'), s.job = "clone"
              PROVE  /\ s.path = repo[i].path => s.id = i
                     /\ s.id = i => /\ s.path = repo[i].path
                                    /\ Leads(s.from, wanted[i])
            BY <1>4, <2>1, <2>2, <2>4, <3>4, <3>7 DEF ImportRight
        <3>8. \A q : q = repo[i].path => Has(q, wanted[i])'
            BY <1>1, <3>3 DEF Has
        <3> QED
            BY <1>5, <3>5, <3>6, <3>7, <3>8 DEF ImportRight
    <2>5. CASE t.id # i
        <3>1. t.path # repo[i].path
            BY <1>3, <1>4, <2>5 DEF ImportRight
        <3>2. disk'[repo[i].path] = disk[repo[i].path]
            BY <1>2, <1>4, <3>1
        <3>3. \A q : q = repo[i].path /\ Has(q, wanted[i]) => Has(q, wanted[i])'
            BY <1>1, <3>2 DEF Has
        <3>4. \A from : Leads(from, wanted[i]) => Leads(from, wanted[i])'
            BY <1>1 DEF Leads, Live
        <3>5. ASSUME NEW s \in Range(due') \cup Range(repos'), s.job = "clone"
              PROVE  /\ s.path = repo[i].path => s.id = i
                     /\ s.id = i =>
                          /\ s.path = repo[i].path /\ Leads(s.from, wanted[i])'
                          /\ s.step \in {"head", "good"} => Has(s.path, wanted[i])'
            <4>1. CASE s \in Range(due) \cup Range(repos)
                BY <1>4, <3>3, <3>4, <3>5, <4>1 DEF ImportRight
            <4>2. CASE s = e
                BY <2>1, <2>5, <3>1, <4>2
            <4> QED
                BY <2>2, <4>1, <4>2
        <3>6. repo[i].clone = "COMPLETE" => Has(repo[i].path, wanted[i])'
            BY <1>1, <1>4, <3>2 DEF ImportRight, Has
        <3> QED
            BY <1>5, <3>5, <3>6 DEF ImportRight
    <2> QED
        BY <2>4, <2>5
<1> QED
    BY <1>2, <1>6, <1>7

\* The end of an import makes a row COMPLETE only after a fetch.
LEMMA DoneKeepsImports ==
    ASSUME TypeOK, Jobs, ImportInv, CloneDone
    PROVE  ImportInv'
<1> DEFINE t == Head(repos)
<1>1. UNCHANGED <<disk, wanted, moved>> /\ due' = due
    BY DEF CloneDone, history
<1>2. /\ repos # <<>> /\ t \in Task /\ t.step \in {"good", "bad"}
      /\ repos' = Tail(repos)
      /\ \A i \in Ids : /\ Live(i)' <=> Live(i)
                        /\ Live(i) => repo'[i].path = repo[i].path
      /\ \A i \in Ids \ {t.id} : repo'[i] = repo[i]
      /\ Live(t.id) =>
            repo'[t.id].clone = (IF t.step = "good" THEN "COMPLETE" ELSE "ERROR")
    BY DoneWrites
<1>3. /\ t \in Range(repos) /\ t.job = "clone"
      /\ Range(repos') \subseteq Range(repos)
    BY <1>2, HeadLeaves DEF TypeOK, Jobs
<1> HIDE DEF t
<1> SUFFICES ASSUME NEW i \in Ids \ moved, Live(i)
             PROVE  ImportRight(i)'
    BY <1>1, <1>2 DEF ImportInv
<1>4. ImportRight(i)
    BY DEF ImportInv
<1>5. \A w : w = wanted[i] /\ w \in Ids /\ Live(w) =>
         Live(w)' /\ repo'[w].path = repo[w].path
    BY <1>2
<1>6. repo'[i].path = repo[i].path
    BY <1>2
<1>7. \A q : Has(q, wanted[i]) => Has(q, wanted[i])'
    BY <1>1 DEF Has
<1>8. \A from : Leads(from, wanted[i]) => Leads(from, wanted[i])'
    BY <1>1, <1>5 DEF Leads, Live
<1>9. \A s \in Range(due') \cup Range(repos') : s \in Range(due) \cup Range(repos)
    BY <1>1, <1>3
<1>10. \A s \in Range(due') \cup Range(repos') : s.job = "clone" =>
          /\ s.path = repo'[i].path => s.id = i
          /\ s.id = i => /\ s.path = repo'[i].path /\ Leads(s.from, wanted[i])'
                         /\ s.step \in {"head", "good"} => Has(s.path, wanted[i])'
    BY <1>4, <1>6, <1>7, <1>8, <1>9 DEF ImportRight
<1>11. repo'[i].clone = "COMPLETE" => Has(repo[i].path, wanted[i])
    BY <1>2, <1>3, <1>4 DEF ImportRight
<1> QED
    BY <1>1, <1>6, <1>7, <1>10, <1>11 DEF ImportRight, Has

\* The removal of the rows of a user, those rows and what they were a source of.
LEMMA RowsKeepImports ==
    ASSUME TypeOK, ImportInv, AccountRows
    PROVE  ImportInv'
<1> DEFINE gone == Theirs(Head(account).user)
<1>1. /\ UNCHANGED <<disk, wanted>> /\ due' = due /\ repos' = repos
      /\ moved' = moved \cup UNION {Strayed(i) : i \in gone}
    BY DEF AccountRows
<1>2. /\ \A i \in gone : repo'[i] = None
      /\ \A i \in Ids \ gone : repo'[i] = repo[i]
    BY RowsGo DEF Theirs
<1> HIDE DEF gone
<1> SUFFICES ASSUME NEW i \in Ids \ moved', Live(i)'
             PROVE  ImportRight(i)'
    BY DEF ImportInv
<1>3. i \notin gone /\ wanted[i] \notin gone
    BY <1>1 DEF Strayed
<1>4. Live(i) /\ ImportRight(i) /\ repo'[i] = repo[i]
    BY <1>1, <1>2, <1>3 DEF ImportInv, Live
<1>5. Undisturbed(i)
    BY <1>1, <1>2, <1>3, <1>4 DEF Undisturbed, Live
<1>6. Has(repo[i].path, wanted[i]) => Has(repo[i].path, wanted[i])'
    BY <1>1, <1>4 DEF Has
<1>7. Range(due') = Range(due) /\ Range(repos') = Range(repos)
    BY <1>1
<1> QED
    BY <1>4, <1>5, <1>6, <1>7, ImportStays

LEMMA ImportsKeep ==
    ASSUME TypeOK, Jobs, DiskInv, IdsDrawn, StrandedOut, ImportInv, [Next]_vars
    PROVE  ImportInv'
<1>1. ASSUME UNCHANGED <<repo, wanted>>, moved \subseteq moved',
             \A p \in Paths : disk'[p] \in {disk[p], None},
             \A t \in Range(due') \cup Range(repos') : t.job = "clone" =>
                \E s \in Range(due) \cup Range(repos) :
                   /\ s.job = "clone" /\ s.id = t.id
                   /\ s.path = t.path /\ s.from = t.from
                   /\ t.step \in {"head", "good"} => s.step \in {"head", "good"}
      PROVE  ImportInv'
    <2> SUFFICES ASSUME NEW i \in Ids \ moved', Live(i)
                 PROVE  ImportRight(i)'
        BY <1>1 DEF ImportInv, Live
    <2>1. ImportRight(i) /\ repo[i].path \in Paths
        BY <1>1 DEF ImportInv, TypeOK, Live, Row
    <2>2. Undisturbed(i)
        BY <1>1 DEF Undisturbed, Live
    <2>3. Has(repo[i].path, wanted[i]) => Has(repo[i].path, wanted[i])'
        BY <1>1, <2>1 DEF Has
    <2> QED
        BY <1>1, <2>1, <2>2, <2>3, ImportStays
<1>2. CASE UNCHANGED vars
    <2>1. UNCHANGED <<repo, wanted, moved, disk>> /\ due' = due /\ repos' = repos
        BY <1>2 DEF vars, tables, queues, history
    <2>2. Range(due') = Range(due) /\ Range(repos') = Range(repos)
        BY <2>1
    <2> QED
        BY <1>1, <2>1, <2>2
<1>3. ASSUME NEW i \in Ids, DeliverGitEvent(i)
      PROVE  ImportInv'
    <2>1. UNCHANGED <<repo, wanted, moved, disk>> /\ repos' = repos
        BY <1>3 DEF DeliverGitEvent, Change
    <2>2. \E c \in Task : c.job = "index" /\ Range(due') = Range(due) \cup {c}
        BY <1>3, EventQueues
    <2>3. \A t \in Range(due') \cup Range(repos') : t.job = "clone" =>
             t \in Range(due) \cup Range(repos)
        BY <2>1, <2>2
    <2> QED
        BY <1>1, <2>1, <2>3
<1>4. ASSUME NEW u \in Users, DeleteUser(u)
      PROVE  ImportInv'
    <2>1. UNCHANGED <<repo, wanted, moved, disk>> /\ due' = due /\ repos' = repos
        BY <1>4 DEF DeleteUser, tables, history
    <2>2. Range(due') = Range(due) /\ Range(repos') = Range(repos)
        BY <2>1
    <2> QED
        BY <1>1, <2>1, <2>2
<1>5. ASSUME NEW n \in DOMAIN due, Clone(n) \/ Index(n) \/ Delete(n)
      PROVE  ImportInv'
    <2>1. /\ UNCHANGED <<repo, wanted, moved, disk>> /\ due' = RemoveAt(due, n)
          /\ repos' \in {repos, Append(repos, due[n])}
        BY <1>5 DEF Clone, Index, Delete, tables, history
    <2>2. /\ due[n] \in Task /\ due[n] \in Range(due)
          /\ Range(due') \subseteq Range(due)
        BY <2>1, DueLosesOne
    <2>3. Range(Append(repos, due[n])) = Range(repos) \cup {due[n]}
        BY <2>2, RangeOfAppend DEF TypeOK
    <2>4. Range(repos') \subseteq Range(repos) \cup {due[n]}
        BY <2>1, <2>3
    <2> QED
        BY <1>1, <2>1, <2>2, <2>4
<1>6. CASE CloneAsk
    <2>1. /\ repos # <<>> /\ UNCHANGED <<repo, wanted, moved, disk, due>>
          /\ \E step \in {"fetch", "bad"} : Then(step)
        BY <1>6 DEF CloneAsk, Importing, Cloning, tables, history
    <2>2. \E e \in Task : /\ e.job = Head(repos).job /\ e.id = Head(repos).id
                          /\ e.path = Head(repos).path /\ e.from = Head(repos).from
                          /\ e.step \in {"fetch", "bad"}
                          /\ Range(repos') \subseteq Range(repos) \cup {e}
        BY <2>1, ThenGoesOn
    <2>3. Head(repos) \in Range(repos)
        BY <2>1, HeadLeaves DEF TypeOK
    <2>4. Range(due') = Range(due)
        BY <2>1
    <2> QED
        BY <1>1, <2>1, <2>2, <2>3, <2>4
<1>7. CASE CloneHead
    <2>1. /\ repos # <<>> /\ UNCHANGED <<repo, wanted, moved, disk, due>>
          /\ Head(repos).step = "head"
          /\ \E step \in {"good", "bad"} : Then(step)
        BY <1>7 DEF CloneHead, Importing, Cloning, tables, history
    <2>2. \E e \in Task : /\ e.job = Head(repos).job /\ e.id = Head(repos).id
                          /\ e.path = Head(repos).path /\ e.from = Head(repos).from
                          /\ Range(repos') \subseteq Range(repos) \cup {e}
        BY <2>1, ThenGoesOn
    <2>3. Head(repos) \in Range(repos)
        BY <2>1, HeadLeaves DEF TypeOK
    <2>4. Range(due') = Range(due)
        BY <2>1
    <2> QED
        BY <1>1, <2>1, <2>2, <2>3, <2>4
<1>8. CASE IndexRun \/ PurgeRun
    <2>1. UNCHANGED <<repo, wanted, moved, disk>> /\ due' = due /\ repos' = repos
        BY <1>8 DEF IndexRun, PurgeRun, Searched, tables
    <2>2. Range(due') = Range(due) /\ Range(repos') = Range(repos)
        BY <2>1
    <2> QED
        BY <1>1, <2>1, <2>2
<1>9. CASE AccountFails \/ AccountFiles \/ AccountRowsFail
    <2>1. UNCHANGED <<repo, wanted>> /\ due' = due /\ repos' = repos
        BY <1>9 DEF AccountFails, AccountFiles, AccountRowsFail, tables, history
    <2>2. moved \subseteq moved' /\ \A p \in Paths : disk'[p] \in {disk[p], None}
        <3>1. CASE AccountFiles
            BY <3>1, FilesGo
        <3>2. CASE AccountFails \/ AccountRowsFail
            BY <3>2 DEF AccountFails, AccountRowsFail, history
        <3> QED
            BY <1>9, <3>1, <3>2
    <2>3. Range(due') = Range(due) /\ Range(repos') = Range(repos)
        BY <2>1
    <2> QED
        BY <1>1, <2>1, <2>2, <2>3
<1>10. CASE Crash
    <2>1. UNCHANGED <<repo, wanted, moved, disk>> /\ due' = <<>> /\ repos' = <<>>
        BY <1>10 DEF Crash, tables
    <2>2. Range(due') = {} /\ Range(repos') = {}
        BY <2>1 DEF Range
    <2> QED
        BY <1>1, <2>1, <2>2
<1>11. CASE ClonePanics \/ ObjectsGo
    <2>1. /\ UNCHANGED <<repo, wanted, moved, disk>> /\ due' = due
          /\ repos # <<>> /\ repos' = Tail(repos)
        BY <1>11 DEF ClonePanics, ObjectsGo, Importing, Cloning, tables, history
    <2>2. Range(due') = Range(due) /\ Range(repos') \subseteq Range(repos)
        BY <2>1, HeadLeaves DEF TypeOK
    <2> QED
        BY <1>1, <2>1, <2>2
<1>12. CASE CloneFetch \/ CloneDone
    BY <1>12, FetchKeepsImports, DoneKeepsImports
<1>13. CASE AccountRows
    BY <1>13, RowsKeepImports
<1>14. CASE Request
    BY <1>3, <1>4, <1>14, CreateKeepsImports, UpdateKeepsImports,
       DeleteKeepsImports, StrandKeepsImports DEF Request
<1> QED
    BY <1>2, <1>5, <1>6, <1>7, <1>8, <1>9, <1>10, <1>11, <1>12, <1>13, <1>14
       DEF Next, Enqueue, Worker, CloneStep, AccountStep

LEMMA StrandedKeeps ==
    ASSUME TypeOK, StrandedOut, [Next]_vars
    PROVE  StrandedOut'
<1>1. ASSUME UNCHANGED <<stranded, wanted>>, off \subseteq off', moved \subseteq moved'
      PROVE  StrandedOut'
    BY <1>1 DEF StrandedOut
<1>2. CASE UNCHANGED vars
    BY <1>1, <1>2 DEF vars, history
<1>3. ASSUME NEW i \in Ids, NEW p \in Paths, NEW v \in Visibility,
             NEW from \in Sources, CreateRepository(i, p, v, from)
      PROVE  StrandedOut'
    <2>1. UNCHANGED <<off, stranded>>
        BY <1>3 DEF CreateRepository
    <2>2. /\ \A j \in Ids \ {i} : wanted'[j] = wanted[j]
          /\ moved' = moved \cup Disturbed(i, p)
                           \cup (IF wanted'[i] \in stranded THEN {i} ELSE {})
        BY <1>3, CreateQueues, CreateMoves
    <2> QED
        BY <2>1, <2>2 DEF StrandedOut
<1>4. ASSUME NEW i \in Ids, NEW p \in Paths \cup {None}, Strand(i, p)
      PROVE  StrandedOut'
    <2>1. /\ stranded' = stranded \cup {i} \cup At(p) /\ off' = off \cup {i} \cup At(p)
          /\ moved \subseteq moved' /\ wanted' = wanted
          /\ \A j \in {i} \cup At(p) : Strayed(j) \subseteq moved'
        BY <1>4, StrandWrites
    <2>2. {i} \cup At(p) \subseteq moved'
        BY <2>1 DEF Strayed
    <2>3. ASSUME NEW j \in Ids \ moved'
          PROVE  wanted[j] \notin stranded'
        BY <2>1, <2>3 DEF StrandedOut, Strayed
    <2> QED
        BY <2>1, <2>2, <2>3 DEF StrandedOut
<1>5. CASE Request
    <2>1. ASSUME NEW i \in Ids, NEW p \in Paths, NEW v \in Visibility,
                 UpdateRepository(i, p, v)
          PROVE  StrandedOut'
        <3>1. UNCHANGED <<off, stranded, wanted>> /\ moved \subseteq moved'
            BY <2>1 DEF UpdateRepository, Change
        <3> QED
            BY <3>1 DEF StrandedOut
    <2>2. ASSUME NEW i \in Ids, DeleteRepository(i)
          PROVE  StrandedOut'
        <3>1. UNCHANGED <<off, stranded, wanted>> /\ moved \subseteq moved'
            BY <2>2 DEF DeleteRepository, Change
        <3> QED
            BY <3>1 DEF StrandedOut
    <2>3. ASSUME NEW i \in Ids, DeliverGitEvent(i)
          PROVE  StrandedOut'
        BY <2>3 DEF DeliverGitEvent, Change, StrandedOut
    <2>4. ASSUME NEW u \in Users, DeleteUser(u)
          PROVE  StrandedOut'
        BY <2>4 DEF DeleteUser, history, StrandedOut
    <2> QED
        BY <1>3, <1>4, <1>5, <2>1, <2>2, <2>3, <2>4 DEF Request
<1>6. CASE Enqueue
    BY <1>1, <1>6 DEF Enqueue, Clone, Index, Delete, history
<1>7. CASE CloneStep
    BY <1>1, <1>7 DEF CloneStep, CloneAsk, CloneFetch, CloneHead, CloneDone,
                      ClonePanics, ObjectsGo, Cloning, history
<1>8. CASE IndexRun \/ PurgeRun
    BY <1>1, <1>8, IndexWrites, PurgeWrites DEF IndexRun, PurgeRun, Searched
<1>9. CASE AccountStep
    <2>1. CASE AccountFiles
        BY <1>1, <2>1, FilesGo DEF AccountFiles
    <2>2. CASE AccountFails \/ AccountRows \/ AccountRowsFail
        BY <1>1, <2>2 DEF AccountFails, AccountRows, AccountRowsFail, history
    <2> QED
        BY <1>9, <2>1, <2>2 DEF AccountStep
<1>10. CASE Crash
    BY <1>1, <1>10 DEF Crash
<1> QED
    BY <1>2, <1>5, <1>6, <1>7, <1>8, <1>9, <1>10 DEF Next, Worker

-----------------------------------------------------------------------------
(* The index and what is still to be done about it.                         *)

\* The tasks of a queue that write the shards of i, and whether the last of
\* them is one of G.
Ours(q, i) == {n \in DOMAIN q : q[n].id = i /\ q[n].job # "clone"}
LastIn(q, i, G) == \A n \in Ours(q, i) : (\A m \in Ours(q, i) : m <= n) => q[n] \in G

LEMMA AppendMine ==
    ASSUME NEW q \in Seq(Task), NEW i, NEW G,
           NEW c \in Task, c.id = i, c.job # "clone", c \in G
    PROVE  LastIn(Append(q, c), i, G) /\ Ours(Append(q, c), i) # {}
<1> DEFINE r == Append(q, c)
<1>1. /\ Len(q) \in Nat /\ DOMAIN r = 1 .. Len(q) + 1 /\ r[Len(q) + 1] = c
    BY AppendIs
<1> HIDE DEF r
<1>2. Len(q) + 1 \in Ours(r, i)
    BY <1>1 DEF Ours
<1>3. ASSUME NEW n \in Ours(r, i), \A m \in Ours(r, i) : m <= n
      PROVE  r[n] \in G
    <2>1. n \in 1 .. Len(q) + 1 /\ Len(q) + 1 <= n
        BY <1>1, <1>2, <1>3 DEF Ours
    <2>2. n = Len(q) + 1
        BY <1>1, <2>1
    <2> QED
        BY <1>1, <2>2
<1> QED
    BY <1>2, <1>3 DEF LastIn, r

LEMMA AppendOther ==
    ASSUME NEW q \in Seq(Task), NEW i, NEW G,
           NEW c \in Task, c.id # i \/ c.job = "clone"
    PROVE  /\ Ours(Append(q, c), i) = Ours(q, i)
           /\ LastIn(q, i, G) => LastIn(Append(q, c), i, G)
<1> DEFINE r == Append(q, c)
<1>1. /\ Len(q) \in Nat /\ DOMAIN q = 1 .. Len(q) /\ DOMAIN r = 1 .. Len(q) + 1
      /\ r[Len(q) + 1] = c /\ \A n \in 1 .. Len(q) : r[n] = q[n]
    BY AppendIs
<1> HIDE DEF r
<1>2. \A n \in DOMAIN r : n \in DOMAIN q \/ n = Len(q) + 1
    BY <1>1
<1>3. \A n \in DOMAIN q : n \in DOMAIN r
    BY <1>1
<1>4. Ours(r, i) = Ours(q, i)
    BY <1>1, <1>2, <1>3 DEF Ours
<1>5. \A n \in Ours(q, i) : r[n] = q[n]
    BY <1>1 DEF Ours
<1> QED
    BY <1>4, <1>5 DEF LastIn, r

\* The n-th task is taken out of q and r is left.
Without(q, n, r) ==
    /\ n \in 1 .. Len(q)
    /\ DOMAIN r = 1 .. Len(q) - 1
    /\ \A m \in 1 .. Len(q) - 1 : r[m] = IF m < n THEN q[m] ELSE q[m + 1]

LEMMA TakenOut ==
    ASSUME NEW q \in Seq(Task)
    PROVE  /\ \A n \in DOMAIN q : Without(q, n, RemoveAt(q, n))
           /\ q # <<>> => Without(q, 1, Tail(q)) /\ q[1] = Head(q)
<1>1. DOMAIN q = 1 .. Len(q) /\ Len(q) \in Nat
    OBVIOUS
<1>2. ASSUME NEW n \in DOMAIN q PROVE Without(q, n, RemoveAt(q, n))
    <2>1. n \in 1 .. Len(q)
        BY <1>1
    <2> QED
        BY <2>1, RemoveAtIs DEF Without
<1>3. ASSUME q # <<>> PROVE Without(q, 1, Tail(q)) /\ q[1] = Head(q)
    <2>1. /\ Head(q) = q[1] /\ Len(q) \in Nat \ {0}
          /\ DOMAIN Tail(q) = 1 .. Len(q) - 1
          /\ \A n \in 1 .. Len(q) - 1 : Tail(q)[n] = q[n + 1]
        BY <1>3, TailIs
    <2>2. 1 \in 1 .. Len(q) /\ \A m \in 1 .. Len(q) - 1 : ~(m < 1)
        BY <2>1
    <2> QED
        BY <2>1, <2>2 DEF Without
<1> QED
    BY <1>2, <1>3

\* Where the others of q are in r, and those of r in q.
LEMMA Shifted ==
    ASSUME NEW q \in Seq(Task), NEW i, NEW n, NEW r, Without(q, n, r)
    PROVE  /\ \A m \in Ours(q, i) : m < n => m \in Ours(r, i)
           /\ \A m \in Ours(q, i) : m > n => m - 1 \in Ours(r, i)
           /\ \A m \in Ours(r, i) : m < n => m \in Ours(q, i) /\ r[m] = q[m]
           /\ \A m \in Ours(r, i) : m >= n => m + 1 \in Ours(q, i) /\ r[m] = q[m + 1]
           /\ n \in Nat /\ Ours(q, i) \subseteq Nat /\ Ours(r, i) \subseteq Nat
<1>1. /\ Len(q) \in Nat /\ DOMAIN q = 1 .. Len(q) /\ n \in 1 .. Len(q)
      /\ DOMAIN r = 1 .. Len(q) - 1
      /\ \A m \in 1 .. Len(q) - 1 : r[m] = IF m < n THEN q[m] ELSE q[m + 1]
    BY DEF Without
<1>2. ASSUME NEW m \in Ours(q, i), m < n PROVE m \in Ours(r, i)
    <2>1. m \in 1 .. Len(q) - 1
        BY <1>1, <1>2 DEF Ours
    <2> QED
        BY <1>1, <1>2, <2>1 DEF Ours
<1>3. ASSUME NEW m \in Ours(q, i), m > n PROVE m - 1 \in Ours(r, i)
    <2>1. m - 1 \in 1 .. Len(q) - 1 /\ (m - 1) + 1 = m /\ ~(m - 1 < n)
        BY <1>1, <1>3 DEF Ours
    <2>2. r[m - 1] = q[m]
        BY <1>1, <2>1
    <2> QED
        BY <1>1, <2>1, <2>2 DEF Ours
<1>4. ASSUME NEW m \in Ours(r, i), m < n
      PROVE  m \in Ours(q, i) /\ r[m] = q[m]
    <2>1. m \in 1 .. Len(q) - 1 /\ m \in 1 .. Len(q)
        BY <1>1 DEF Ours
    <2> QED
        BY <1>1, <1>4, <2>1 DEF Ours
<1>5. ASSUME NEW m \in Ours(r, i), m >= n
      PROVE  m + 1 \in Ours(q, i) /\ r[m] = q[m + 1]
    <2>1. m \in 1 .. Len(q) - 1 /\ m + 1 \in 1 .. Len(q) /\ ~(m < n)
        BY <1>1, <1>5 DEF Ours
    <2>2. r[m] = q[m + 1]
        BY <1>1, <2>1
    <2> QED
        BY <1>1, <2>1, <2>2 DEF Ours
<1>6. n \in Nat /\ Ours(q, i) \subseteq Nat /\ Ours(r, i) \subseteq Nat
    BY <1>1 DEF Ours
<1> QED
    BY <1>2, <1>3, <1>4, <1>5, <1>6

\* The task taken out is not one of those that write the shards of i.
LEMMA OtherOut ==
    ASSUME NEW q \in Seq(Task), NEW i, NEW G, NEW n, NEW r, Without(q, n, r),
           n \notin Ours(q, i)
    PROVE  /\ Ours(r, i) = {} <=> Ours(q, i) = {}
           /\ LastIn(q, i, G) => LastIn(r, i, G)
<1>1. /\ \A m \in Ours(q, i) : m < n => m \in Ours(r, i)
      /\ \A m \in Ours(q, i) : m > n => m - 1 \in Ours(r, i)
      /\ \A m \in Ours(r, i) : m < n => m \in Ours(q, i) /\ r[m] = q[m]
      /\ \A m \in Ours(r, i) : m >= n => m + 1 \in Ours(q, i) /\ r[m] = q[m + 1]
      /\ n \in Nat /\ Ours(q, i) \subseteq Nat /\ Ours(r, i) \subseteq Nat
    BY Shifted
<1>2. \A m \in Ours(q, i) : m < n \/ m > n
    BY <1>1
<1>3. \A m \in Ours(r, i) : m < n \/ m >= n
    BY <1>1
<1>4. Ours(r, i) = {} <=> Ours(q, i) = {}
    BY <1>1, <1>2, <1>3
<1>5. ASSUME LastIn(q, i, G), NEW k \in Ours(r, i), \A m \in Ours(r, i) : m <= k
      PROVE  r[k] \in G
    <2>1. CASE k < n
        <3>1. \A m \in Ours(q, i) : m <= k
            BY <1>1, <1>2, <1>5, <2>1
        <3> QED
            BY <1>1, <1>5, <2>1, <3>1 DEF LastIn
    <2>2. CASE k >= n
        <3>1. \A m \in Ours(q, i) : m <= k + 1
            BY <1>1, <1>2, <1>5, <2>2
        <3> QED
            BY <1>1, <1>5, <2>2, <3>1 DEF LastIn
    <2> QED
        BY <1>3, <2>1, <2>2
<1> QED
    BY <1>4, <1>5 DEF LastIn

\* It is the first of them.
LEMMA FirstOut ==
    ASSUME NEW q \in Seq(Task), NEW i, NEW G, NEW n, NEW r, Without(q, n, r),
           n \in Ours(q, i), \A m \in Ours(q, i) : m >= n, LastIn(q, i, G)
    PROVE  /\ LastIn(r, i, G)
           /\ Ours(r, i) = {} => q[n] \in G
<1>1. /\ \A m \in Ours(q, i) : m > n => m - 1 \in Ours(r, i)
      /\ \A m \in Ours(r, i) : m < n => m \in Ours(q, i) /\ r[m] = q[m]
      /\ \A m \in Ours(r, i) : m >= n => m + 1 \in Ours(q, i) /\ r[m] = q[m + 1]
      /\ n \in Nat /\ Ours(q, i) \subseteq Nat /\ Ours(r, i) \subseteq Nat
    BY Shifted
<1>2. \A m \in Ours(q, i) : m = n \/ m > n
    BY <1>1
<1>3. \A m \in Ours(r, i) : m >= n
    BY <1>1
<1>4. ASSUME NEW k \in Ours(r, i), \A m \in Ours(r, i) : m <= k
      PROVE  r[k] \in G
    <2>1. \A m \in Ours(q, i) : m <= k + 1
        BY <1>1, <1>2, <1>3, <1>4
    <2> QED
        BY <1>1, <1>3, <2>1 DEF LastIn
<1>5. ASSUME Ours(r, i) = {} PROVE q[n] \in G
    <2>1. \A m \in Ours(q, i) : m <= n
        BY <1>1, <1>2, <1>5
    <2> QED
        BY <2>1 DEF LastIn
<1> QED
    BY <1>4, <1>5 DEF LastIn

\* What an index or purge task of i has to say now.
RightTasks(i) ==
    {t \in Task : /\ t.id = i
                  /\ IF Live(i) THEN /\ t.job = "index"
                                     /\ t.path = repo[i].path /\ t.vis = repo[i].vis
                                ELSE t.job = "purge"}

IndexRight(i) ==
    index[i] # None =>
        /\ Live(i)
        /\ index[i] = [path |-> repo[i].path, vis |-> repo[i].vis, of |-> i]

\* The last word on the index of i is with the calls still to be queued; if
\* there are none, with the queue; if that has none, it is in the index.
IndexGood(i) ==
    /\ Live(i) => disk[repo[i].path] # None
    /\ LastIn(due, i, RightTasks(i))
    /\ Ours(due, i) = {} => LastIn(search, i, RightTasks(i))
    /\ Ours(due, i) = {} /\ Ours(search, i) = {} => IndexRight(i)

IndexInv == \A i \in Ids \ off : IndexGood(i)

SameRow(i) ==
    /\ Live(i)' <=> Live(i)
    /\ Live(i) => repo'[i].path = repo[i].path /\ repo'[i].vis = repo[i].vis

LEMMA RightSame ==
    ASSUME NEW i \in Ids, SameRow(i)
    PROVE  /\ RightTasks(i)' = RightTasks(i)
           /\ index'[i] = index[i] /\ IndexRight(i) => IndexRight(i)'
<1>1. RightTasks(i)' = RightTasks(i)
    BY DEF SameRow, RightTasks
<1>2. index'[i] = index[i] /\ IndexRight(i) => IndexRight(i)'
    BY DEF SameRow, IndexRight
<1> QED
    BY <1>1, <1>2

\* A step that leaves the repository and its shards as they are, and its tasks.
LEMMA IndexStays ==
    ASSUME NEW i \in Ids, IndexGood(i), SameRow(i), index'[i] = index[i],
           Live(i) => disk'[repo[i].path] # None,
           Ours(due', i) = {} <=> Ours(due, i) = {},
           Ours(search', i) = {} <=> Ours(search, i) = {},
           LastIn(due, i, RightTasks(i)) => LastIn(due', i, RightTasks(i)),
           LastIn(search, i, RightTasks(i)) => LastIn(search', i, RightTasks(i))
    PROVE  IndexGood(i)'
<1>1. /\ RightTasks(i)' = RightTasks(i)
      /\ IndexRight(i) => IndexRight(i)'
    BY RightSame
<1>2. Live(i)' => disk'[repo'[i].path] # None
    BY DEF SameRow
<1>3. /\ LastIn(due', i, RightTasks(i)')
      /\ Ours(due', i) = {} => LastIn(search', i, RightTasks(i)')
      /\ Ours(due', i) = {} /\ Ours(search', i) = {} => IndexRight(i)'
    BY <1>1 DEF IndexGood
<1> QED
    BY <1>2, <1>3 DEF IndexGood

\* A call about i itself, as i is now.
LEMMA IndexCalled ==
    ASSUME TypeOK, NEW i \in Ids, NEW c \in Task, c.id = i, c.job # "clone",
           due' = Append(due, c), c \in RightTasks(i)',
           Live(i)' => disk'[repo'[i].path] # None
    PROVE  IndexGood(i)'
<1>1. LastIn(due', i, RightTasks(i)') /\ Ours(due', i) # {}
    BY AppendMine DEF TypeOK
<1> QED
    BY <1>1 DEF IndexGood

\* A call about another repository, or none.
LEMMA OthersCalled ==
    ASSUME TypeOK, NEW i \in Ids, IndexGood(i), SameRow(i),
           UNCHANGED <<index, search>>,
           Live(i) => disk'[repo[i].path] # None,
           \/ due' = due
           \/ \E c \in Task : (c.id # i \/ c.job = "clone") /\ due' = Append(due, c)
    PROVE  IndexGood(i)'
<1>1. /\ Ours(due', i) = Ours(due, i)
      /\ LastIn(due, i, RightTasks(i)) => LastIn(due', i, RightTasks(i))
    BY AppendOther DEF TypeOK
<1> QED
    BY <1>1, IndexStays

LEMMA CreateKeepsIndex ==
    ASSUME TypeOK, IdsDrawn, IndexInv,
           NEW i \in Ids, NEW p \in Paths, NEW v \in Visibility,
           NEW from \in Sources, CreateRepository(i, p, v, from)
    PROVE  IndexInv'
<1>0. /\ \A j \in Ids : Live(j) => repo[j].path # p
      /\ disk'[p] # None
      /\ \A q \in Paths \ {p} : disk'[q] = disk[q]
    BY CreateDirectory
<1>1. UNCHANGED <<index, search, off>>
    BY DEF CreateRepository, queues
<1>2. /\ i \notin used /\ Live(i)' /\ repo'[i].path = p
      /\ \A j \in Ids \ {i} : repo'[j] = repo[j]
    BY CreateRow
<1>3. due' = due \/ \E c \in Task : /\ c.job = "clone" /\ c.id = i
                                    /\ due' = Append(due, c)
    BY CreateQueues
<1>4. ASSUME NEW j \in Ids \ off, j # i
      PROVE  IndexGood(j)'
    <2>1. IndexGood(j) /\ SameRow(j)
        BY <1>0, <1>2, <1>4 DEF IndexInv, SameRow, Live
    <2>2. Live(j) => repo[j].path \in Paths \ {p}
        BY <1>0, <1>2 DEF TypeOK, Live, Row
    <2>3. Live(j) => disk'[repo[j].path] # None
        BY <1>0, <1>2, <2>1, <2>2 DEF IndexGood
    <2> QED
        BY <1>1, <1>3, <2>1, <2>3, OthersCalled
<1>5. IndexGood(i)'
    <2>1. /\ index[i] = None
          /\ \A t \in Range(due) \cup Range(search) : t.id # i
        BY <1>0, <1>2 DEF IdsDrawn
    <2>2. Ours(due, i) = {} /\ Ours(search, i) = {}
        BY <2>1 DEF Ours, Range
    <2>3. Ours(due', i) = {} /\ Ours(search', i) = {}
        <3>1. CASE due' = due
            BY <1>1, <2>2, <3>1
        <3>2. ASSUME NEW c \in Task, c.job = "clone", due' = Append(due, c)
              PROVE  Ours(due', i) = {}
            BY <2>2, <3>2, AppendOther DEF TypeOK
        <3> QED
            BY <1>1, <1>3, <2>2, <3>1, <3>2
    <2>4. \A G : LastIn(due', i, G) /\ LastIn(search', i, G)
        BY <2>3 DEF LastIn
    <2>5. IndexRight(i)'
        BY <1>1, <2>1 DEF IndexRight
    <2> QED
        BY <1>0, <1>2, <2>4, <2>5 DEF IndexGood
<1> QED
    BY <1>1, <1>4, <1>5 DEF IndexInv

LEMMA UpdateKeepsIndex ==
    ASSUME TypeOK, DiskInv, IndexInv,
           NEW i \in Ids, NEW p \in Paths, NEW v \in Visibility,
           UpdateRepository(i, p, v)
    PROVE  IndexInv'
<1> DEFINE q == repo[i].path
<1>1. UNCHANGED <<index, search, off>>
    BY DEF UpdateRepository, Change
<1>2. /\ Live(i) /\ q \in Paths
      /\ p # q => \A j \in Ids : Live(j) => repo[j].path # p
      /\ Live(i)' /\ repo'[i].path = p /\ repo'[i].vis = v
      /\ \A j \in Ids \ {i} : repo'[j] = repo[j]
      /\ disk'[p] = disk[q]
      /\ \A r \in Paths \ {p, q} : disk'[r] = disk[r]
    BY UpdateTables
<1>3. PICK c \in Task : /\ c.job = "index" /\ c.id = i /\ c.path = p /\ c.vis = v
                        /\ due' = Append(due, c)
    BY UpdateQueues
<1>4. ASSUME NEW j \in Ids \ off, j # i
      PROVE  IndexGood(j)'
    <2>1. IndexGood(j) /\ SameRow(j)
        BY <1>2, <1>4 DEF IndexInv, SameRow, Live
    <2>2. Live(j) => repo[j].path \in Paths \ {p, q}
        BY <1>2, <1>4 DEF TypeOK, Live, Row, DiskInv, PathsUnique
    <2>3. Live(j) => disk'[repo[j].path] # None
        BY <1>2, <2>1, <2>2 DEF IndexGood
    <2> QED
        BY <1>1, <1>3, <1>4, <2>1, <2>3, OthersCalled
<1>5. ASSUME i \notin off
      PROVE  IndexGood(i)'
    <2>1. disk'[p] # None
        BY <1>2, <1>5 DEF IndexInv, IndexGood
    <2>2. c \in RightTasks(i)'
        BY <1>2, <1>3 DEF RightTasks
    <2> QED
        BY <1>2, <1>3, <2>1, <2>2, IndexCalled
<1> QED
    BY <1>1, <1>4, <1>5 DEF IndexInv

LEMMA DeleteKeepsIndex ==
    ASSUME TypeOK, DiskInv, IndexInv, NEW i \in Ids, DeleteRepository(i)
    PROVE  IndexInv'
<1>1. UNCHANGED <<index, search, off>>
    BY DEF DeleteRepository, Change
<1>2. /\ Live(i) /\ repo[i].path \in Paths /\ ~Live(i)'
      /\ \A j \in Ids \ {i} : repo'[j] = repo[j]
      /\ \A r \in Paths \ {repo[i].path} : disk'[r] = disk[r]
    BY DeleteTables DEF Live
<1>3. PICK c \in Task : c.job = "purge" /\ c.id = i /\ due' = Append(due, c)
    BY DeleteTables
<1>4. ASSUME NEW j \in Ids \ off, j # i
      PROVE  IndexGood(j)'
    <2>1. IndexGood(j) /\ SameRow(j)
        BY <1>2, <1>4 DEF IndexInv, SameRow, Live
    <2>2. Live(j) => repo[j].path \in Paths \ {repo[i].path}
        BY <1>2, <1>4 DEF TypeOK, Live, Row, DiskInv, PathsUnique
    <2>3. Live(j) => disk'[repo[j].path] # None
        BY <1>2, <2>1, <2>2 DEF IndexGood
    <2> QED
        BY <1>1, <1>3, <1>4, <2>1, <2>3, OthersCalled
<1>5. IndexGood(i)'
    <2>1. c \in RightTasks(i)'
        BY <1>2, <1>3 DEF RightTasks
    <2> QED
        BY <1>2, <1>3, <2>1, IndexCalled
<1> QED
    BY <1>1, <1>4, <1>5 DEF IndexInv

LEMMA EventKeepsIndex ==
    ASSUME TypeOK, IndexInv, NEW i \in Ids, DeliverGitEvent(i)
    PROVE  IndexInv'
<1>1. UNCHANGED <<repo, disk, index, search, off>>
    BY DEF DeliverGitEvent, Change
<1>2. PICK c \in Task : /\ c.job = "index" /\ c.id = i
                        /\ c.path = repo[i].path /\ c.vis = repo[i].vis
                        /\ due' = Append(due, c)
    BY EventQueues
<1>3. Live(i)
    BY EventQueues
<1>4. ASSUME NEW j \in Ids \ off
      PROVE  IndexGood(j)'
    <2>1. /\ IndexGood(j) /\ SameRow(j) /\ (Live(j)' <=> Live(j))
          /\ Live(j) => disk'[repo[j].path] # None
        BY <1>1 DEF IndexInv, IndexGood, SameRow, Live
    <2>2. CASE j = i
        <3>1. c \in RightTasks(i)'
            BY <1>1, <1>2, <1>3 DEF RightTasks, Live
        <3> QED
            BY <1>1, <1>2, <2>1, <2>2, <3>1, IndexCalled
    <2>3. CASE j # i
        BY <1>1, <1>2, <2>1, <2>3, OthersCalled
    <2> QED
        BY <2>2, <2>3
<1> QED
    BY <1>1, <1>4 DEF IndexInv

LEMMA StrandKeepsIndex ==
    ASSUME TypeOK, DiskInv, IndexInv,
           NEW i \in Ids, NEW p \in Paths \cup {None}, Strand(i, p)
    PROVE  IndexInv'
<1>1. /\ UNCHANGED <<repo, index, search>> /\ due' = due
      /\ off' = off \cup {i} \cup At(p) /\ Live(i)
      /\ \A r \in Paths \ {p, repo[i].path} : disk'[r] = disk[r]
    BY StrandWrites
<1> SUFFICES ASSUME NEW j \in Ids \ off'
             PROVE  IndexGood(j)'
    BY DEF IndexInv
<1>2. IndexGood(j) /\ SameRow(j)
    BY <1>1 DEF IndexInv, SameRow, Live
<1>3. Live(j) => repo[j].path \in Paths \ {p, repo[i].path}
    BY <1>1 DEF TypeOK, Live, Row, At, DiskInv, PathsUnique
<1>4. Live(j) => disk'[repo[j].path] # None
    BY <1>1, <1>2, <1>3 DEF IndexGood
<1> QED
    BY <1>1, <1>2, <1>4, OthersCalled

\* A call comes to the queue.  What was committed before it, and not queued, is
\* about another repository, or i is given up.
LEMMA QueueKeepsIndex ==
    ASSUME TypeOK, IndexInv, NEW n \in DOMAIN due,
           Clone(n) \/ Index(n) \/ Delete(n)
    PROVE  IndexInv'
<1>1. /\ UNCHANGED <<repo, disk, index>> /\ due' = RemoveAt(due, n)
      /\ off \subseteq off'
      /\ \/ due[n].job = "clone" /\ search' = search
         \/ due[n].job # "clone" /\ search' = search /\ due[n].id \in off'
         \/ /\ due[n].job # "clone" /\ search' = Append(search, due[n])
            /\ Overtakes(n) => due[n].id \in off'
    BY DEF Clone, Index, Delete, tables, history
<1>2. due[n] \in Task /\ n \in 1 .. Len(due) /\ Len(due) \in Nat
    BY DEF TypeOK
<1>3. Without(due, n, due')
    BY <1>1, TakenOut DEF TypeOK
<1> SUFFICES ASSUME NEW i \in Ids \ off'
             PROVE  IndexGood(i)'
    BY DEF IndexInv
<1>4. IndexGood(i) /\ SameRow(i) /\ (Live(i) => disk'[repo[i].path] # None)
    BY <1>1 DEF IndexInv, IndexGood, SameRow, Live
<1>5. CASE n \notin Ours(due, i)
    <2>1. /\ Ours(due', i) = {} <=> Ours(due, i) = {}
          /\ LastIn(due, i, RightTasks(i)) => LastIn(due', i, RightTasks(i))
        BY <1>3, <1>5, OtherOut DEF TypeOK
    <2>2. due[n].job = "clone" \/ due[n].id # i
        BY <1>2, <1>5 DEF Ours
    <2>3. search' = search \/ (due[n].id # i /\ search' = Append(search, due[n]))
        BY <1>1, <2>2
    <2>4. /\ Ours(search', i) = {} <=> Ours(search, i) = {}
          /\ LastIn(search, i, RightTasks(i)) => LastIn(search', i, RightTasks(i))
        <3>1. CASE search' = search
            BY <3>1
        <3>2. CASE due[n].id # i /\ search' = Append(search, due[n])
            BY <1>2, <3>2, AppendOther DEF TypeOK
        <3> QED
            BY <2>3, <3>1, <3>2
    <2> QED
        BY <1>1, <1>4, <2>1, <2>4, IndexStays
<1>6. CASE n \in Ours(due, i)
    <2>1. due[n].id = i /\ due[n].job # "clone"
        BY <1>6 DEF Ours
    <2>2. search' = Append(search, due[n]) /\ ~Overtakes(n)
        BY <1>1, <2>1
    <2>3. ASSUME NEW m \in Ours(due, i) PROVE m >= n
        <3>1. m \in 1 .. Len(due) /\ due[m].id = i /\ due[m].job # "clone"
            BY <2>3 DEF Ours, TypeOK
        <3>2. m \notin 1 .. n - 1
            BY <2>1, <2>2, <3>1 DEF Overtakes
        <3> QED
            BY <1>2, <3>1, <3>2
    <2>4. LastIn(due, i, RightTasks(i))
        BY <1>4 DEF IndexGood
    <2>5. /\ LastIn(due', i, RightTasks(i))
          /\ Ours(due', i) = {} => due[n] \in RightTasks(i)
        BY <1>3, <1>6, <2>3, <2>4, FirstOut DEF TypeOK
    <2>6. Ours(due', i) = {} =>
            LastIn(search', i, RightTasks(i)) /\ Ours(search', i) # {}
        BY <1>2, <2>1, <2>2, <2>5, AppendMine DEF TypeOK
    <2>7. RightTasks(i)' = RightTasks(i)
        BY <1>4, RightSame
    <2>8. Live(i)' => disk'[repo'[i].path] # None
        BY <1>4 DEF SameRow
    <2> QED
        BY <2>5, <2>6, <2>7, <2>8 DEF IndexGood
<1> QED
    BY <1>5, <1>6

\* The worker of the index does the first task.  If that is the last about i it
\* says what i is, or it fails and i is given up.
LEMMA SearchKeepsIndex ==
    ASSUME TypeOK, Jobs, DiskInv, StrandedOut, IndexInv, IndexRun \/ PurgeRun
    PROVE  IndexInv'
<1> DEFINE t == Head(search)
<1>1. UNCHANGED <<repo, disk>> /\ due' = due
    BY DEF IndexRun, PurgeRun, Searched, tables
<1>2. /\ search # <<>> /\ t \in Task /\ search' = Tail(search)
      /\ \A i \in Ids \ {t.id} : index'[i] = index[i]
      /\ off \subseteq off'
    BY IndexWrites, PurgeWrites
<1>3. Without(search, 1, search') /\ search[1] = t
    BY <1>2, TakenOut DEF TypeOK
<1>4. t.job # "clone" /\ 1 \in DOMAIN search
    <2>1. t \in Range(search)
        BY <1>2, HeadLeaves DEF TypeOK
    <2>2. t.job \in {"index", "purge"}
        BY <2>1 DEF Jobs
    <2>3. 1 \in DOMAIN search
        BY <1>3 DEF Without
    <2> QED
        BY <2>2, <2>3
<1>5. \/ /\ t.job = "index"
         /\ disk[t.path] # None /\ t.id \notin off' =>
               index'[t.id] = [path |-> t.path, vis |-> t.vis,
                               of |-> disk[t.path].repo]
      \/ t.job = "purge" /\ (t.id \notin off' => index'[t.id] = None)
    BY IndexWrites, PurgeWrites
<1> HIDE DEF t
<1> SUFFICES ASSUME NEW i \in Ids \ off'
             PROVE  IndexGood(i)'
    BY DEF IndexInv
<1>6. /\ IndexGood(i) /\ SameRow(i) /\ (Live(i) => disk'[repo[i].path] # None)
      /\ repo' = repo /\ i \notin stranded
    BY <1>1, <1>2 DEF StrandedOut, IndexInv, IndexGood, SameRow, Live
<1>7. CASE t.id # i
    <2>1. 1 \notin Ours(search, i)
        BY <1>3, <1>7 DEF Ours
    <2>2. /\ Ours(search', i) = {} <=> Ours(search, i) = {}
          /\ LastIn(search, i, RightTasks(i)) => LastIn(search', i, RightTasks(i))
        BY <1>3, <2>1, OtherOut DEF TypeOK
    <2> QED
        BY <1>1, <1>2, <1>6, <1>7, <2>2, IndexStays
<1>8. CASE t.id = i
    <2>1. 1 \in Ours(search, i) /\ \A m \in Ours(search, i) : m >= 1
        BY <1>3, <1>4, <1>8 DEF Ours, TypeOK
    <2>2. RightTasks(i)' = RightTasks(i)
        BY <1>6, RightSame
    <2>3. ASSUME Ours(due, i) = {}
          PROVE  /\ LastIn(search', i, RightTasks(i))
                 /\ Ours(search', i) = {} => t \in RightTasks(i)
        <3>1. LastIn(search, i, RightTasks(i))
            BY <1>6, <2>3 DEF IndexGood
        <3> QED
            BY <1>3, <2>1, <3>1, FirstOut DEF TypeOK
    <2>4. ASSUME t \in RightTasks(i)
          PROVE  IndexRight(i)'
        <3>1. CASE Live(i)
            <4>1. t.job = "index" /\ t.path = repo[i].path /\ t.vis = repo[i].vis
                BY <2>4, <3>1 DEF RightTasks
            <4>2. disk[repo[i].path] # None /\ disk[repo[i].path].repo = i
                BY <1>6, <3>1 DEF IndexGood, DiskInv, OwnDisk
            <4>3. index'[i] = [path |-> repo[i].path, vis |-> repo[i].vis, of |-> i]
                BY <1>5, <1>8, <4>1, <4>2
            <4> QED
                BY <1>6, <3>1, <4>3 DEF IndexRight, Live
        <3>2. CASE ~Live(i)
            <4>1. t.job = "purge"
                BY <2>4, <3>2 DEF RightTasks
            <4>2. index'[i] = None
                BY <1>5, <1>8, <4>1
            <4> QED
                BY <4>2 DEF IndexRight
        <3> QED
            BY <3>1, <3>2
    <2>5. LastIn(due', i, RightTasks(i)')
        BY <1>1, <1>6, <2>2 DEF IndexGood
    <2>6. Ours(due', i) = {} => LastIn(search', i, RightTasks(i)')
        BY <1>1, <2>2, <2>3
    <2>7. Ours(due', i) = {} /\ Ours(search', i) = {} => IndexRight(i)'
        BY <1>1, <2>3, <2>4
    <2>8. Live(i)' => disk'[repo'[i].path] # None
        BY <1>6 DEF SameRow
    <2> QED
        BY <2>5, <2>6, <2>7, <2>8 DEF IndexGood
<1> QED
    BY <1>7, <1>8

LEMMA IndexKeeps ==
    ASSUME TypeOK, Jobs, DiskInv, IdsDrawn, StrandedOut, IndexInv, [Next]_vars
    PROVE  IndexInv'
<1>1. ASSUME UNCHANGED index, due' = due, search' = search, off \subseteq off',
             \A i \in Ids \ off' :
                SameRow(i) /\ (Live(i) => disk'[repo[i].path] = disk[repo[i].path]
                                          \/ disk'[repo[i].path] # None)
      PROVE  IndexInv'
    <2> SUFFICES ASSUME NEW i \in Ids \ off'
                 PROVE  IndexGood(i)'
        BY DEF IndexInv
    <2>1. IndexGood(i) /\ SameRow(i)
        BY <1>1 DEF IndexInv
    <2>2. Live(i) => disk'[repo[i].path] # None
        BY <1>1, <2>1 DEF IndexGood
    <2> QED
        BY <1>1, <2>1, <2>2, IndexStays
<1>2. \A i \in Ids : repo'[i] = repo[i] => SameRow(i)
    BY DEF SameRow, Live
<1>3. CASE UNCHANGED vars
    BY <1>1, <1>2, <1>3 DEF vars, tables, queues, history
<1>4. ASSUME NEW u \in Users, DeleteUser(u)
      PROVE  IndexInv'
    BY <1>1, <1>2, <1>4 DEF DeleteUser, tables, history
<1>5. CASE CloneAsk \/ CloneHead \/ ClonePanics \/ ObjectsGo
    <2>1. UNCHANGED <<index, due, search, off, repo, disk>>
        BY <1>5 DEF CloneAsk, CloneHead, ClonePanics, ObjectsGo, Cloning, tables,
                    history
    <2> QED
        BY <1>1, <1>2, <2>1
<1>6. CASE CloneFetch
    <2>1. UNCHANGED <<index, due, search, off, repo>>
        BY <1>6 DEF CloneFetch, Cloning, tables, history
    <2>2. \A p \in Paths : disk[p] # None => disk'[p] # None
        BY <1>6, FetchWrites
    <2>3. \A i \in Ids : Live(i) => repo[i].path \in Paths
        BY DEF TypeOK, Live, Row
    <2>4. \A i \in Ids \ off' : Live(i) => disk[repo[i].path] # None
        BY <2>1 DEF IndexInv, IndexGood
    <2>5. \A i \in Ids \ off' : Live(i) => disk'[repo[i].path] # None
        BY <2>2, <2>3, <2>4
    <2> QED
        BY <1>1, <1>2, <2>1, <2>5
<1>7. CASE CloneDone
    <2>1. UNCHANGED <<index, due, search, off, disk>>
        BY <1>7 DEF CloneDone, history
    <2>2. \A i \in Ids : SameRow(i)
        BY <1>7, DoneWrites DEF SameRow
    <2> QED
        BY <1>1, <2>1, <2>2
<1>8. CASE AccountFiles
    <2>1. /\ UNCHANGED <<index, due, search, repo>> /\ off \subseteq off'
          /\ \A i \in Ids : Live(i) /\ repo[i].path[1] = Head(account).user
                            => i \in off'
        BY <1>8 DEF AccountFiles, Theirs, tables
    <2>2. \A p \in Paths : p[1] # Head(account).user => disk'[p] = disk[p]
        BY <1>8, FilesGo
    <2>3. \A i \in Ids : Live(i) => repo[i].path \in Paths
        BY DEF TypeOK, Live, Row
    <2>4. \A i \in Ids \ off' : Live(i) => disk'[repo[i].path] = disk[repo[i].path]
        BY <2>1, <2>2, <2>3
    <2> QED
        BY <1>1, <1>2, <2>1, <2>4
<1>9. CASE AccountRows
    <2>1. /\ UNCHANGED <<index, due, search, disk>> /\ off \subseteq off'
          /\ \A i \in Ids : Live(i) /\ repo[i].path[1] = Head(account).user
                            => i \in off'
        BY <1>9 DEF AccountRows, Theirs
    <2>2. \A i \in Ids : ~(Live(i) /\ repo[i].path[1] = Head(account).user)
                         => repo'[i] = repo[i]
        BY <1>9, RowsGo
    <2>3. \A i \in Ids \ off' : repo'[i] = repo[i]
        BY <2>1, <2>2
    <2> QED
        BY <1>1, <1>2, <2>1, <2>3
<1>10. CASE Crash
    <2>1. /\ due' = <<>> /\ search' = <<>> /\ UNCHANGED <<repo, disk, index>>
          /\ off \subseteq off'
          /\ \A t \in Range(due) \cup Range(search) :
                t.job \in {"index", "purge"} => t.id \in off'
        BY <1>10 DEF Crash, tables
    <2> SUFFICES ASSUME NEW i \in Ids \ off'
                 PROVE  IndexGood(i)'
        BY DEF IndexInv
    <2>2. IndexGood(i) /\ SameRow(i)
        BY <1>2, <2>1 DEF IndexInv
    <2>3. \A t \in Range(due) \cup Range(search) :
             t \in Task /\ t.job # "clone" => t.job \in {"index", "purge"}
        BY DEF Task, Jobs
    <2>4. /\ \A n \in DOMAIN due : due[n] \in Task /\ due[n] \in Range(due)
          /\ \A n \in DOMAIN search : search[n] \in Task /\ search[n] \in Range(search)
        BY DEF TypeOK, Range
    <2>5. Ours(due, i) = {} /\ Ours(search, i) = {}
        BY <2>1, <2>3, <2>4 DEF Ours
    <2>6. Ours(due', i) = {} /\ Ours(search', i) = {}
        BY <2>1 DEF Ours
    <2>7. \A G : LastIn(due', i, G) /\ LastIn(search', i, G)
        BY <2>6 DEF LastIn
    <2>8. IndexRight(i)'
        BY <2>1, <2>2, <2>5, RightSame DEF IndexGood
    <2>9. Live(i)' => disk'[repo'[i].path] # None
        BY <2>1, <2>2 DEF IndexGood, SameRow
    <2> QED
        BY <2>7, <2>8, <2>9 DEF IndexGood
<1>11. CASE Request
    BY <1>4, <1>11, CreateKeepsIndex, UpdateKeepsIndex, DeleteKeepsIndex,
       EventKeepsIndex, StrandKeepsIndex DEF Request
<1>12. CASE Enqueue
    BY <1>12, QueueKeepsIndex DEF Enqueue
<1>13. CASE IndexRun \/ PurgeRun
    BY <1>13, SearchKeepsIndex
<1>14. CASE AccountFails \/ AccountRowsFail
    <2>1. UNCHANGED <<index, due, search, off, repo, disk>>
        BY <1>14 DEF AccountFails, AccountRowsFail, tables, history
    <2> QED
        BY <1>1, <1>2, <2>1
<1> QED
    BY <1>3, <1>5, <1>6, <1>7, <1>8, <1>9, <1>10, <1>11, <1>12, <1>13, <1>14
       DEF Next, Worker, CloneStep, AccountStep

-----------------------------------------------------------------------------
(* The theorems.                                                            *)

Inv ==
    /\ TypeOK /\ Jobs /\ IdsDrawn
    /\ DiskInv
    /\ InProgressHasTask
    /\ StrandedOut
    /\ ImportInv
    /\ IndexInv

LEMMA InitInv == Init => Inv
<1> SUFFICES ASSUME Init PROVE Inv
    OBVIOUS
<1>1. /\ repo = [i \in Ids |-> None] /\ used = {}
      /\ disk = [p \in Paths |-> None] /\ index = [i \in Ids |-> None]
      /\ user = Users /\ due = <<>> /\ repos = <<>> /\ search = <<>>
      /\ account = <<>> /\ changes = 0
      /\ off = {} /\ lost = {} /\ moved = {} /\ late = {}
      /\ littered = {} /\ stranded = {}
      /\ wanted = [i \in Ids |-> None]
    BY DEF Init
<1>2. Range(due) = {} /\ Range(repos) = {} /\ Range(search) = {}
    BY <1>1 DEF Range
<1>3. TypeOK
    <2>1. \A S : <<>> \in Seq(S)
        OBVIOUS
    <2>2. Len(<<>>) <= Room /\ 0 \in 0 .. Changes
        BY NumbersAssumption
    <2> QED
        BY <1>1, <2>1, <2>2 DEF TypeOK, Contents
<1>4. \A i \in Ids : ~Live(i)
    BY <1>1 DEF Live
<1>5. \A u \in Users : ~Leaving(u)
    BY <1>1 DEF Leaving
<1>6. Jobs /\ IdsDrawn
    BY <1>1, <1>2, <1>4 DEF Jobs, IdsDrawn
<1>7. DiskInv
    BY <1>1, <1>4, <1>5 DEF DiskInv, PathsUnique, OwnDisk, FilesGone,
                            DeletedUserLeavesNothing, RowsHaveFiles
<1>8. InProgressHasTask /\ StrandedOut /\ ImportInv
    BY <1>1, <1>4 DEF InProgressHasTask, InProgress, StrandedOut, ImportInv
<1>9. IndexInv
    BY <1>1, <1>4 DEF IndexInv, IndexGood, LastIn, Ours, IndexRight
<1> QED
    BY <1>3, <1>6, <1>7, <1>8, <1>9 DEF Inv

LEMMA NextInv == Inv /\ [Next]_vars => Inv'
    BY TypesKeep, JobsKeep, DrawnKeep, DiskKeeps, InProgressKeeps, StrandedKeeps,
       ImportsKeep, IndexKeeps DEF Inv

\* The inductive invariant holds of every behaviour.
THEOREM TasksInvariant == Spec => []Inv
<1> QED
    BY InitInv, NextInv, PTL DEF Spec

\* The variables keep their types, and each queue its limit
\* (core-go's work.NewQueue, as api/main.go sets them up).
THEOREM TasksTyped == Spec => []TypeOK
<1>1. Inv => TypeOK
    BY DEF Inv
<1> QED
    BY <1>1, TasksInvariant, PTL

\* A repository whose clone_status is IN_PROGRESS has an import underway, or it
\* was lost when the API stopped (createRepository commits the row before it
\* queues the clone), or the UPDATE that ends the import failed.
THEOREM ImportsHaveTasks == Spec => []InProgressHasTask
<1>1. Inv => InProgressHasTask
    BY DEF Inv
<1> QED
    BY <1>1, TasksInvariant, PTL

\* A repository whose import is COMPLETE has in its own directory what its URL
\* led to when it was created, if neither it nor the source left its path, nor
\* came to one another import was given, nor lost its directory to a mutation that
\* failed half way.
THEOREM ImportsAreOwn == Spec => []ImportIsOwn
<1>1. Inv => ImportIsOwn
    <2> SUFFICES ASSUME Inv, NEW i \in Ids \ moved, Live(i),
                        repo[i].clone = "COMPLETE", disk[repo[i].path] # None
                 PROVE  disk[repo[i].path] = [repo |-> i, got |-> wanted[i]]
        BY DEF ImportIsOwn
    <2>1. disk[repo[i].path] \in Dir
        BY DEF Inv, TypeOK, Live, Row
    <2>2. disk[repo[i].path].repo = i
        BY DEF Inv, DiskInv, OwnDisk, StrandedOut
    <2>3. disk[repo[i].path].got = wanted[i]
        BY DEF Inv, ImportInv, ImportRight, Has
    <2> QED
        BY <2>1, <2>2, <2>3 DEF Dir
<1> QED
    BY <1>1, TasksInvariant, PTL

\* With nothing left to queue or to do, the index says of a repository what it
\* is, and nothing of one that is gone, if no refresh or removal of it was
\* dropped, overtaken, lost or failed, no mutation left its directory elsewhere,
\* and its owner was not deleted.
THEOREM IndexStaysTruthful == Spec => []IndexTruthful
<1>1. Inv => IndexTruthful
    <2> SUFFICES ASSUME Inv, Quiet, NEW i \in Ids \ off
                 PROVE  IndexRight(i)
        BY DEF IndexTruthful, IndexRight
    <2>1. Ours(due, i) = {} /\ Ours(search, i) = {}
        BY DEF Quiet, Ours
    <2> QED
        BY <2>1 DEF Inv, IndexInv, IndexGood
<1> QED
    BY <1>1, TasksInvariant, PTL

\* A user who is gone leaves no directory, unless a repository was created
\* between the removal of the files and that of the rows, or the removal of the
\* files failed, which the task only logs.
THEOREM DeletedUsersLeaveNothing == Spec => []DeletedUserLeavesNothing
<1>1. Inv => DeletedUserLeavesNothing
    BY DEF Inv, DiskInv
<1> QED
    BY <1>1, TasksInvariant, PTL

\* A row has its own directory, whatever is renamed, deleted or fetched, unless
\* a mutation of it failed half way, or the deletion of its owner is between the
\* files and the rows, or ended there, in a crash or at a DELETE that failed.
THEOREM FilesStayWithRows == Spec => []RowsHaveFiles
<1>1. Inv => RowsHaveFiles
    BY DEF Inv, DiskInv
<1> QED
    BY <1>1, TasksInvariant, PTL
=============================================================================
