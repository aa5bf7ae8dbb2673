----------------------- MODULE ArtifactStoreProofs -----------------------
(* Theorems about ArtifactStore: the types; that rows and pending rows stay *)
(* unique under the locks (RowInv); that a checksum never serves other      *)
(* bytes (SumInv); that rows and objects stay together (ObjectInv,          *)
(* OwnerInv); that they implement ArtifactService (QueueInv).               *)
EXTENDS ArtifactStore, TLAPS

\* An idle request is a request, and holds nothing.
LEMMA IdleTx ==
  /\ Idle \in Tx
  /\ Idle.pc = "idle" /\ Idle.rows = {} /\ Idle.name = None
  BY DEF Idle, Tx

\* What TypeOK says of one request.
LEMMA TxTyped ==
  ASSUME TypeOK, NEW t \in Requests
  PROVE  /\ tx[t] \in Tx
         /\ tx[t].pc \in {"idle", "upload", "inserted", "completed",
                          "adel", "adelgone", "rsweep", "rqueue", "orphan", "rdel",
                          "import"}
         /\ tx[t].repo \in Repos \cup {None}
         /\ tx[t].name \in Names \cup {None}
         /\ tx[t].rows \subseteq Row
         /\ tx[t].found \subseteq Files
  BY DEF TypeOK, Tx

\* A request that ends.
LEMMA EndTx ==
  ASSUME TypeOK, NEW t \in Requests, End(t)
  PROVE  /\ tx' \in [Requests -> Tx]
         /\ tx'[t] = Idle
         /\ \A s \in Requests \ {t} : tx'[s] = tx[s]
  BY IdleTx DEF End, TypeOK

\* A request that goes on.
LEMMA GotoTx ==
  ASSUME TypeOK, NEW t \in Requests, NEW pc, Goto(t, pc),
         pc \in {"idle", "upload", "inserted", "completed",
                 "adel", "adelgone", "rsweep", "rdel"}
  PROVE  /\ tx' \in [Requests -> Tx]
         /\ tx'[t] = [pc |-> pc, repo |-> tx[t].repo, name |-> tx[t].name,
                      rows |-> tx[t].rows,
                      found |-> tx[t].found]
         /\ \A s \in Requests \ {t} : tx'[s] = tx[s]
  <1>1. tx[t] \in Tx
    BY DEF TypeOK
  <1>2. [tx[t] EXCEPT !.pc = pc] =
          [pc |-> pc, repo |-> tx[t].repo, name |-> tx[t].name,
           rows |-> tx[t].rows,
           found |-> tx[t].found]
    BY <1>1 DEF Tx
  <1>3. tx' = [tx EXCEPT ![t] = [tx[t] EXCEPT !.pc = pc]]
    BY DEF Goto
  <1>4. [tx[t] EXCEPT !.pc = pc] \in Tx
    BY <1>1 DEF Tx
  <1> QED
    BY <1>2, <1>3, <1>4 DEF TypeOK

\* The same, field by field.
LEMMA GotoPc ==
  ASSUME TypeOK, NEW t \in Requests, NEW pc, Goto(t, pc),
         pc \in {"idle", "upload", "inserted", "completed",
                 "adel", "adelgone", "rsweep", "rdel"}
  PROVE  /\ tx'[t].pc = pc /\ tx'[t].repo = tx[t].repo
         /\ tx'[t].name = tx[t].name /\ tx'[t].rows = tx[t].rows
         /\ \A s \in Requests \ {t} : tx'[s] = tx[s]
  <1>1. /\ tx'[t] = [pc |-> pc, repo |-> tx[t].repo, name |-> tx[t].name,
                     rows |-> tx[t].rows, found |-> tx[t].found]
        /\ \A s \in Requests \ {t} : tx'[s] = tx[s]
    BY GotoTx
  <1> QED
    BY <1>1

\* A request that takes up a new transaction.
LEMMA BeginTx ==
  ASSUME TypeOK, NEW t \in Requests, NEW new \in Tx,
         tx' = [tx EXCEPT ![t] = new]
  PROVE  /\ tx' \in [Requests -> Tx]
         /\ tx'[t] = new
         /\ \A s \in Requests \ {t} : tx'[s] = tx[s]
  BY DEF TypeOK

-----------------------------------------------------------------------------
(* TypeOK                                                                   *)

LEMMA TypeInit == Init => TypeOK
  BY IdleTx DEF Init, TypeOK, Task

LEMMA UploadBeginType ==
  ASSUME TypeOK, NEW t \in Requests, NEW row \in Row, UploadBegin(t, row)
  PROVE  /\ TypeOK'
         /\ tx'[t] = [pc |-> "upload", repo |-> row.repo,
                      name |-> name[row.repo], rows |-> {row}, found |-> {}]
         /\ \A s \in Requests \ {t} : tx'[s] = tx[s]
  <1>1. row.repo \in Repos /\ name[row.repo] \in Names \cup {None}
    BY DEF Row, TypeOK
  <1>2. [pc |-> "upload", repo |-> row.repo, name |-> name[row.repo],
         rows |-> {row}, found |-> {}] \in Tx
    BY <1>1 DEF Tx
  <1> QED
    BY <1>2, BeginTx DEF UploadBegin, TypeOK

LEMMA ArtifactDeleteType ==
  ASSUME TypeOK, NEW t \in Requests, NEW row \in Row, ArtifactDelete(t, row)
  PROVE  /\ TypeOK'
         /\ tx'[t] = [pc |-> "adel", repo |-> row.repo,
                      name |-> name[row.repo], rows |-> {row}, found |-> {}]
         /\ \A s \in Requests \ {t} : tx'[s] = tx[s]
  <1>1. row.repo \in Repos /\ name[row.repo] \in Names \cup {None}
    BY DEF Row, TypeOK
  <1>2. [pc |-> "adel", repo |-> row.repo, name |-> name[row.repo],
         rows |-> {row}, found |-> {}] \in Tx
    BY <1>1 DEF Tx
  <1> QED
    BY <1>2, BeginTx DEF ArtifactDelete, TypeOK

LEMMA RepoSweepType ==
  ASSUME TypeOK, NEW t \in Requests, NEW r \in Repos, RepoSweep(t, r)
  PROVE  /\ TypeOK'
         /\ tx'[t] = [pc |-> "rsweep", repo |-> r, name |-> None,
                      rows |-> RowsOf(r), found |-> {}]
         /\ \A s \in Requests \ {t} : tx'[s] = tx[s]
  <1>1. [pc |-> "rsweep", repo |-> r, name |-> None, rows |-> RowsOf(r),
           found |-> {}] \in Tx
    BY DEF Tx, TypeOK, RowsOf
  <1> QED
    BY <1>1, BeginTx DEF RepoSweep, TypeOK

\* Nobody goes on but who creates a repository to import into.
Enlists ==
  \A s \in Requests :
    \/ tx'[s] = tx[s]
    \/ /\ tx[s].pc = "idle"
       /\ tx'[s].pc = "import" /\ tx'[s].repo \in Repos /\ tx'[s].rows = {}

\* The creation of a repository by an import.
LEMMA CreateImportType ==
  ASSUME TypeOK, NEW t \in Requests, NEW r \in Repos, NEW n \in Names,
         CreateImport(t, r, n)
  PROVE  /\ TypeOK'
         /\ tx'[t].pc = "import" /\ tx'[t].repo = r /\ tx'[t].rows = {}
         /\ Enlists
         /\ \A s \in Requests \ {t} : tx'[s] = tx[s]
  <1> DEFINE new == [pc |-> "import", repo |-> r, name |-> None, rows |-> {},
                     found |-> {}]
  <1>1. new \in Tx
    BY DEF Tx
  <1>2. tx' = [tx EXCEPT ![t] = new]
    BY DEF CreateImport, Importing
  <1> HIDE DEF new
  <1>3. /\ tx' \in [Requests -> Tx] /\ tx'[t] = new
        /\ \A s \in Requests \ {t} : tx'[s] = tx[s]
    BY <1>1, <1>2, BeginTx
  <1>4. TypeOK'
    BY <1>3 DEF CreateImport, TypeOK, Damage
  <1>5. tx'[t].pc = "import" /\ tx'[t].repo = r /\ tx'[t].rows = {}
    BY <1>3 DEF new
  <1> QED
    BY <1>3, <1>4, <1>5 DEF Enlists, CreateImport

\* The step of a deletion that finds its repository.
LEMMA RepoDeleteType ==
  ASSUME TypeOK, NEW t \in Requests, RepoDelete(t), Live(tx[t].repo),
         tx[t].repo \in Repos
  PROVE  /\ TypeOK'
         /\ tx'[t].pc = IF tx[t].rows = {} THEN "rdel" ELSE "rqueue"
         /\ tx'[t].repo = tx[t].repo
         /\ tx'[t].name = name[tx[t].repo]
         /\ tx'[t].rows = RowsOf(tx[t].repo)
         /\ tx'[t].found = {row.file : row \in tx[t].rows}
         /\ \A s \in Requests \ {t} : tx'[s] = tx[s]
         /\ torn' = torn \cup
              (IF tx[t].rows # RowsOf(tx[t].repo) THEN {"raced"} ELSE {})
  <1> DEFINE r     == tx[t].repo
             pc    == IF tx[t].rows = {} THEN "rdel" ELSE "rqueue"
             found == {row.file : row \in tx[t].rows}
             A     == [tx[t] EXCEPT !.pc = pc]
             B     == [A EXCEPT !.name = name[r]]
             C     == [B EXCEPT !.rows = RowsOf(r)]
             D     == [C EXCEPT !.found = found]
  <1>1. /\ tx' = [tx EXCEPT ![t] = D]
        /\ torn' = torn \cup (IF tx[t].rows # RowsOf(r) THEN {"raced"} ELSE {})
        /\ UNCHANGED <<name, fresh, rows, store, queue>>
    BY DEF RepoDelete, TypeOK
  <1>2. tx[t] \in Tx /\ name[r] \in Names
    BY DEF TypeOK, Live
  <1>3. pc \in {"rdel", "rqueue"} /\ found \subseteq Files /\ RowsOf(r) \subseteq Row
    BY <1>2 DEF Tx, Row, TypeOK, RowsOf
  <1> HIDE DEF pc, found
  <1>4. /\ A \in Tx /\ A.pc = pc /\ A.repo = r
    BY <1>2, <1>3 DEF Tx
  <1> HIDE DEF A
  <1>5. /\ B \in Tx /\ B.pc = pc /\ B.repo = r /\ B.name = name[r]
    BY <1>2, <1>4 DEF Tx
  <1> HIDE DEF B
  <1>6. /\ C \in Tx /\ C.pc = pc /\ C.repo = r /\ C.name = name[r]
        /\ C.rows = RowsOf(r)
    BY <1>3, <1>5 DEF Tx
  <1> HIDE DEF C
  <1>7. /\ D \in Tx /\ D.pc = pc /\ D.repo = r /\ D.name = name[r]
        /\ D.rows = RowsOf(r) /\ D.found = found
    BY <1>3, <1>6 DEF Tx
  <1> HIDE DEF D
  <1>8. /\ tx' \in [Requests -> Tx] /\ tx'[t] = D
        /\ \A s \in Requests \ {t} : tx'[s] = tx[s]
    BY <1>1, <1>7, BeginTx
  <1>9. torn' \subseteq Damage
    BY <1>1 DEF TypeOK, Damage
  <1>10. TypeOK'
    BY <1>1, <1>8, <1>9 DEF TypeOK
  <1> QED
    BY <1>1, <1>7, <1>8, <1>10 DEF pc, found

\* The deadline of a deletion that waits.
LEMMA ExpireType ==
  ASSUME TypeOK, NEW t \in Requests, Expire(t)
  PROVE  /\ TypeOK'
         /\ tx'[t].pc = "orphan" /\ tx'[t].rows = {}
         /\ tx'[t].name = tx[t].name
         /\ \A s \in Requests \ {t} : tx'[s] = tx[s]
  <1> DEFINE A == [tx[t] EXCEPT !.pc = "orphan"]
             B == [A EXCEPT !.rows = {}]
  <1>1. tx' = [tx EXCEPT ![t] = B] /\ torn' = torn \cup {"rolled"}
    BY DEF Expire, TypeOK
  <1>2. A \in Tx /\ A.pc = "orphan" /\ A.name = tx[t].name
    BY DEF TypeOK, Tx
  <1> HIDE DEF A
  <1>3. /\ B \in Tx /\ B.pc = "orphan" /\ B.name = tx[t].name
        /\ B.rows = {}
    BY <1>2 DEF Tx
  <1> HIDE DEF B
  <1>4. /\ tx' \in [Requests -> Tx] /\ tx'[t] = B
        /\ \A s \in Requests \ {t} : tx'[s] = tx[s]
    BY <1>1, <1>3, BeginTx
  <1>5. TypeOK'
    BY <1>1, <1>4 DEF Expire, TypeOK, Damage
  <1> QED
    BY <1>3, <1>4, <1>5

\* What is queued has the shape of a task.
LEMMA QueueTyped ==
  ASSUME TypeOK, NEW task \in Task, queue' = Append(queue, task)
  PROVE  queue' \in Seq(Task)
  BY DEF TypeOK

\* Every other step of one request.
LEMMA StepType ==
  ASSUME TypeOK, RequestsShaped, WaitersShaped, NEW t \in Requests, Step(t)
  PROVE  TypeOK'
  <1>1. CASE UploadInsert(t)
    <2>1. tx[t].pc = "upload"
      BY <1>1 DEF UploadInsert
    <2>2. PICK row \in Row : tx[t].rows = {row}
      BY <2>1 DEF RequestsShaped, Uploading
    <2>3. End(t) \/ Goto(t, "inserted")
      BY <1>1, <2>2 DEF UploadInsert
    <2>4. tx' \in [Requests -> Tx]
      BY <2>3, EndTx, GotoTx
    <2> QED
      BY <1>1, <2>4 DEF UploadInsert, TypeOK
  <1>2. CASE UploadComplete(t)
    <2>1. tx[t].pc = "inserted"
      BY <1>2 DEF UploadComplete
    <2>2. PICK row \in Row : tx[t].rows = {row}
      BY <2>1 DEF RequestsShaped, Uploading
    <2>3. store' = [store EXCEPT ![Key(tx[t].name, row)] = row.sum]
      BY <1>2, <2>2 DEF UploadComplete
    <2>4. store' \in [Keys -> Contents \cup {None}]
      BY <2>3 DEF TypeOK, Row
    <2>5. tx' \in [Requests -> Tx]
      BY <1>2, GotoTx DEF UploadComplete
    <2> QED
      BY <1>2, <2>4, <2>5 DEF UploadComplete, TypeOK
  <1>3. CASE UploadCommit(t)
    BY <1>3, EndTx, TxTyped DEF UploadCommit, TypeOK
  <1>4. CASE ArtifactRemove(t)
    <2>1. tx' \in [Requests -> Tx]
      BY <1>4, GotoTx DEF ArtifactRemove
    <2>2. store' \in [Keys -> Contents \cup {None}]
      BY <1>4 DEF ArtifactRemove, TypeOK
    <2> QED
      BY <1>4, <2>1, <2>2 DEF ArtifactRemove, TypeOK
  <1>5. CASE ArtifactCommit(t)
    BY <1>5, EndTx DEF ArtifactCommit, TypeOK
  <1>6. CASE RepoDelete(t)
    <2>1. CASE Live(tx[t].repo)
      BY <1>6, <2>1, RepoDeleteType DEF RequestsShaped, RepoDelete
    <2>2. CASE ~Live(tx[t].repo)
      BY <1>6, <2>2, EndTx DEF RepoDelete, TypeOK
    <2> QED
      BY <2>1, <2>2
  <1>7. CASE DeadlockVictim(t)
    BY <1>7, EndTx DEF DeadlockVictim, TypeOK
  <1>8. CASE RepoCommit(t)
    <2>1. tx' \in [Requests -> Tx]
      BY <1>8, EndTx DEF RepoCommit
    <2>2. name' \in [Repos -> Names \cup {None}] /\ rows' \subseteq Row
      BY <1>8 DEF RepoCommit, TypeOK
    <2> QED
      BY <1>8, <2>1, <2>2 DEF RepoCommit, TypeOK
  <1>9. CASE RepoQueue(t)
    <2>1. tx[t].pc = "rqueue"
      BY <1>9 DEF RepoQueue
    <2>2. tx[t].name \in Names /\ tx[t].found \subseteq Files
      BY <2>1, TxTyped DEF RequestsShaped, Live
    <2>3. queue' \in Seq(Task)
      BY <1>9, <2>2, QueueTyped DEF RepoQueue, Removal, Task
    <2>4. tx' \in [Requests -> Tx]
      BY <1>9, GotoTx DEF RepoQueue
    <2> QED
      BY <1>9, <2>3, <2>4 DEF RepoQueue, TypeOK
  <1>10. CASE OrphanQueue(t)
    <2>1. tx[t].name \in Names /\ tx[t].found \subseteq Files
      BY <1>10, TxTyped DEF OrphanQueue, WaitersShaped
    <2>2. queue' \in Seq(Task)
      BY <1>10, <2>1, QueueTyped DEF OrphanQueue, Removal, Task
    <2>3. tx' \in [Requests -> Tx]
      BY <1>10, EndTx DEF OrphanQueue
    <2> QED
      BY <1>10, <2>2, <2>3 DEF OrphanQueue, TypeOK
  <1>11. CASE Clone(t)
    <2>1. tx[t].repo \in Repos
      BY <1>11 DEF Clone, RequestsShaped
    <2>2. queue' \in Seq(Task)
      BY <1>11, <2>1, QueueTyped DEF Clone, Import, Task
    <2>3. tx' \in [Requests -> Tx]
      BY <1>11, EndTx DEF Clone
    <2> QED
      BY <1>11, <2>2, <2>3 DEF Clone, TypeOK
  <1> QED
    BY <1>1, <1>2, <1>3, <1>4, <1>5, <1>6, <1>7, <1>8, <1>9, <1>10, <1>11,
       ExpireType DEF Step

LEMMA HarmDamage == \A t : Harm(t) \subseteq Damage
  BY DEF Harm, Damage

LEMMA TypeStep ==
  ASSUME TypeOK, RequestsShaped, WaitersShaped, [Next]_vars
  PROVE  TypeOK'
  <1>1. ASSUME NEW r \in Repos, NEW n \in Names, CreateRepository(r, n)
        PROVE  TypeOK'
    BY <1>1 DEF CreateRepository, TypeOK, Damage
  <1>2. ASSUME NEW r \in Repos, NEW n \in Names, RenameRepository(r, n)
        PROVE  TypeOK'
    <2>1. name' \in [Repos -> Names \cup {None}]
      BY <1>2 DEF RenameRepository, TypeOK
    <2>2. torn' \subseteq Damage
      BY <1>2 DEF RenameRepository, TypeOK, Damage
    <2> QED
      BY <1>2, <2>1, <2>2 DEF RenameRepository, TypeOK
  <1>3. ASSUME NEW t \in Requests, Abort(t)
        PROVE  TypeOK'
    BY <1>3, EndTx, HarmDamage DEF Abort, TypeOK
  <1>4. ASSUME DeleteArtifacts
        PROVE  TypeOK'
    <2>1. store' \in [Keys -> Contents \cup {None}] /\ torn' \subseteq Damage
      BY <1>4 DEF DeleteArtifacts, TypeOK, Damage
    <2>2. queue' \in Seq(Task)
      BY <1>4 DEF DeleteArtifacts, TypeOK
    <2> QED
      BY <1>4, <2>1, <2>2 DEF DeleteArtifacts, TypeOK
  <1>5. ASSUME Crash
        PROVE  TypeOK'
    <2>1. tx' \in [Requests -> Tx]
      BY <1>5, IdleTx DEF Crash
    <2>3. queue' \in Seq(Task)
      <3>1. queue' = <<>>
        BY <1>5 DEF Crash
      <3> QED
        BY <3>1
    <2>2. torn' \subseteq Damage
      <3>1. (UNION {Harm(t) : t \in Requests}) \subseteq Damage
        BY HarmDamage
      <3>2. "lost" \in Damage
        BY DEF Damage
      <3> QED
        BY <1>5, <3>1, <3>2 DEF Crash, TypeOK
    <2> QED
      BY <1>5, <2>1, <2>2, <2>3 DEF Crash, TypeOK
  <1>6. ASSUME CloneDone
        PROVE  TypeOK'
    BY <1>6 DEF CloneDone, TypeOK
  <1>7. CASE UNCHANGED vars
    BY <1>7 DEF vars, TypeOK
  <1> QED
    BY <1>1, <1>2, <1>3, <1>4, <1>5, <1>6, <1>7, UploadBeginType,
       ArtifactDeleteType, RepoSweepType, CreateImportType, StepType
       DEF Next, Work

-----------------------------------------------------------------------------
(* RowInv: rows, pending rows and deleted rows under the locks.             *)

LEMMA RowInit == Init => RowInv
  BY IdleTx DEF Init, RowInv, RequestsShaped, RowsKeyed, LocksHold, Live,
     Uploading, Pending, Deleted

\* A request that gives up, or whose transaction is rolled back.
LEMMA EndRow ==
  ASSUME TypeOK, RowInv, NEW t \in Requests, End(t),
         UNCHANGED <<name, fresh, rows>>
  PROVE  RowInv'
  <1> USE DEF Live
  <1>1. /\ tx'[t] = Idle
        /\ \A s \in Requests \ {t} : tx'[s] = tx[s]
    BY EndTx
  <1>2. RequestsShaped'
    BY <1>1, IdleTx DEF RowInv, RequestsShaped, Uploading, RowsOf
  <1>3. RowsKeyed'
    BY DEF RowInv, RowsKeyed
  <1>4. /\ Pending(t)' = {} /\ Deleted(t)' = {}
        /\ \A s \in Requests \ {t} :
              Pending(s)' = Pending(s) /\ Deleted(s)' = Deleted(s)
        /\ \A r : Dropping(r)' => Dropping(r)
        /\ \A o : Taken(o)' <=> Taken(o)
    BY <1>1, IdleTx DEF Pending, Deleted, Dropping, Taken
  <1>5. LocksHold'
    BY <1>1, <1>4, IdleTx DEF RowInv, LocksHold
  <1> QED
    BY <1>2, <1>3, <1>5 DEF RowInv

\* A request whose object is written or removed, or whose removal is queued.
LEMMA GotoRow ==
  ASSUME TypeOK, RowInv, NEW t \in Requests, NEW pc, Goto(t, pc),
         \/ tx[t].pc = "inserted" /\ pc = "completed"
         \/ tx[t].pc = "adel" /\ pc = "adelgone"
         \/ tx[t].pc = "rqueue" /\ pc = "rdel",
         UNCHANGED <<name, fresh, rows>>
  PROVE  RowInv'
  <1> USE DEF Live
  <1>1. /\ tx'[t] = [pc |-> pc, repo |-> tx[t].repo, name |-> tx[t].name,
                     rows |-> tx[t].rows,
                     found |-> tx[t].found]
        /\ \A s \in Requests \ {t} : tx'[s] = tx[s]
    BY GotoTx
  <1>2. RequestsShaped'
    BY <1>1 DEF RowInv, RequestsShaped, Uploading, RowsOf
  <1>3. RowsKeyed'
    BY DEF RowInv, RowsKeyed
  <1>4. /\ \A s \in Requests :
              Pending(s)' = Pending(s) /\ Deleted(s)' = Deleted(s)
        /\ \A r : Dropping(r)' => Dropping(r)
        /\ \A o : Taken(o)' <=> Taken(o)
    BY <1>1 DEF Pending, Deleted, Dropping, Taken
  <1>5. LocksHold'
    BY <1>1, <1>4 DEF RowInv, LocksHold
  <1> QED
    BY <1>2, <1>3, <1>5 DEF RowInv

LEMMA UploadBeginRow ==
  ASSUME TypeOK, RowInv, NEW t \in Requests, NEW row \in Row,
         UploadBegin(t, row)
  PROVE  RowInv'
  <1> USE DEF Live
  <1>1. /\ tx'[t] = [pc |-> "upload", repo |-> row.repo,
                     name |-> name[row.repo], rows |-> {row}, found |-> {}]
        /\ \A s \in Requests \ {t} : tx'[s] = tx[s]
    BY UploadBeginType
  <1>2. /\ tx[t].pc = "idle" /\ name[row.repo] # None
        /\ UNCHANGED <<name, fresh, rows>>
    BY DEF UploadBegin
  <1>3. /\ row.repo \in Repos \ fresh
        /\ name[row.repo] \in Names
    BY <1>2 DEF RowInv, RowsKeyed, TypeOK, Row
  <1>4. RequestsShaped'
    BY <1>1, <1>2, <1>3 DEF RowInv, RequestsShaped, Uploading, RowsOf
  <1>5. RowsKeyed'
    BY <1>2 DEF RowInv, RowsKeyed
  <1>6. /\ \A s \in Requests :
              Pending(s)' = Pending(s) /\ Deleted(s)' = Deleted(s)
        /\ \A r : Dropping(r)' => Dropping(r)
        /\ \A o : Taken(o)' <=> Taken(o)
    BY <1>1, <1>2 DEF Pending, Deleted, Dropping, Taken
  <1>7. LocksHold'
    BY <1>1, <1>2, <1>6 DEF RowInv, LocksHold
  <1> QED
    BY <1>4, <1>5, <1>7 DEF RowInv

\* What an upload's INSERT has found when it goes on.
LEMMA UploadInsertFacts ==
  ASSUME TypeOK, RowInv, NEW t \in Requests, UploadInsert(t)
  PROVE  \/ End(t)
         \/ /\ Goto(t, "inserted")
            /\ \E row \in Row :
                  /\ tx[t].rows = {row} /\ row.repo = tx[t].repo
                  /\ Live(row.repo) /\ ~Taken(row) /\ ~KeyPending(t, row)
  <1>1. tx[t].pc = "upload"
    BY DEF UploadInsert
  <1>2. PICK row \in Row : tx[t].rows = {row} /\ row.repo = tx[t].repo
    BY <1>1 DEF RowInv, RequestsShaped, Uploading
  <1> QED
    BY <1>2 DEF UploadInsert

LEMMA UploadInsertRow ==
  ASSUME TypeOK, RowInv, NEW t \in Requests, UploadInsert(t)
  PROVE  RowInv'
  <1> USE DEF Live
  <1>1. /\ tx[t].pc = "upload" /\ ~Dropping(tx[t].repo)
        /\ UNCHANGED <<name, fresh, rows>>
    BY DEF UploadInsert
  <1>2. CASE End(t)
    BY <1>1, <1>2, EndRow
  <1>3. CASE Goto(t, "inserted")
             /\ \E row \in Row :
                  /\ tx[t].rows = {row} /\ row.repo = tx[t].repo
                  /\ Live(row.repo) /\ ~Taken(row) /\ ~KeyPending(t, row)
    <2>1. PICK row \in Row :
            /\ tx[t].rows = {row} /\ row.repo = tx[t].repo
            /\ Live(row.repo) /\ ~Taken(row) /\ ~KeyPending(t, row)
      BY <1>3
    <2>2. /\ tx'[t] = [pc |-> "inserted", repo |-> tx[t].repo,
                       name |-> tx[t].name, rows |-> {row},
                       found |-> tx[t].found]
          /\ \A s \in Requests \ {t} : tx'[s] = tx[s]
      <3>1. /\ tx'[t] = [pc |-> "inserted", repo |-> tx[t].repo,
                         name |-> tx[t].name, rows |-> tx[t].rows,
                         found |-> tx[t].found]
            /\ \A s \in Requests \ {t} : tx'[s] = tx[s]
        BY <1>3, GotoTx
      <3> QED
        BY <2>1, <3>1
    <2>3. RequestsShaped'
      BY <1>1, <2>1, <2>2 DEF RowInv, RequestsShaped, Uploading, RowsOf
    <2>4. RowsKeyed'
      BY <1>1 DEF RowInv, RowsKeyed
    <2>5. /\ Pending(t)' = {row} /\ Deleted(t)' = Deleted(t)
          /\ \A s \in Requests \ {t} :
                Pending(s)' = Pending(s) /\ Deleted(s)' = Deleted(s)
          /\ \A r : Dropping(r)' => Dropping(r)
          /\ \A o : Taken(o)' <=> Taken(o)
      BY <1>1, <2>2 DEF Pending, Deleted, Dropping, Taken
    <2>6. \A s \in Requests \ {t} : \A o \in Pending(s) :
             ~SameKey(o, row) /\ ~SameKey(row, o)
      BY <2>1 DEF KeyPending, SameKey
    <2>7. LocksHold'
      <3>1. \A s \in Requests : \A o \in Pending(s)' :
               name'[o.repo] # None /\ ~Dropping(o.repo)' /\ ~Taken(o)'
        <4> TAKE s \in Requests
        <4>1. CASE s = t
          BY <1>1, <2>1, <2>5, <4>1
        <4>2. CASE s # t
          BY <1>1, <2>5, <4>2 DEF RowInv, LocksHold
        <4> QED
          BY <4>1, <4>2
      <3>2. \A s, u \in Requests : s # u =>
               \A o \in Pending(s)', p \in Pending(u)' : ~SameKey(o, p)
        BY <2>5, <2>6 DEF RowInv, LocksHold
      <3>3. \A s, u \in Requests : s # u => Deleted(s)' \cap Deleted(u)' = {}
        BY <2>5 DEF RowInv, LocksHold
      <3>4. \A s, u \in Requests :
               tx'[s].pc \in {"rqueue", "rdel"} /\ tx'[u].pc \in {"rqueue", "rdel"}
               /\ tx'[s].repo = tx'[u].repo => s = u
        BY <2>2 DEF RowInv, LocksHold
      <3> QED
        BY <3>1, <3>2, <3>3, <3>4 DEF LocksHold, SameKey
    <2> QED
      BY <2>3, <2>4, <2>7 DEF RowInv
  <1> QED
    BY <1>2, <1>3, UploadInsertFacts

LEMMA UploadCommitRow ==
  ASSUME TypeOK, RowInv, NEW t \in Requests, UploadCommit(t)
  PROVE  RowInv'
  <1> USE DEF Live
  <1>1. /\ tx[t].pc = "completed" /\ rows' = rows \cup tx[t].rows
        /\ UNCHANGED <<name, fresh>>
    BY DEF UploadCommit
  <1>2. PICK row \in Row : tx[t].rows = {row} /\ row.repo = tx[t].repo
    BY <1>1 DEF RowInv, RequestsShaped, Uploading
  <1>3. /\ tx'[t] = Idle
        /\ \A s \in Requests \ {t} : tx'[s] = tx[s]
    BY EndTx DEF UploadCommit
  <1>4. row \in Pending(t)
    BY <1>1, <1>2 DEF Pending
  <1>5. name[row.repo] # None /\ ~Dropping(row.repo) /\ ~Taken(row)
    BY <1>4 DEF RowInv, LocksHold
  <1>6. RequestsShaped'
    <2> SUFFICES ASSUME NEW s \in Requests
                 PROVE  /\ Uploading(s)' =>
                             /\ tx'[s].repo \in Repos \ fresh'
                             /\ tx'[s].name \in Names
                             /\ \E o \in Row : tx'[s].rows = {o}
                                               /\ o.repo = tx'[s].repo
                        /\ tx'[s].pc \in {"adel", "adelgone"} =>
                             \E o \in rows' : tx'[s].rows = {o}
                                              /\ o.repo = tx'[s].repo
                        /\ tx'[s].pc = "rsweep" =>
                             /\ tx'[s].repo \in Repos
                             /\ tx'[s].rows \subseteq RowsOf(tx[s].repo)'
                             /\ tx'[s].repo = tx[s].repo
                        /\ tx'[s].pc = "import" => tx'[s].repo \in Repos
                        /\ tx'[s].pc = "rqueue" =>
                             tx'[s].name = name'[tx'[s].repo] /\ tx'[s].rows # {}
                        /\ tx'[s].pc \in {"rqueue", "rdel"} =>
                             /\ tx'[s].repo \in Repos
                             /\ name'[tx'[s].repo] # None
                             /\ tx'[s].rows = {o \in rows' : o.repo = tx'[s].repo}
      BY DEF RequestsShaped, RowsOf
    <2>1. CASE s = t
      BY <1>3, <2>1, IdleTx DEF Uploading
    <2>2. CASE s # t
      <3>1. tx[s].pc \in {"rqueue", "rdel"} => row.repo # tx[s].repo
        BY <1>5 DEF Dropping
      <3> QED
        BY <1>1, <1>2, <1>3, <2>2, <3>1
           DEF RowInv, RequestsShaped, Uploading, RowsOf
    <2> QED
      BY <2>1, <2>2
  <1>7. RowsKeyed'
    BY <1>1, <1>2, <1>5 DEF RowInv, RowsKeyed, Taken, SameKey
  <1>8. /\ Pending(t)' = {} /\ Deleted(t)' = {}
        /\ \A s \in Requests \ {t} :
              Pending(s)' = Pending(s) /\ Deleted(s)' = Deleted(s)
        /\ \A r : Dropping(r)' => Dropping(r)
        /\ \A o : Taken(o)' => Taken(o) \/ SameKey(row, o)
    BY <1>1, <1>2, <1>3, IdleTx DEF Pending, Deleted, Dropping, Taken
  <1>9. LocksHold'
    <2>1. \A s \in Requests \ {t} : \A o \in Pending(s) : ~SameKey(row, o)
      BY <1>4 DEF RowInv, LocksHold
    <2> QED
      BY <1>1, <1>3, <1>8, <2>1, IdleTx DEF RowInv, LocksHold
  <1> QED
    BY <1>6, <1>7, <1>9 DEF RowInv

LEMMA ArtifactDeleteRow ==
  ASSUME TypeOK, RowInv, NEW t \in Requests, NEW row \in Row,
         ArtifactDelete(t, row)
  PROVE  RowInv'
  <1> USE DEF Live
  <1>1. /\ tx'[t] = [pc |-> "adel", repo |-> row.repo,
                     name |-> name[row.repo], rows |-> {row}, found |-> {}]
        /\ \A s \in Requests \ {t} : tx'[s] = tx[s]
    BY ArtifactDeleteType
  <1>2. /\ tx[t].pc = "idle" /\ row \in rows
        /\ \A s \in Requests : row \notin Deleted(s)
        /\ UNCHANGED <<name, fresh, rows>>
    BY DEF ArtifactDelete
  <1>3. RequestsShaped'
    BY <1>1, <1>2 DEF RowInv, RequestsShaped, Uploading, RowsOf
  <1>4. RowsKeyed'
    BY <1>2 DEF RowInv, RowsKeyed
  <1>5. /\ \A s \in Requests : Pending(s)' = Pending(s)
        /\ Deleted(t)' = {row}
        /\ \A s \in Requests \ {t} : Deleted(s)' = Deleted(s)
        /\ \A r : Dropping(r)' => Dropping(r)
        /\ \A o : Taken(o)' <=> Taken(o)
    BY <1>1, <1>2 DEF Pending, Deleted, Dropping, Taken
  <1>6. LocksHold'
    BY <1>1, <1>2, <1>5 DEF RowInv, LocksHold
  <1> QED
    BY <1>3, <1>4, <1>6 DEF RowInv

LEMMA ArtifactCommitRow ==
  ASSUME TypeOK, RowInv, NEW t \in Requests, ArtifactCommit(t)
  PROVE  RowInv'
  <1> USE DEF Live
  <1>1. /\ tx[t].pc = "adelgone" /\ rows' = rows \ tx[t].rows
        /\ UNCHANGED <<name, fresh>>
    BY DEF ArtifactCommit
  <1>2. /\ tx'[t] = Idle
        /\ \A s \in Requests \ {t} : tx'[s] = tx[s]
    BY EndTx DEF ArtifactCommit
  <1>3. Deleted(t) = tx[t].rows
    BY <1>1 DEF Deleted
  <1>4. \A s \in Requests \ {t} : Deleted(s) \cap tx[t].rows = {}
    BY <1>3 DEF RowInv, LocksHold
  <1>5. RequestsShaped'
    <2> SUFFICES ASSUME NEW s \in Requests \ {t}
                 PROVE  /\ tx[s].pc \in {"adel", "adelgone"} =>
                             \E o \in rows' : tx[s].rows = {o}
                                              /\ o.repo = tx[s].repo
                        /\ tx[s].pc = "rsweep" =>
                             tx[s].rows \subseteq
                               {o \in rows' : o.repo = tx[s].repo}
                        /\ tx[s].pc \in {"rqueue", "rdel"} =>
                             tx[s].rows = {o \in rows' : o.repo = tx[s].repo}
      BY <1>1, <1>2, IdleTx DEF RowInv, RequestsShaped, Uploading, RowsOf
    <2>1. tx[s].pc \in {"adel", "adelgone", "rsweep", "rqueue", "rdel"} =>
             tx[s].rows \cap tx[t].rows = {}
      BY <1>4 DEF Deleted
    <2> QED
      BY <1>1, <2>1 DEF RowInv, RequestsShaped, RowsOf
  <1>6. RowsKeyed'
    BY <1>1 DEF RowInv, RowsKeyed
  <1>7. /\ Pending(t)' = {} /\ Deleted(t)' = {}
        /\ \A s \in Requests \ {t} :
              Pending(s)' = Pending(s) /\ Deleted(s)' = Deleted(s)
        /\ \A r : Dropping(r)' => Dropping(r)
        /\ \A o : Taken(o)' => Taken(o)
    BY <1>1, <1>2, IdleTx DEF Pending, Deleted, Dropping, Taken
  <1>8. LocksHold'
    BY <1>1, <1>2, <1>7, IdleTx DEF RowInv, LocksHold
  <1> QED
    BY <1>5, <1>6, <1>8 DEF RowInv

LEMMA RepoSweepRow ==
  ASSUME TypeOK, RowInv, NEW t \in Requests, NEW r \in Repos, RepoSweep(t, r)
  PROVE  RowInv'
  <1> USE DEF Live
  <1>1. /\ tx'[t] = [pc |-> "rsweep", repo |-> r, name |-> None,
                     rows |-> RowsOf(r), found |-> {}]
        /\ \A s \in Requests \ {t} : tx'[s] = tx[s]
    BY RepoSweepType
  <1>2. /\ tx[t].pc = "idle" /\ ~Sweeping(t, r)
        /\ UNCHANGED <<name, fresh, rows>>
    BY DEF RepoSweep
  <1>3. RequestsShaped'
    BY <1>1, <1>2 DEF RowInv, RequestsShaped, Uploading, RowsOf
  <1>4. RowsKeyed'
    BY <1>2 DEF RowInv, RowsKeyed
  <1>5. /\ \A s \in Requests : Pending(s)' = Pending(s)
        /\ Deleted(t)' = RowsOf(r)
        /\ \A s \in Requests \ {t} : Deleted(s)' = Deleted(s)
        /\ \A q : Dropping(q)' => Dropping(q)
        /\ \A o : Taken(o)' <=> Taken(o)
    BY <1>1, <1>2 DEF Pending, Deleted, Dropping, Taken
  <1>6. \A s \in Requests \ {t} : Deleted(s) \cap RowsOf(r) = {}
    BY <1>2 DEF Sweeping, RowsOf
  <1>7. LocksHold'
    BY <1>1, <1>2, <1>5, <1>6 DEF RowInv, LocksHold
  <1> QED
    BY <1>3, <1>4, <1>7 DEF RowInv

LEMMA RepoDeleteRow ==
  ASSUME TypeOK, RowInv, NEW t \in Requests, RepoDelete(t)
  PROVE  RowInv'
  <1> USE DEF Live
  <1> DEFINE r == tx[t].repo
  <1>1. /\ tx[t].pc = "rsweep" /\ ~Sweeping(t, r) /\ ~Shares(r) /\ ~Dropping(r)
        /\ UNCHANGED <<name, fresh, rows>>
    BY DEF RepoDelete
  <1>2. r \in Repos
    BY <1>1 DEF RowInv, RequestsShaped
  <1>3. CASE name[r] = None
    BY <1>1, <1>3, EndRow DEF RepoDelete
  <1>4. CASE name[r] # None
    <2>1. /\ tx'[t].pc \in {"rqueue", "rdel"} /\ tx'[t].repo = r
          /\ tx'[t].name = name[r] /\ tx'[t].rows = RowsOf(r)
          /\ tx'[t].pc = "rqueue" => RowsOf(r) # {}
          /\ \A s \in Requests \ {t} : tx'[s] = tx[s]
      BY <1>1, <1>2, <1>4, RepoDeleteType DEF RowInv, RequestsShaped
    <2>2. RequestsShaped'
      BY <1>1, <1>2, <1>4, <2>1 DEF RowInv, RequestsShaped, Uploading, RowsOf
    <2>3. RowsKeyed'
      BY <1>1 DEF RowInv, RowsKeyed
    <2>4. /\ \A s \in Requests : Pending(s)' = Pending(s)
          /\ Deleted(t)' = RowsOf(r)
          /\ \A s \in Requests \ {t} : Deleted(s)' = Deleted(s)
          /\ \A q : Dropping(q)' => Dropping(q) \/ q = r
          /\ \A o : Taken(o)' <=> Taken(o)
      BY <1>1, <2>1 DEF Pending, Deleted, Dropping, Taken
    <2>5. \A s \in Requests \ {t} : Deleted(s) \cap RowsOf(r) = {}
      BY <1>1 DEF Sweeping, RowsOf
    <2>6. \A s \in Requests : \A o \in Pending(s) : o.repo # r
      BY <1>1 DEF Shares
    <2>7. \A s \in Requests : tx[s].pc \in {"rqueue", "rdel"} => tx[s].repo # r
      BY <1>1 DEF Dropping
    <2>8. LocksHold'
      <3>1. \A s \in Requests : \A o \in Pending(s)' :
               name'[o.repo] # None /\ ~Dropping(o.repo)' /\ ~Taken(o)'
        BY <1>1, <2>4, <2>6 DEF RowInv, LocksHold
      <3>2. \A s, u \in Requests : s # u => Deleted(s)' \cap Deleted(u)' = {}
        BY <2>4, <2>5 DEF RowInv, LocksHold
      <3>3. \A s, u \in Requests :
               tx'[s].pc \in {"rqueue", "rdel"} /\ tx'[u].pc \in {"rqueue", "rdel"}
               /\ tx'[s].repo = tx'[u].repo => s = u
        BY <2>1, <2>7 DEF RowInv, LocksHold
      <3> QED
        BY <2>4, <3>1, <3>2, <3>3 DEF RowInv, LocksHold
    <2> QED
      BY <2>2, <2>3, <2>8 DEF RowInv
  <1> QED
    BY <1>3, <1>4

LEMMA RepoCommitRow ==
  ASSUME TypeOK, RowInv, NEW t \in Requests, RepoCommit(t)
  PROVE  RowInv'
  <1> USE DEF Live
  <1> DEFINE r == tx[t].repo
  <1>1. /\ tx[t].pc = "rdel" /\ rows' = rows \ RowsOf(r)
        /\ name' = [name EXCEPT ![r] = None]
        /\ UNCHANGED fresh
    BY DEF RepoCommit
  <1>2. /\ r \in Repos /\ tx[t].rows = RowsOf(r)
        /\ Deleted(t) = RowsOf(r)
    BY <1>1 DEF RowInv, RequestsShaped, Deleted
  <1>3. /\ tx'[t] = Idle
        /\ \A s \in Requests \ {t} : tx'[s] = tx[s]
    BY EndTx DEF RepoCommit
  <1>4. name'[r] = None /\ \A q \in Repos \ {r} : name'[q] = name[q]
    BY <1>1, <1>2 DEF TypeOK
  <1>5. \A s \in Requests \ {t} : Deleted(s) \cap RowsOf(r) = {}
    BY <1>2 DEF RowInv, LocksHold
  <1>6. RequestsShaped'
    <2> SUFFICES ASSUME NEW s \in Requests \ {t}
                 PROVE  /\ tx[s].pc \in {"adel", "adelgone"} =>
                             \E o \in rows' : tx[s].rows = {o}
                                              /\ o.repo = tx[s].repo
                        /\ tx[s].pc = "rsweep" =>
                             tx[s].rows \subseteq
                               {o \in rows' : o.repo = tx[s].repo}
                        /\ tx[s].pc = "rqueue" => tx[s].name = name'[tx[s].repo]
                        /\ tx[s].pc \in {"rqueue", "rdel"} =>
                             /\ name'[tx[s].repo] # None
                             /\ tx[s].rows = {o \in rows' : o.repo = tx[s].repo}
      BY <1>1, <1>3, IdleTx DEF RowInv, RequestsShaped, Uploading, RowsOf
    <2>1. tx[s].pc \in {"adel", "adelgone", "rsweep", "rqueue", "rdel"} =>
             tx[s].rows \cap RowsOf(r) = {}
      BY <1>5 DEF Deleted
    <2>2. tx[s].pc \in {"rqueue", "rdel"} => tx[s].repo \in Repos \ {r}
      BY <1>1 DEF RowInv, RequestsShaped, LocksHold
    <2> QED
      BY <1>1, <1>4, <2>1, <2>2 DEF RowInv, RequestsShaped, RowsOf
  <1>7. RowsKeyed'
    <2>1. \A row \in rows' : row.repo \in Repos \ {r}
      BY <1>1 DEF RowsOf, TypeOK, Row
    <2>2. \A row \in rows' : name'[row.repo] # None
      BY <1>1, <1>4, <2>1 DEF RowInv, RowsKeyed
    <2>3. \A q \in fresh' : name'[q] = None
      BY <1>1, <1>4 DEF RowInv, RowsKeyed, TypeOK
    <2>4. \A p, q \in Repos : name'[p] # None /\ name'[p] = name'[q] => p = q
      BY <1>4 DEF RowInv, RowsKeyed
    <2> QED
      BY <1>1, <2>2, <2>3, <2>4 DEF RowInv, RowsKeyed
  <1>8. /\ Pending(t)' = {} /\ Deleted(t)' = {}
        /\ \A s \in Requests \ {t} :
              Pending(s)' = Pending(s) /\ Deleted(s)' = Deleted(s)
        /\ \A q : Dropping(q)' => Dropping(q)
        /\ \A o : Taken(o)' => Taken(o)
    BY <1>1, <1>3, IdleTx DEF Pending, Deleted, Dropping, Taken
  <1>9. LocksHold'
    <2>1. \A s \in Requests : \A o \in Pending(s) : o.repo \in Repos \ {r}
      <3>1. Dropping(r)
        BY <1>1 DEF Dropping
      <3>2. \A s \in Requests : \A o \in Pending(s) : o.repo \in Repos
        BY TxTyped DEF Pending, Row
      <3> QED
        BY <3>1, <3>2 DEF RowInv, LocksHold
    <2>2. \A s \in Requests : \A o \in Pending(s)' :
             name'[o.repo] # None /\ ~Dropping(o.repo)' /\ ~Taken(o)'
      BY <1>4, <1>8, <2>1 DEF RowInv, LocksHold
    <2> QED
      BY <1>3, <1>8, <2>2, IdleTx DEF RowInv, LocksHold
  <1> QED
    BY <1>6, <1>7, <1>9 DEF RowInv

LEMMA EnlistsNobody == UNCHANGED tx => Enlists
  BY DEF Enlists

\* A repository gets a name no other has: it is new, or it is renamed.
LEMMA NameRow ==
  ASSUME TypeOK, RowInv, NEW r \in Repos, NEW n \in Names, NameFree(n),
         name' = [name EXCEPT ![r] = n],
         \/ r \in fresh /\ fresh' = fresh \ {r}
         \/ Live(r) /\ ~Dropping(r) /\ UNCHANGED fresh,
         UNCHANGED rows, Enlists
  PROVE  /\ RowInv'
         /\ name'[r] = n
         /\ \A q \in Repos \ {r} : name'[q] = name[q]
  <1> USE DEF Live
  <1>1. name'[r] = n /\ \A q \in Repos \ {r} : name'[q] = name[q]
    BY DEF TypeOK
  <1>2. \A q \in Repos : name[q] # None => name'[q] # None
    BY <1>1, NoneAssumption
  <1>3. RequestsShaped'
    <2>1. \A t \in Requests : Uploading(t) => tx[t].repo \in Repos \ fresh'
      BY DEF RowInv, RequestsShaped
    <2>2. \A t \in Requests : tx[t].pc = "rqueue" => tx[t].repo \in Repos \ {r}
      BY DEF RowInv, RequestsShaped, RowsKeyed, Dropping
    <2>3. ASSUME NEW t \in Requests, tx'[t] # tx[t]
          PROVE  tx'[t].pc = "import" /\ tx'[t].repo \in Repos
      BY <2>3 DEF Enlists
    <2> QED
      BY <1>1, <1>2, <2>1, <2>2, <2>3 DEF RowInv, RequestsShaped, Uploading, RowsOf
  <1>4. RowsKeyed'
    <2>1. \A row \in rows : row.repo \in Repos
      BY DEF TypeOK, Row
    <2>2. \A p, q \in Repos : name'[p] # None /\ name'[p] = name'[q] => p = q
      BY <1>1 DEF RowInv, RowsKeyed, NameFree
    <2>3. \A q \in fresh' : name'[q] = None
      BY <1>1 DEF RowInv, RowsKeyed, TypeOK
    <2> QED
      BY <1>2, <2>1, <2>2, <2>3 DEF RowInv, RowsKeyed
  <1>5. /\ \A s \in Requests :
              Pending(s)' = Pending(s) /\ Deleted(s)' = Deleted(s)
        /\ \A q : Dropping(q)' => Dropping(q)
        /\ \A o : Taken(o)' <=> Taken(o)
        /\ \A s \in Requests :
              tx'[s].pc \in {"rqueue", "rdel"} => tx'[s] = tx[s]
    BY DEF Enlists, Pending, Deleted, Dropping, Taken
  <1>6. LocksHold'
    <2>1. \A s \in Requests : \A o \in Pending(s) : o.repo \in Repos
      BY TxTyped DEF Pending, Row
    <2>2. \A s \in Requests : \A o \in Pending(s)' :
             name'[o.repo] # None /\ ~Dropping(o.repo)' /\ ~Taken(o)'
      BY <1>2, <1>5, <2>1 DEF RowInv, LocksHold
    <2> QED
      BY <1>5, <2>2 DEF RowInv, LocksHold
  <1> QED
    BY <1>1, <1>3, <1>4, <1>6 DEF RowInv

\* The transaction of a deletion that waits is rolled back.
LEMMA ExpireRow ==
  ASSUME TypeOK, RowInv, NEW t \in Requests, Expire(t)
  PROVE  RowInv'
  <1> USE DEF Live
  <1>1. /\ tx[t].pc = "rqueue" /\ UNCHANGED <<name, fresh, rows>>
        /\ tx'[t].pc = "orphan" /\ tx'[t].rows = {}
        /\ \A s \in Requests \ {t} : tx'[s] = tx[s]
    BY ExpireType DEF Expire
  <1>2. RequestsShaped'
    BY <1>1 DEF RowInv, RequestsShaped, Uploading, RowsOf
  <1>3. RowsKeyed'
    BY <1>1 DEF RowInv, RowsKeyed
  <1>4. /\ Pending(t)' = {} /\ Deleted(t)' = {}
        /\ \A s \in Requests \ {t} :
              Pending(s)' = Pending(s) /\ Deleted(s)' = Deleted(s)
        /\ \A r : Dropping(r)' => Dropping(r)
        /\ \A o : Taken(o)' <=> Taken(o)
    BY <1>1 DEF Pending, Deleted, Dropping, Taken
  <1>5. LocksHold'
    BY <1>1, <1>4 DEF RowInv, LocksHold
  <1> QED
    BY <1>2, <1>3, <1>5 DEF RowInv

LEMMA CrashRow ==
  ASSUME TypeOK, RowInv, Crash
  PROVE  RowInv'
  <1>1. /\ \A t \in Requests : tx'[t] = Idle
        /\ UNCHANGED <<name, fresh, rows>>
    BY DEF Crash
  <1>2. \A t \in Requests : Pending(t)' = {} /\ Deleted(t)' = {}
    BY <1>1, IdleTx DEF Pending, Deleted
  <1> QED
    BY <1>1, <1>2, IdleTx DEF RowInv, RequestsShaped, RowsKeyed, LocksHold,
       Uploading, Live

LEMMA RowStep ==
  ASSUME TypeOK, RowInv, [Next]_vars
  PROVE  RowInv'
  <1>1. ASSUME NEW r \in Repos, NEW n \in Names, CreateRepository(r, n)
        PROVE  RowInv'
    BY <1>1, NameRow, EnlistsNobody DEF CreateRepository
  <1>2. ASSUME NEW r \in Repos, NEW n \in Names, RenameRepository(r, n)
        PROVE  RowInv'
    BY <1>2, NameRow, EnlistsNobody DEF RenameRepository
  <1>3. ASSUME NEW t \in Requests, Step(t)
        PROVE  RowInv'
    <2>1. CASE UploadInsert(t)
      BY <2>1, UploadInsertRow
    <2>2. CASE UploadComplete(t)
      BY <2>2, GotoRow DEF UploadComplete
    <2>3. CASE UploadCommit(t)
      BY <2>3, UploadCommitRow
    <2>4. CASE ArtifactRemove(t)
      BY <2>4, GotoRow DEF ArtifactRemove
    <2>5. CASE ArtifactCommit(t)
      BY <2>5, ArtifactCommitRow
    <2>6. CASE RepoDelete(t)
      BY <2>6, RepoDeleteRow
    <2>7. CASE DeadlockVictim(t)
      BY <2>7, EndRow DEF DeadlockVictim
    <2>8. CASE RepoCommit(t)
      BY <2>8, RepoCommitRow
    <2>9. CASE RepoQueue(t)
      BY <2>9, GotoRow DEF RepoQueue
    <2>10. CASE OrphanQueue(t)
      BY <2>10, EndRow DEF OrphanQueue
    <2>11. CASE Clone(t)
      BY <2>11, EndRow DEF Clone
    <2> QED
      BY <1>3, <2>1, <2>2, <2>3, <2>4, <2>5, <2>6, <2>7, <2>8, <2>9, <2>10,
         <2>11, ExpireRow DEF Step
  <1>4. ASSUME NEW t \in Requests, Abort(t)
        PROVE  RowInv'
    BY <1>4, EndRow DEF Abort
  <1>5. ASSUME Work
        PROVE  RowInv'
    BY <1>5 DEF Work, DeleteArtifacts, CloneDone, RowInv, RequestsShaped,
       RowsKeyed, LocksHold, Uploading, Pending, Deleted, Dropping, Taken, RowsOf, Live
  <1>6. CASE UNCHANGED vars
    BY <1>6 DEF vars, RowInv, RequestsShaped, RowsKeyed, LocksHold,
       Uploading, Pending, Deleted, Dropping, Taken, RowsOf, Live
  <1>7. ASSUME NEW t \in Requests, NEW r \in Repos, NEW n \in Names,
               CreateImport(t, r, n)
        PROVE  RowInv'
    <2>1. Enlists
      BY <1>7, CreateImportType
    <2> QED
      BY <1>7, <2>1, NameRow DEF CreateImport
  <1> QED
    BY <1>1, <1>2, <1>3, <1>4, <1>5, <1>6, <1>7, UploadBeginRow,
       ArtifactDeleteRow, RepoSweepRow, CrashRow DEF Next

\* What was let part stays so.
LEMMA TornGrows == [Next]_vars => torn \subseteq torn'
  <1>1. ASSUME NEW t \in Requests, Step(t)
        PROVE  torn \subseteq torn'
    BY <1>1 DEF Step, UploadInsert, UploadComplete, UploadCommit,
       ArtifactRemove, ArtifactCommit, RepoDelete, DeadlockVictim, RepoQueue,
       RepoCommit, Expire, OrphanQueue, Clone
  <1>2. ASSUME Work \/ Crash
        PROVE  torn \subseteq torn'
    BY <1>2 DEF Work, DeleteArtifacts, CloneDone, Crash
  <1> QED
    BY <1>1, <1>2 DEF Next, vars, CreateRepository, RenameRepository,
       CreateImport, UploadBegin, ArtifactDelete, RepoSweep, Abort

LEMMA WaitersStep ==
  ASSUME TypeOK, RowInv, WaitersShaped, [Next]_vars
  PROVE  WaitersShaped'
  <1>1. torn \subseteq torn'
    BY TornGrows
  <1>2. ASSUME NEW t \in Requests, \A s \in Requests \ {t} : tx'[s] = tx[s],
               /\ tx'[t].pc = "rqueue" /\ "raced" \notin torn' =>
                    \A row \in tx'[t].rows : row.file \in tx'[t].found
               /\ tx'[t].pc = "orphan" =>
                    "rolled" \in torn' /\ tx'[t].name \in Names
        PROVE  WaitersShaped'
    BY <1>1, <1>2 DEF WaitersShaped
  <1>3. ASSUME NEW t \in Requests,
               End(t) \/ \E pc \in {"inserted", "completed", "adelgone", "rdel"} :
                            Goto(t, pc)
        PROVE  WaitersShaped'
    <2>1. /\ tx'[t].pc \notin {"orphan", "rqueue"}
          /\ \A s \in Requests \ {t} : tx'[s] = tx[s]
      BY <1>3, EndTx, GotoPc, IdleTx
    <2> QED
      BY <1>2, <2>1
  <1>4. ASSUME NEW t \in Requests, Expire(t)
        PROVE  WaitersShaped'
    <2>1. tx[t].name \in Names
      BY <1>4 DEF Expire, RowInv, RequestsShaped, Live, TypeOK
    <2> QED
      BY <1>2, <1>4, <2>1, ExpireType DEF Expire
  <1>5. ASSUME NEW t \in Requests, RepoDelete(t)
        PROVE  WaitersShaped'
    <2>1. tx[t].repo \in Repos
      BY <1>5 DEF RepoDelete, RowInv, RequestsShaped
    <2>2. CASE Live(tx[t].repo)
      BY <1>2, <1>5, <2>1, <2>2, RepoDeleteType
    <2>3. CASE ~Live(tx[t].repo)
      BY <1>3, <1>5, <2>3 DEF RepoDelete
    <2> QED
      BY <2>2, <2>3
  <1>6. ASSUME NEW t \in Requests, Step(t)
        PROVE  WaitersShaped'
    BY <1>3, <1>4, <1>5, <1>6, UploadInsertFacts
       DEF Step, UploadComplete, UploadCommit, ArtifactRemove, ArtifactCommit,
           DeadlockVictim, RepoQueue, RepoCommit, OrphanQueue, Clone
  <1>7. ASSUME NEW t \in Requests, NEW row \in Row,
               UploadBegin(t, row) \/ ArtifactDelete(t, row)
        PROVE  WaitersShaped'
    <2>1. /\ tx'[t].pc \in {"upload", "adel"}
          /\ \A s \in Requests \ {t} : tx'[s] = tx[s]
      <3>1. CASE UploadBegin(t, row)
        <4>1. /\ tx'[t] = [pc |-> "upload", repo |-> row.repo,
                           name |-> name[row.repo], rows |-> {row},
                           found |-> {}]
              /\ \A s \in Requests \ {t} : tx'[s] = tx[s]
          BY <3>1, UploadBeginType
        <4> QED
          BY <4>1
      <3>2. CASE ArtifactDelete(t, row)
        <4>1. /\ tx'[t] = [pc |-> "adel", repo |-> row.repo,
                           name |-> name[row.repo], rows |-> {row},
                           found |-> {}]
              /\ \A s \in Requests \ {t} : tx'[s] = tx[s]
          BY <3>2, ArtifactDeleteType
        <4> QED
          BY <4>1
      <3> QED
        BY <1>7, <3>1, <3>2
    <2> QED
      BY <1>2, <2>1
  <1>8. ASSUME NEW t \in Requests, NEW r \in Repos, RepoSweep(t, r)
        PROVE  WaitersShaped'
    <2>1. tx'[t].pc = "rsweep" /\ \A s \in Requests \ {t} : tx'[s] = tx[s]
      <3>1. /\ tx'[t] = [pc |-> "rsweep", repo |-> r, name |-> None,
                         rows |-> RowsOf(r), found |-> {}]
            /\ \A s \in Requests \ {t} : tx'[s] = tx[s]
        BY <1>8, RepoSweepType
      <3> QED
        BY <3>1
    <2> QED
      BY <1>2, <2>1
  <1>9. ASSUME NEW t \in Requests, NEW r \in Repos, NEW n \in Names,
               CreateImport(t, r, n)
        PROVE  WaitersShaped'
    BY <1>2, <1>9, CreateImportType
  <1>10. ASSUME UNCHANGED tx
         PROVE  WaitersShaped'
    BY <1>1, <1>10 DEF WaitersShaped
  <1>11. ASSUME Crash
         PROVE  WaitersShaped'
    BY <1>11, IdleTx DEF Crash, WaitersShaped
  <1> QED
    BY <1>3, <1>6, <1>7, <1>8, <1>9, <1>10, <1>11
       DEF Next, vars, Work, CreateRepository, RenameRepository,
           DeleteArtifacts, CloneDone, Abort

\* Every behaviour keeps names and artifact rows unique, gives a row to
\* existing repositories only, and no two requests the same row: what
\* PostgreSQL's unique constraints and row locks exclude.
THEOREM RowsCorrect == Spec => [](TypeOK /\ RowInv /\ WaitersShaped)
  <1>1. Init => TypeOK /\ RowInv /\ WaitersShaped
    BY TypeInit, RowInit, IdleTx DEF Init, WaitersShaped
  <1>2. TypeOK /\ RowInv /\ WaitersShaped /\ [Next]_vars
          => (TypeOK /\ RowInv /\ WaitersShaped)'
    BY TypeStep, RowStep, WaitersStep DEF RowInv
  <1> QED
    BY <1>1, <1>2, PTL DEF Spec

\* Every behaviour of the artifact store keeps its variables within their
\* types.
THEOREM ArtifactsTyped == Spec => []TypeOK
  BY RowsCorrect, PTL

-----------------------------------------------------------------------------
(* SumInv: what is served under a checksum.                                 *)

\* What UploadComplete, and every pending upload, may rely on: its object is
\* nobody else's.
LEMMA KeyOwn ==
  ASSUME TypeOK, RowInv, NamesHold, "renamed" \notin torn,
         NEW t \in Requests, NEW row \in Pending(t)
  PROVE  /\ row \in Row /\ tx[t].rows = {row}
         /\ Live(row.repo) /\ row.repo \in Repos
         /\ tx[t].name = name[row.repo]
         /\ tx[t].name \in Names
         /\ Key(tx[t].name, row) \in Keys
         /\ \A o \in rows : Key(name[o.repo], o) # Key(tx[t].name, row)
         /\ \A s \in Requests \ {t} : \A o \in Pending(s) :
               Key(tx[s].name, o) # Key(tx[t].name, row)
  <1> USE DEF Live
  <1>1. \A s \in Requests : \A o \in Pending(s) :
           /\ o \in Row /\ o.repo \in Repos /\ o.file \in Files
           /\ tx[s].rows = {o} /\ tx[s].repo = o.repo
           /\ tx[s].name \in Names
           /\ name[o.repo] # None
           /\ tx[s].name = name[o.repo]
    <2> TAKE s \in Requests
    <2> TAKE o \in Pending(s)
    <2>1. tx[s].pc \in {"inserted", "completed"} /\ o \in tx[s].rows
      BY DEF Pending
    <2>2. /\ tx[s].name \in Names
          /\ \E q \in Row : tx[s].rows = {q} /\ q.repo = tx[s].repo
      BY <2>1 DEF RowInv, RequestsShaped, Uploading
    <2>3. name[o.repo] # None
      BY DEF RowInv, LocksHold
    <2> QED
      BY <2>1, <2>2, <2>3 DEF NamesHold, Uploading, Row
  <1>2. \A o \in rows : o.repo \in Repos /\ name[o.repo] # None
    BY DEF RowInv, RowsKeyed, TypeOK, Row
  <1>3. \A q \in Repos : name[row.repo] = name[q] => row.repo = q
    BY <1>1 DEF RowInv, RowsKeyed
  <1>4. \A o \in rows : Key(name[o.repo], o) # Key(tx[t].name, row)
    <2>1. ~Taken(row)
      BY DEF RowInv, LocksHold
    <2> QED
      BY <1>1, <1>2, <1>3, <2>1 DEF Key, Taken, SameKey
  <1>5. \A s \in Requests \ {t} : \A o \in Pending(s) :
           Key(tx[s].name, o) # Key(tx[t].name, row)
    <2>1. \A s \in Requests \ {t} : \A o \in Pending(s) : ~SameKey(o, row)
      BY DEF RowInv, LocksHold
    <2> QED
      BY <1>1, <1>3, <2>1 DEF Key, SameKey
  <1> QED
    BY <1>1, <1>4, <1>5 DEF Key, Keys

LEMMA SumInit == Init => SumInv
  BY IdleTx DEF Init, SumInv, NamesHold, CompletedHold, ChecksumHolds, Uploading

\* Objects are removed, rows and requests end, and what begins has the name
\* its repository has.
LEMMA SumShrink ==
  ASSUME TypeOK, RowInv, SumInv, torn \subseteq torn', UNCHANGED name,
         rows' \subseteq rows,
         \A k \in Keys : store'[k] \in {store[k], None},
         \A s \in Requests :
           \/ tx'[s] = tx[s]
           \/ tx'[s].pc \notin {"upload", "inserted", "completed",
                                "adel", "adelgone"}
           \/ /\ tx'[s].pc # "completed"
              /\ "renamed" \notin torn /\ Live(tx'[s].repo) =>
                    tx'[s].name = name[tx'[s].repo]
  PROVE  SumInv'
  <1> USE DEF Live
  <1>1. NamesHold'
    BY DEF SumInv, NamesHold, Uploading
  <1>2. CompletedHold'
    <2> SUFFICES ASSUME "renamed" \notin torn', NEW s \in Requests,
                        tx'[s].pc = "completed", NEW row \in tx'[s].rows
                 PROVE  store'[Key(tx'[s].name, row)] \in {row.sum, None}
      BY DEF CompletedHold, Key
    <2>1. tx'[s] = tx[s]
      OBVIOUS
    <2>2. row \in Pending(s)
      BY <2>1 DEF Pending
    <2>3. Key(tx[s].name, row) \in Keys
      BY <2>2, KeyOwn DEF SumInv
    <2>4. store[Key(tx[s].name, row)] \in {row.sum, None}
      BY <2>1 DEF SumInv, CompletedHold
    <2> QED
      BY <2>1, <2>3, <2>4
  <1>3. ChecksumHolds'
    <2> SUFFICES ASSUME "renamed" \notin torn', NEW row \in rows'
                 PROVE  store'[Key(name[row.repo], row)] \in {row.sum, None}
      BY DEF ChecksumHolds, Served, Key
    <2>1. Key(name[row.repo], row) \in Keys
      BY DEF RowInv, RowsKeyed, TypeOK, Row, Key, Keys
    <2>2. store[Key(name[row.repo], row)] \in {row.sum, None}
      BY DEF SumInv, ChecksumHolds, Served
    <2> QED
      BY <2>1, <2>2
  <1> QED
    BY <1>1, <1>2, <1>3 DEF SumInv

LEMMA UploadCompleteSum ==
  ASSUME TypeOK, RowInv, SumInv, NEW t \in Requests, UploadComplete(t)
  PROVE  SumInv'
  <1> USE DEF Live
  <1>1. /\ tx[t].pc = "inserted"
        /\ UNCHANGED <<name, rows, torn>>
    BY DEF UploadComplete
  <1> SUFFICES ASSUME "renamed" \notin torn
               PROVE  SumInv'
    BY <1>1 DEF SumInv, NamesHold, CompletedHold, ChecksumHolds
  <1>2. PICK row \in Row : tx[t].rows = {row}
    BY <1>1 DEF RowInv, RequestsShaped, Uploading
  <1>3. row \in Pending(t)
    BY <1>1, <1>2 DEF Pending
  <1> DEFINE k == Key(tx[t].name, row)
  <1>4. /\ k \in Keys
        /\ \A o \in rows : Key(name[o.repo], o) # k
        /\ \A s \in Requests \ {t} : \A o \in Pending(s) :
              Key(tx[s].name, o) # k
    BY <1>3, KeyOwn DEF SumInv
  <1>5. store' = [store EXCEPT ![k] = row.sum]
    BY <1>2 DEF UploadComplete
  <1>6. store'[k] = row.sum /\ \A j \in Keys \ {k} : store'[j] = store[j]
    BY <1>4, <1>5 DEF TypeOK
  <1>7. /\ tx'[t] = [pc |-> "completed", repo |-> tx[t].repo,
                     name |-> tx[t].name, rows |-> {row},
                     found |-> tx[t].found]
        /\ \A s \in Requests \ {t} : tx'[s] = tx[s]
    BY <1>2, GotoTx DEF UploadComplete
  <1> HIDE DEF k
  <1>8. NamesHold'
    BY <1>1, <1>7 DEF SumInv, NamesHold, Uploading
  <1>9. CompletedHold'
    <2> SUFFICES ASSUME NEW s \in Requests, tx'[s].pc = "completed",
                        NEW o \in tx'[s].rows
                 PROVE  store'[Key(tx'[s].name, o)] \in {o.sum, None}
      BY DEF CompletedHold, Key
    <2>1. CASE s = t
      BY <1>6, <1>7, <2>1 DEF k
    <2>2. CASE s # t
      <3>1. tx'[s] = tx[s]
        BY <1>7, <2>2
      <3>2. o \in Pending(s)
        BY <3>1 DEF Pending
      <3>3. Key(tx[s].name, o) \in Keys \ {k}
        BY <1>4, <2>2, <3>2, KeyOwn DEF SumInv
      <3>4. store[Key(tx[s].name, o)] \in {o.sum, None}
        BY <3>1 DEF SumInv, CompletedHold
      <3> QED
        BY <1>6, <3>1, <3>3, <3>4
    <2> QED
      BY <2>1, <2>2
  <1>10. ChecksumHolds'
    <2> SUFFICES ASSUME NEW o \in rows
                 PROVE  store'[Key(name[o.repo], o)] \in {o.sum, None}
      BY <1>1 DEF ChecksumHolds, Served, Key
    <2>1. Key(name[o.repo], o) \in Keys \ {k}
      BY <1>4 DEF RowInv, RowsKeyed, TypeOK, Row, Key, Keys
    <2>2. store[Key(name[o.repo], o)] \in {o.sum, None}
      BY DEF SumInv, ChecksumHolds, Served
    <2> QED
      BY <1>6, <2>1, <2>2
  <1> QED
    BY <1>8, <1>9, <1>10 DEF SumInv

LEMMA UploadCommitSum ==
  ASSUME TypeOK, RowInv, SumInv, NEW t \in Requests, UploadCommit(t)
  PROVE  SumInv'
  <1> USE DEF Live
  <1>1. /\ tx[t].pc = "completed" /\ rows' = rows \cup tx[t].rows
        /\ UNCHANGED <<name, store, torn>>
    BY DEF UploadCommit
  <1> SUFFICES ASSUME "renamed" \notin torn
               PROVE  SumInv'
    BY <1>1 DEF SumInv, NamesHold, CompletedHold, ChecksumHolds
  <1>2. /\ tx'[t] = Idle
        /\ \A s \in Requests \ {t} : tx'[s] = tx[s]
    BY EndTx DEF UploadCommit
  <1>3. NamesHold' /\ CompletedHold'
    BY <1>1, <1>2, IdleTx
       DEF SumInv, NamesHold, CompletedHold, Uploading, Key
  <1>4. ChecksumHolds'
    <2> SUFFICES ASSUME NEW o \in rows'
                 PROVE  store[Key(name[o.repo], o)] \in {o.sum, None}
      BY <1>1 DEF ChecksumHolds, Served, Key
    <2>1. CASE o \in rows
      BY <2>1 DEF SumInv, ChecksumHolds, Served
    <2>2. CASE o \in tx[t].rows
      <3>1. o \in Pending(t)
        BY <1>1, <2>2 DEF Pending
      <3>2. tx[t].name = name[o.repo]
        BY <3>1, KeyOwn DEF SumInv
      <3> QED
        BY <1>1, <2>2, <3>2 DEF SumInv, CompletedHold
    <2> QED
      BY <1>1, <2>1, <2>2
  <1> QED
    BY <1>3, <1>4 DEF SumInv

LEMMA RepoCommitSum ==
  ASSUME TypeOK, RowInv, SumInv, NEW t \in Requests, RepoCommit(t)
  PROVE  SumInv'
  <1> USE DEF Live
  <1> DEFINE r == tx[t].repo
  <1>1. /\ tx[t].pc = "rdel" /\ rows' = rows \ RowsOf(r)
        /\ name' = [name EXCEPT ![r] = None]
        /\ UNCHANGED <<store, torn>>
    BY DEF RepoCommit
  <1> SUFFICES ASSUME "renamed" \notin torn
               PROVE  SumInv'
    BY <1>1 DEF SumInv, NamesHold, CompletedHold, ChecksumHolds
  <1>2. /\ tx'[t] = Idle
        /\ \A s \in Requests \ {t} : tx'[s] = tx[s]
    BY EndTx DEF RepoCommit
  <1>3. r \in Repos
    BY <1>1 DEF RowInv, RequestsShaped
  <1>4. name'[r] = None /\ \A q \in Repos \ {r} : name'[q] = name[q]
    BY <1>1, <1>3 DEF TypeOK
  <1>5. NamesHold'
    <2> SUFFICES ASSUME NEW s \in Requests \ {t},
                        Uploading(s) \/ tx[s].pc \in {"adel", "adelgone"},
                        name'[tx[s].repo] # None
                 PROVE  tx[s].name = name'[tx[s].repo]
      BY <1>2, IdleTx DEF NamesHold, Uploading
    <2>1. tx[s].repo \in Repos
      <3>1. CASE Uploading(s)
        BY <3>1 DEF RowInv, RequestsShaped
      <3>2. CASE tx[s].pc \in {"adel", "adelgone"}
        BY <3>2 DEF RowInv, RequestsShaped, TypeOK, Row
      <3> QED
        BY <3>1, <3>2
    <2>2. name'[tx[s].repo] = name[tx[s].repo]
      BY <1>4, <2>1
    <2> QED
      BY <2>2 DEF SumInv, NamesHold
  <1>6. CompletedHold'
    BY <1>1, <1>2, IdleTx DEF SumInv, CompletedHold, Key
  <1>7. ChecksumHolds'
    <2> SUFFICES ASSUME NEW o \in rows'
                 PROVE  store[Key(name'[o.repo], o)] \in {o.sum, None}
      BY <1>1 DEF ChecksumHolds, Served, Key
    <2>1. o \in rows /\ o.repo \in Repos \ {r}
      BY <1>1 DEF RowsOf, TypeOK, Row
    <2> QED
      BY <1>4, <2>1 DEF SumInv, ChecksumHolds, Served
  <1> QED
    BY <1>5, <1>6, <1>7 DEF SumInv

\* A new name, for a repository no row and no request in flight depends on.
LEMMA NameSum ==
  ASSUME TypeOK, RowInv, SumInv, NEW r \in Repos, NEW n \in Names,
         name' = [name EXCEPT ![r] = n],
         torn \subseteq torn',
         "renamed" \notin torn' =>
            /\ RowsOf(r) = {}
            /\ \A t \in Requests : Uploading(t) => tx[t].repo # r,
         UNCHANGED <<rows, store>>, Enlists
  PROVE  SumInv'
  <1> USE DEF Live
  <1> SUFFICES ASSUME "renamed" \notin torn'
               PROVE  SumInv'
    BY DEF SumInv, NamesHold, CompletedHold, ChecksumHolds
  <1>1. \A q \in Repos \ {r} : name'[q] = name[q]
    BY DEF TypeOK
  <1>2. \A o \in rows : o.repo \in Repos \ {r}
    BY DEF RowsOf, TypeOK, Row
  <1>3. NamesHold'
    <2> SUFFICES ASSUME NEW s \in Requests,
                        Uploading(s) \/ tx[s].pc \in {"adel", "adelgone"},
                        name'[tx[s].repo] # None
                 PROVE  tx[s].name = name'[tx[s].repo]
      BY DEF NamesHold, Uploading, Enlists
    <2>1. tx[s].repo \in Repos \ {r}
      <3>1. CASE Uploading(s)
        BY <3>1 DEF RowInv, RequestsShaped
      <3>2. CASE tx[s].pc \in {"adel", "adelgone"}
        BY <1>2, <3>2 DEF RowInv, RequestsShaped
      <3> QED
        BY <3>1, <3>2
    <2>2. name'[tx[s].repo] = name[tx[s].repo]
      BY <1>1, <2>1
    <2> QED
      BY <2>2 DEF SumInv, NamesHold
  <1>4. CompletedHold'
    BY DEF SumInv, CompletedHold, Key, Enlists
  <1>5. ChecksumHolds'
    <2> SUFFICES ASSUME NEW o \in rows
                 PROVE  store[Key(name'[o.repo], o)] \in {o.sum, None}
      BY DEF ChecksumHolds, Served, Key
    <2> QED
      BY <1>1, <1>2 DEF SumInv, ChecksumHolds, Served
  <1> QED
    BY <1>3, <1>4, <1>5 DEF SumInv

\* Whom a creation and a rename leave alone.
LEMMA CreateFacts ==
  ASSUME TypeOK, RowInv, NEW r \in Repos, r \in fresh
  PROVE  /\ RowsOf(r) = {} /\ ~Live(r)
         /\ \A t \in Requests : Uploading(t) => tx[t].repo # r
  <1>1. r \in fresh /\ ~Live(r)
    BY DEF RowInv, RowsKeyed
  <1> QED
    BY <1>1 DEF RowInv, RowsKeyed, RequestsShaped, RowsOf

LEMMA RenameFacts ==
  ASSUME TypeOK, RowInv, NEW r \in Repos, NEW n \in Names,
         RenameRepository(r, n), "renamed" \notin torn'
  PROVE  /\ RowsOf(r) = {} /\ Live(r)
         /\ \A t \in Requests : Uploading(t) => tx[t].repo # r
         /\ \A t \in Requests : tx[t].pc = "rdel" => tx[t].repo # r
  <1>1. /\ RowsOf(r) = {} /\ Live(r) /\ ~Shares(r) /\ ~Dropping(r)
        /\ \A t \in Requests : tx[t].pc = "upload" => tx[t].repo # r
    BY DEF RenameRepository
  <1>2. ASSUME NEW t \in Requests, tx[t].pc \in {"inserted", "completed"},
               tx[t].repo = r
        PROVE  FALSE
    <2>1. PICK o \in Row : tx[t].rows = {o} /\ o.repo = tx[t].repo
      BY <1>2 DEF RowInv, RequestsShaped, Uploading
    <2> QED
      BY <1>1, <1>2, <2>1 DEF Shares, Pending
  <1> QED
    BY <1>1, <1>2 DEF Uploading, Dropping

LEMMA SumStep ==
  ASSUME TypeOK, RowInv, SumInv, [Next]_vars
  PROVE  SumInv'
  <1>1. ASSUME NEW r \in Repos, NEW n \in Names, CreateRepository(r, n)
        PROVE  SumInv'
    BY <1>1, CreateFacts, NameSum, EnlistsNobody DEF CreateRepository
  <1>2. ASSUME NEW r \in Repos, NEW n \in Names, RenameRepository(r, n)
        PROVE  SumInv'
    <2>1. torn \subseteq torn'
      BY <1>2 DEF RenameRepository
    <2> QED
      BY <1>2, <2>1, RenameFacts, NameSum, EnlistsNobody DEF RenameRepository
  <1>3. ASSUME NEW t \in Requests, NEW row \in Row, UploadBegin(t, row)
        PROVE  SumInv'
    BY <1>3, UploadBeginType, SumShrink DEF UploadBegin
  <1>4. ASSUME NEW t \in Requests, NEW row \in Row, ArtifactDelete(t, row)
        PROVE  SumInv'
    BY <1>4, ArtifactDeleteType, SumShrink DEF ArtifactDelete
  <1>5. ASSUME NEW t \in Requests, NEW r \in Repos, RepoSweep(t, r)
        PROVE  SumInv'
    BY <1>5, RepoSweepType, SumShrink DEF RepoSweep
  <1>6. ASSUME NEW t \in Requests, Step(t)
        PROVE  SumInv'
    <2>1. CASE UploadInsert(t)
      <3>1. /\ tx[t].pc = "upload"
            /\ UNCHANGED <<name, fresh, rows, store, queue, torn>>
        BY <2>1 DEF UploadInsert
      <3>2. "renamed" \notin torn /\ Live(tx[t].repo) =>
               tx[t].name = name[tx[t].repo]
        BY <3>1 DEF SumInv, NamesHold, Uploading
      <3>3. CASE End(t)
        BY <3>1, <3>3, EndTx, IdleTx, SumShrink
      <3>4. CASE Goto(t, "inserted")
        <4>1. /\ tx'[t] = [pc |-> "inserted", repo |-> tx[t].repo,
                           name |-> tx[t].name, rows |-> tx[t].rows,
                           found |-> tx[t].found]
              /\ \A s \in Requests \ {t} : tx'[s] = tx[s]
          BY <3>4, GotoTx
        <4>2. /\ tx'[t].pc = "inserted" /\ tx'[t].repo = tx[t].repo
              /\ tx'[t].name = tx[t].name
          BY <4>1
        <4>3. /\ torn \subseteq torn' /\ rows' \subseteq rows
              /\ \A k \in Keys : store'[k] \in {store[k], None}
          BY <3>1
        <4> QED
          BY <3>1, <3>2, <4>1, <4>2, <4>3, SumShrink
      <3> QED
        BY <2>1, <3>3, <3>4, UploadInsertFacts
    <2>2. CASE UploadComplete(t)
      BY <2>2, UploadCompleteSum
    <2>3. CASE UploadCommit(t)
      BY <2>3, UploadCommitSum
    <2>4. CASE ArtifactRemove(t)
      <3>1. /\ tx[t].pc = "adel" /\ Goto(t, "adelgone")
            /\ \A k \in Keys : store'[k] \in {store[k], None}
            /\ UNCHANGED <<name, fresh, rows, queue, torn>>
        BY <2>4 DEF ArtifactRemove
      <3>2. "renamed" \notin torn /\ Live(tx[t].repo) =>
               tx[t].name = name[tx[t].repo]
        BY <3>1 DEF SumInv, NamesHold
      <3> QED
        <4>1. /\ tx'[t] = [pc |-> "adelgone", repo |-> tx[t].repo,
                           name |-> tx[t].name, rows |-> tx[t].rows,
                           found |-> tx[t].found]
              /\ \A s \in Requests \ {t} : tx'[s] = tx[s]
          BY <3>1, GotoTx
        <4>2. /\ tx'[t].pc = "adelgone" /\ tx'[t].repo = tx[t].repo
              /\ tx'[t].name = tx[t].name
          BY <4>1
        <4>3. /\ torn \subseteq torn' /\ rows' \subseteq rows
              /\ \A k \in Keys : store'[k] \in {store[k], None}
          BY <3>1
        <4> QED
          BY <3>1, <3>2, <4>1, <4>2, <4>3, SumShrink
    <2>5. CASE ArtifactCommit(t)
      <3>1. rows' \subseteq rows
        BY <2>5 DEF ArtifactCommit
      <3> QED
        BY <2>5, <3>1, EndTx, IdleTx, SumShrink DEF ArtifactCommit
    <2>6. CASE RepoDelete(t)
      <3>1. tx[t].pc = "rsweep" /\ UNCHANGED <<name, fresh, rows, store>>
        BY <2>6 DEF RepoDelete
      <3>2. tx[t].repo \in Repos
        BY <3>1 DEF RowInv, RequestsShaped
      <3>3. CASE Live(tx[t].repo)
        <4>2. /\ tx'[t].pc \in {"rqueue", "rdel"}
              /\ \A s \in Requests \ {t} : tx'[s] = tx[s]
              /\ torn \subseteq torn'
          BY <2>6, <3>2, <3>3, RepoDeleteType
        <4>3. /\ UNCHANGED name /\ rows' \subseteq rows
              /\ \A k \in Keys : store'[k] \in {store[k], None}
          BY <3>1
        <4>4. \A s \in Requests :
                 \/ tx'[s] = tx[s]
                 \/ tx'[s].pc \notin {"upload", "inserted", "completed",
                                      "adel", "adelgone"}
          BY <4>2
        <4> QED
          BY <4>2, <4>3, <4>4, SumShrink
      <3>4. CASE ~Live(tx[t].repo)
        BY <2>6, <3>1, <3>4, EndTx, IdleTx, SumShrink DEF RepoDelete
      <3> QED
        BY <3>3, <3>4
    <2>7. CASE DeadlockVictim(t)
      BY <2>7, EndTx, IdleTx, SumShrink DEF DeadlockVictim
    <2>8. CASE RepoCommit(t)
      BY <2>8, RepoCommitSum
    <2>9. CASE RepoQueue(t) \/ OrphanQueue(t) \/ Clone(t)
      <3>1. End(t) \/ Goto(t, "rdel")
        BY <2>9 DEF RepoQueue, OrphanQueue, Clone
      <3>2. /\ tx'[t].pc \in {"idle", "rdel"}
            /\ \A s \in Requests \ {t} : tx'[s] = tx[s]
        BY <3>1, EndTx, GotoPc, IdleTx
      <3> QED
        BY <2>9, <3>2, SumShrink DEF RepoQueue, OrphanQueue, Clone
    <2>10. CASE Expire(t)
      <3>1. torn \subseteq torn'
        BY <2>10 DEF Expire
      <3> QED
        BY <2>10, <3>1, ExpireType, SumShrink DEF Expire
    <2> QED
      BY <1>6, <2>1, <2>2, <2>3, <2>4, <2>5, <2>6, <2>7, <2>8, <2>9, <2>10
         DEF Step
  <1>7. ASSUME NEW t \in Requests, Abort(t)
        PROVE  SumInv'
    BY <1>7, EndTx, IdleTx, SumShrink DEF Abort
  <1>8. ASSUME Work
        PROVE  SumInv'
    <2>1. CASE DeleteArtifacts
      <3>1. torn \subseteq torn' /\ \A k \in Keys : store'[k] \in {store[k], None}
        BY <2>1 DEF DeleteArtifacts
      <3> QED
        BY <2>1, <3>1, SumShrink DEF DeleteArtifacts
    <2>2. CASE CloneDone
      BY <2>2, SumShrink DEF CloneDone
    <2> QED
      BY <1>8, <2>1, <2>2 DEF Work
  <1>9. ASSUME Crash
        PROVE  SumInv'
    <2>1. torn \subseteq torn'
      BY <1>9 DEF Crash
    <2> QED
      BY <1>9, <2>1, IdleTx, SumShrink DEF Crash
  <1>10. CASE UNCHANGED vars
    BY <1>10, SumShrink DEF vars
  <1>11. ASSUME NEW t \in Requests, NEW r \in Repos, NEW n \in Names,
                CreateImport(t, r, n)
         PROVE  SumInv'
    <2>1. Enlists
      BY <1>11, CreateImportType
    <2> QED
      BY <1>11, <2>1, CreateFacts, NameSum DEF CreateImport
  <1> QED
    BY <1>1, <1>2, <1>3, <1>4, <1>5, <1>6, <1>7, <1>8, <1>9, <1>10, <1>11
       DEF Next

\* Until a repository with artifacts is renamed, requests in flight know their
\* repository by its name and no row meets another's object.
THEOREM SumsCorrect == Spec => []SumInv
  <1>1. TypeOK /\ RowInv /\ SumInv /\ [Next]_vars => SumInv'
    BY SumStep
  <1> QED
    BY <1>1, SumInit, RowsCorrect, PTL DEF Spec

\* Until a repository with uploads is renamed two uploads past their INSERT
\* write different objects.
THEOREM WritersExclusive == Spec => []ExclusiveWriter
  <1>1. TypeOK /\ RowInv /\ SumInv => ExclusiveWriter
    <2> SUFFICES ASSUME TypeOK, RowInv, SumInv, "renamed" \notin torn,
                        NEW s \in Requests, NEW t \in Requests, s # t,
                        NEW o \in Pending(s), NEW p \in Pending(t)
                 PROVE  Key(tx[s].name, o) # Key(tx[t].name, p)
      BY DEF ExclusiveWriter
    <2>1. NamesHold
      BY DEF SumInv
    <2> QED
      BY <2>1, KeyOwn
  <1> QED
    BY <1>1, ArtifactsTyped, RowsCorrect, SumsCorrect, PTL

\* /query/artifact never serves other bytes under a checksum, whatever else
\* fails, as long as no repository with artifacts is renamed.
THEOREM ChecksumsStayTrue == Spec => []ChecksumHolds
  <1>1. SumInv => ChecksumHolds
    BY DEF SumInv
  <1> QED
    BY <1>1, SumsCorrect, PTL

-----------------------------------------------------------------------------
(* ObjectInv: a row has its object.                                         *)

LEMMA QueuedAppend ==
  ASSUME TypeOK, NEW task, queue' = Append(queue, task)
  PROVE  Queued' = Queued \cup {task}
  <1>1. queue \in Seq(Task)
    BY DEF TypeOK
  <1>2. /\ DOMAIN queue' = DOMAIN queue \cup {Len(queue) + 1}
        /\ \A i \in DOMAIN queue : queue'[i] = queue[i]
        /\ queue'[Len(queue) + 1] = task
    BY <1>1
  <1> QED
    BY <1>2 DEF Queued

LEMMA QueuedTail ==
  ASSUME TypeOK, queue # <<>>, queue' = Tail(queue)
  PROVE  /\ Queued' \subseteq Queued
         /\ Head(queue) \in Queued
         /\ Queued \subseteq Queued' \cup {Head(queue)}
  <1>1. queue \in Seq(Task) /\ Len(queue) \in Nat \ {0}
    BY DEF TypeOK
  <1>2. /\ DOMAIN queue = 1..Len(queue)
        /\ DOMAIN queue' = 1..(Len(queue) - 1)
        /\ \A i \in 1..(Len(queue) - 1) : queue'[i] = queue[i + 1]
        /\ Head(queue) = queue[1]
    BY <1>1
  <1>3. ASSUME NEW i \in DOMAIN queue'
        PROVE  queue'[i] \in Queued
    BY <1>1, <1>2, <1>3 DEF Queued
  <1>4. ASSUME NEW i \in DOMAIN queue
        PROVE  queue[i] \in Queued' \cup {Head(queue)}
    <2>1. CASE i = 1
      BY <1>2, <2>1
    <2>2. CASE i # 1
      <3>1. i - 1 \in DOMAIN queue' /\ queue'[i - 1] = queue[i]
        BY <1>1, <1>2, <1>4, <2>2
      <3> QED
        BY <3>1 DEF Queued
    <2> QED
      BY <2>1, <2>2
  <1>5. Head(queue) \in Queued
    BY <1>1, <1>2 DEF Queued
  <1> QED
    BY <1>3, <1>4, <1>5 DEF Queued

LEMMA ObjectInit == Init => ObjectInv /\ OwnerInv
  BY IdleTx DEF Init, ObjectInv, RowsServed, UploadsServed, NamesGone, Queued,
     OwnerInv, ArtifactsGone, RemovalsQueued, ObjectsOwned

\* Nothing is written or removed, and no request that has removed something,
\* or is about to, gives up.
LEMMA ObjectQuiet ==
  ASSUME ObjectInv, torn \subseteq torn',
         UNCHANGED <<name, rows, store>>,
         \A task \in Queued' : task \in Queued \/ task.name = None,
         torn' \subseteq {"uncommitted", "raced", "lost", "unremoved"} =>
           \A s \in Requests :
             \/ tx'[s] = tx[s]
             \/ /\ tx'[s].pc # "completed"
                /\ tx[s].pc # "adelgone"
                /\ tx[s].pc = "rdel" => tx[s].rows = {}
  PROVE  ObjectInv'
  <1> SUFFICES ASSUME torn' \subseteq {"uncommitted", "raced", "lost", "unremoved"}
               PROVE  (RowsServed /\ UploadsServed /\ NamesGone)'
    BY DEF ObjectInv
  <1>1. RowsServed /\ UploadsServed /\ NamesGone
    BY DEF ObjectInv
  <1>2. \A row : Removed(row) => Removed(row)'
    BY DEF Removed
  <1>3. RowsServed'
    BY <1>1, <1>2 DEF RowsServed, Served, Key
  <1>4. UploadsServed'
    BY <1>1 DEF UploadsServed, Key
  <1>5. NamesGone'
    <2> SUFFICES ASSUME NEW task \in Queued', NEW r \in Repos,
                        name[r] # None, name[r] = task.name
                 PROVE  \E t \in Requests : tx'[t].pc = "rdel"
                            /\ tx'[t].repo = r /\ tx'[t].rows # {}
      BY DEF NamesGone, Live
    <2>1. PICK t \in Requests :
             tx[t].pc = "rdel" /\ tx[t].repo = r /\ tx[t].rows # {}
      BY <1>1 DEF NamesGone, Live
    <2>2. tx'[t] = tx[t]
      BY <2>1
    <2> QED
      BY <2>1, <2>2
  <1> QED
    BY <1>3, <1>4, <1>5

\* Unless torn nothing was renamed.
LEMMA NotRenamed ==
  ASSUME torn \subseteq {"uncommitted", "raced", "lost", "unremoved"}
  PROVE  "renamed" \notin torn
  OBVIOUS

\* The key of a row is a key.
LEMMA RowKey ==
  ASSUME TypeOK, RowInv, NEW row \in rows
  PROVE  /\ row \in Row /\ row.repo \in Repos /\ row.file \in Files
         /\ Live(row.repo) /\ name[row.repo] \in Names
         /\ Key(name[row.repo], row) \in Keys
         /\ \A o \in rows :
              Key(name[o.repo], o) = Key(name[row.repo], row) => o = row
  <1>1. \A o \in rows : o.repo \in Repos /\ o.file \in Files /\ o \in Row
                        /\ Live(o.repo) /\ name[o.repo] \in Names
    BY DEF TypeOK, Row, RowInv, RowsKeyed, Live
  <1>2. \A o \in rows :
          Key(name[o.repo], o) = Key(name[row.repo], row) => o = row
    BY <1>1 DEF Key, RowInv, RowsKeyed, SameKey
  <1> QED
    BY <1>1, <1>2 DEF Key, Keys

LEMMA UploadCompleteObject ==
  ASSUME TypeOK, RowInv, SumInv, ObjectInv, NEW t \in Requests,
         UploadComplete(t)
  PROVE  ObjectInv'
  <1>1. tx[t].pc = "inserted" /\ UNCHANGED <<name, rows, queue, torn>>
    BY DEF UploadComplete
  <1> SUFFICES ASSUME torn \subseteq {"uncommitted", "raced", "lost", "unremoved"}
               PROVE  (RowsServed /\ UploadsServed /\ NamesGone)'
    BY <1>1 DEF ObjectInv
  <1>2. RowsServed /\ UploadsServed /\ NamesGone /\ "renamed" \notin torn
    BY NotRenamed DEF ObjectInv
  <1>3. PICK row \in Row : tx[t].rows = {row}
    BY <1>1 DEF RowInv, RequestsShaped, Uploading
  <1>4. row \in Pending(t)
    BY <1>1, <1>3 DEF Pending
  <1> DEFINE k == Key(tx[t].name, row)
  <1>5. /\ k \in Keys
        /\ \A o \in rows : Key(name[o.repo], o) # k
        /\ \A s \in Requests \ {t} : \A o \in Pending(s) :
              Key(tx[s].name, o) # k
    BY <1>2, <1>4, KeyOwn DEF SumInv
  <1>6. store' = [store EXCEPT ![k] = row.sum]
    BY <1>3 DEF UploadComplete
  <1>7. store'[k] = row.sum /\ \A j \in Keys \ {k} : store'[j] = store[j]
    BY <1>5, <1>6 DEF TypeOK
  <1>8. /\ tx'[t] = [pc |-> "completed", repo |-> tx[t].repo,
                     name |-> tx[t].name, rows |-> {row},
                     found |-> tx[t].found]
        /\ \A s \in Requests \ {t} : tx'[s] = tx[s]
    BY <1>3, GotoTx DEF UploadComplete
  <1> HIDE DEF k
  <1>9. \A o : Removed(o)' <=> Removed(o)
    BY <1>1, <1>8 DEF Removed
  <1>10. RowsServed'
    <2> SUFFICES ASSUME NEW o \in rows, ~Removed(o)
                 PROVE  store'[Key(name[o.repo], o)] = o.sum
      BY <1>1, <1>9 DEF RowsServed, Served, Key
    <2>1. Key(name[o.repo], o) \in Keys \ {k}
      BY <1>5, RowKey
    <2> QED
      BY <1>2, <1>7, <2>1 DEF RowsServed, Served
  <1>11. UploadsServed'
    <2> SUFFICES ASSUME NEW s \in Requests, tx'[s].pc = "completed",
                        NEW o \in tx'[s].rows
                 PROVE  store'[Key(tx'[s].name, o)] = o.sum
      BY DEF UploadsServed, Key
    <2>1. CASE s = t
      BY <1>7, <1>8, <2>1 DEF k
    <2>2. CASE s # t
      <3>1. tx'[s] = tx[s]
        BY <1>8, <2>2
      <3>2. o \in Pending(s)
        BY <3>1 DEF Pending
      <3>3. Key(tx[s].name, o) \in Keys \ {k}
        BY <1>2, <1>5, <2>2, <3>2, KeyOwn DEF SumInv
      <3>4. store[Key(tx[s].name, o)] = o.sum
        BY <1>2, <3>1 DEF UploadsServed
      <3> QED
        BY <1>7, <3>1, <3>3, <3>4
    <2> QED
      BY <2>1, <2>2
  <1>12. NamesGone'
    <2>1. \A s \in Requests : tx[s].pc = "rdel" => tx'[s] = tx[s]
      BY <1>1, <1>8
    <2> QED
      BY <1>1, <1>2, <2>1 DEF NamesGone, Queued, Live
  <1> QED
    BY <1>10, <1>11, <1>12

LEMMA UploadCommitObject ==
  ASSUME TypeOK, RowInv, SumInv, ObjectInv, NEW t \in Requests,
         UploadCommit(t)
  PROVE  ObjectInv'
  <1>1. /\ tx[t].pc = "completed" /\ rows' = rows \cup tx[t].rows
        /\ UNCHANGED <<name, store, queue, torn>>
    BY DEF UploadCommit
  <1> SUFFICES ASSUME torn \subseteq {"uncommitted", "raced", "lost", "unremoved"}
               PROVE  (RowsServed /\ UploadsServed /\ NamesGone)'
    BY <1>1 DEF ObjectInv
  <1>2. RowsServed /\ UploadsServed /\ NamesGone /\ "renamed" \notin torn
    BY NotRenamed DEF ObjectInv
  <1>3. /\ tx'[t] = Idle
        /\ \A s \in Requests \ {t} : tx'[s] = tx[s]
    BY EndTx DEF UploadCommit
  <1>4. \A o : Removed(o) => Removed(o)'
    BY <1>1, <1>3 DEF Removed
  <1>5. RowsServed'
    <2> SUFFICES ASSUME NEW o \in rows', ~Removed(o)
                 PROVE  store[Key(name[o.repo], o)] = o.sum
      BY <1>1, <1>4 DEF RowsServed, Served, Key
    <2>1. CASE o \in rows
      BY <1>2, <2>1 DEF RowsServed, Served
    <2>2. CASE o \in tx[t].rows
      <3>1. o \in Pending(t)
        BY <1>1, <2>2 DEF Pending
      <3>2. tx[t].name = name[o.repo]
        BY <1>2, <3>1, KeyOwn DEF SumInv
      <3> QED
        BY <1>1, <1>2, <2>2, <3>2 DEF UploadsServed
    <2> QED
      BY <1>1, <2>1, <2>2
  <1>6. UploadsServed'
    BY <1>1, <1>2, <1>3, IdleTx DEF UploadsServed, Key
  <1>7. NamesGone'
    <2>1. \A s \in Requests : tx[s].pc = "rdel" => tx'[s] = tx[s]
      BY <1>1, <1>3
    <2> QED
      BY <1>1, <1>2, <2>1 DEF NamesGone, Queued, Live
  <1> QED
    BY <1>5, <1>6, <1>7

\* What a deletion of an artifact has in hand.
LEMMA ArtifactOwn ==
  ASSUME TypeOK, RowInv, NamesHold, "renamed" \notin torn, NEW t \in Requests,
         tx[t].pc \in {"adel", "adelgone"}
  PROVE  \E row \in rows : /\ tx[t].rows = {row}
                           /\ tx[t].name = name[row.repo]
  <1>1. PICK row \in rows : tx[t].rows = {row} /\ row.repo = tx[t].repo
    BY DEF RowInv, RequestsShaped
  <1>2. Live(row.repo)
    BY RowKey
  <1> QED
    BY <1>1, <1>2 DEF NamesHold

LEMMA ArtifactRemoveObject ==
  ASSUME TypeOK, RowInv, SumInv, ObjectInv, NEW t \in Requests,
         ArtifactRemove(t)
  PROVE  ObjectInv'
  <1>1. /\ tx[t].pc = "adel" /\ UNCHANGED <<name, rows, queue, torn>>
        /\ store' = [k \in Keys |->
                       IF \E row \in tx[t].rows : k = Key(tx[t].name, row)
                       THEN None ELSE store[k]]
    BY DEF ArtifactRemove
  <1> SUFFICES ASSUME torn \subseteq {"uncommitted", "raced", "lost", "unremoved"}
               PROVE  (RowsServed /\ UploadsServed /\ NamesGone)'
    BY <1>1 DEF ObjectInv
  <1>2. RowsServed /\ UploadsServed /\ NamesGone /\ "renamed" \notin torn
    BY NotRenamed DEF ObjectInv
  <1>3. PICK row \in rows : tx[t].rows = {row} /\ tx[t].name = name[row.repo]
    BY <1>1, <1>2, ArtifactOwn DEF SumInv
  <1> DEFINE k == Key(name[row.repo], row)
  <1>4. \A j \in Keys \ {k} : store'[j] = store[j]
    BY <1>1, <1>3
  <1>5. /\ tx'[t] = [pc |-> "adelgone", repo |-> tx[t].repo,
                     name |-> tx[t].name, rows |-> {row},
                     found |-> tx[t].found]
        /\ \A s \in Requests \ {t} : tx'[s] = tx[s]
    <2>1. /\ tx'[t] = [pc |-> "adelgone", repo |-> tx[t].repo,
                       name |-> tx[t].name, rows |-> tx[t].rows,
                       found |-> tx[t].found]
          /\ \A s \in Requests \ {t} : tx'[s] = tx[s]
      BY GotoTx DEF ArtifactRemove
    <2> QED
      BY <1>3, <2>1
  <1>6. \A o : Removed(o)' <=> Removed(o) \/ o = row
    BY <1>1, <1>3, <1>5 DEF Removed
  <1> HIDE DEF k
  <1>7. RowsServed'
    <2> SUFFICES ASSUME NEW o \in rows, ~Removed(o), o # row
                 PROVE  store'[Key(name[o.repo], o)] = o.sum
      BY <1>1, <1>6 DEF RowsServed, Served, Key
    <2>1. Key(name[o.repo], o) \in Keys \ {k}
      BY RowKey DEF k
    <2> QED
      BY <1>2, <1>4, <2>1 DEF RowsServed, Served
  <1>8. UploadsServed'
    <2> SUFFICES ASSUME NEW s \in Requests, tx'[s].pc = "completed",
                        NEW o \in tx'[s].rows
                 PROVE  store'[Key(tx'[s].name, o)] = o.sum
      BY DEF UploadsServed, Key
    <2>1. s # t /\ tx'[s] = tx[s]
      BY <1>5
    <2>2. o \in Pending(s)
      BY <2>1 DEF Pending
    <2>3. Key(tx[s].name, o) \in Keys \ {k}
      BY <1>2, <2>2, KeyOwn DEF SumInv, k
    <2>4. store[Key(tx[s].name, o)] = o.sum
      BY <1>2, <2>1 DEF UploadsServed
    <2> QED
      BY <1>4, <2>1, <2>3, <2>4
  <1>9. NamesGone'
    <2>1. \A s \in Requests : tx[s].pc = "rdel" => tx'[s] = tx[s]
      BY <1>1, <1>5
    <2> QED
      BY <1>1, <1>2, <2>1 DEF NamesGone, Queued, Live
  <1> QED
    BY <1>7, <1>8, <1>9

LEMMA ArtifactCommitObject ==
  ASSUME TypeOK, RowInv, SumInv, ObjectInv, NEW t \in Requests,
         ArtifactCommit(t)
  PROVE  ObjectInv'
  <1>1. /\ tx[t].pc = "adelgone" /\ rows' = rows \ tx[t].rows
        /\ UNCHANGED <<name, store, queue, torn>>
    BY DEF ArtifactCommit
  <1> SUFFICES ASSUME torn \subseteq {"uncommitted", "raced", "lost", "unremoved"}
               PROVE  (RowsServed /\ UploadsServed /\ NamesGone)'
    BY <1>1 DEF ObjectInv
  <1>2. RowsServed /\ UploadsServed /\ NamesGone
    BY DEF ObjectInv
  <1>3. /\ tx'[t] = Idle
        /\ \A s \in Requests \ {t} : tx'[s] = tx[s]
    BY EndTx DEF ArtifactCommit
  <1>4. \A o \in rows' : Removed(o) => Removed(o)'
    BY <1>1, <1>3 DEF Removed
  <1>5. RowsServed'
    BY <1>1, <1>2, <1>4 DEF RowsServed, Served, Key
  <1>6. UploadsServed'
    BY <1>1, <1>2, <1>3, IdleTx DEF UploadsServed, Key
  <1>7. NamesGone'
    <2>1. \A s \in Requests : tx[s].pc = "rdel" => tx'[s] = tx[s]
      BY <1>1, <1>3
    <2> QED
      BY <1>1, <1>2, <2>1 DEF NamesGone, Queued, Live
  <1> QED
    BY <1>5, <1>6, <1>7

LEMMA RepoDeleteObject ==
  ASSUME TypeOK, RowInv, ObjectInv, NEW t \in Requests, RepoDelete(t),
         Live(tx[t].repo)
  PROVE  ObjectInv'
  <1>1. /\ tx[t].pc = "rsweep" /\ UNCHANGED <<name, rows, store, queue>>
        /\ tx[t].repo \in Repos
    BY DEF RepoDelete, RowInv, RequestsShaped
  <1>2. /\ tx'[t].pc \in {"rqueue", "rdel"}
        /\ \A s \in Requests \ {t} : tx'[s] = tx[s]
        /\ torn \subseteq torn'
    BY <1>1, RepoDeleteType
  <1> QED
    BY <1>1, <1>2, ObjectQuiet DEF Queued

\* The removal is queued under the name of the repository that goes with it.
LEMMA RepoQueueObject ==
  ASSUME TypeOK, RowInv, ObjectInv, NEW t \in Requests, RepoQueue(t)
  PROVE  ObjectInv'
  <1> DEFINE r    == tx[t].repo
             task == Removal(tx[t].name, tx[t].found)
  <1>1. /\ tx[t].pc = "rqueue" /\ UNCHANGED <<name, rows, store, torn>>
        /\ Queued' = Queued \cup {task} /\ Goto(t, "rdel")
    BY QueuedAppend DEF RepoQueue
  <1>2. /\ r \in Repos /\ Live(r) /\ tx[t].name = name[r] /\ tx[t].rows # {}
        /\ task.name = name[r]
    BY <1>1 DEF RowInv, RequestsShaped, Removal
  <1>3. /\ tx'[t].pc = "rdel" /\ tx'[t].repo = r /\ tx'[t].rows = tx[t].rows
        /\ \A s \in Requests \ {t} : tx'[s] = tx[s]
    BY <1>1, GotoPc
  <1> HIDE DEF task
  <1> SUFFICES ASSUME torn \subseteq {"uncommitted", "raced", "lost", "unremoved"}
               PROVE  (RowsServed /\ UploadsServed /\ NamesGone)'
    BY <1>1 DEF ObjectInv
  <1>4. RowsServed /\ UploadsServed /\ NamesGone
    BY DEF ObjectInv
  <1>5. \A o : Removed(o) => Removed(o)'
    BY <1>1, <1>3 DEF Removed
  <1>6. RowsServed'
    BY <1>1, <1>4, <1>5 DEF RowsServed, Served, Key
  <1>7. UploadsServed'
    BY <1>1, <1>3, <1>4 DEF UploadsServed, Key
  <1>8. NamesGone'
    <2> SUFFICES ASSUME NEW o \in Queued', NEW q \in Repos,
                        name[q] # None, name[q] = o.name
                 PROVE  \E s \in Requests : tx'[s].pc = "rdel"
                            /\ tx'[s].repo = q /\ tx'[s].rows # {}
      BY <1>1 DEF NamesGone, Live
    <2>1. CASE o \in Queued
      <3>1. PICK s \in Requests :
               tx[s].pc = "rdel" /\ tx[s].repo = q /\ tx[s].rows # {}
        BY <1>4, <2>1 DEF NamesGone, Live
      <3>2. tx'[s] = tx[s]
        BY <1>1, <1>3, <3>1
      <3> QED
        BY <3>1, <3>2
    <2>2. CASE o = task
      <3>1. q = r
        BY <1>2, <2>2 DEF RowInv, RowsKeyed, Live
      <3> QED
        BY <1>2, <1>3, <3>1
    <2> QED
      BY <1>1, <2>1, <2>2
  <1> QED
    BY <1>6, <1>7, <1>8

LEMMA RepoCommitObject ==
  ASSUME TypeOK, RowInv, ObjectInv, NEW t \in Requests, RepoCommit(t)
  PROVE  ObjectInv'
  <1> DEFINE r == tx[t].repo
  <1>1. /\ tx[t].pc = "rdel" /\ rows' = rows \ RowsOf(r)
        /\ name' = [name EXCEPT ![r] = None]
        /\ UNCHANGED <<store, queue, torn>>
    BY DEF RepoCommit
  <1> SUFFICES ASSUME torn \subseteq {"uncommitted", "raced", "lost", "unremoved"}
               PROVE  (RowsServed /\ UploadsServed /\ NamesGone)'
    BY <1>1 DEF ObjectInv
  <1>2. RowsServed /\ UploadsServed /\ NamesGone
    BY DEF ObjectInv
  <1>3. r \in Repos /\ tx[t].rows = RowsOf(r)
    BY <1>1 DEF RowInv, RequestsShaped
  <1>4. name'[r] = None /\ \A q \in Repos \ {r} : name'[q] = name[q]
    BY <1>1, <1>3 DEF TypeOK
  <1>5. /\ tx'[t] = Idle
        /\ \A s \in Requests \ {t} : tx'[s] = tx[s]
    BY EndTx DEF RepoCommit
  <1>6. \A o \in rows' : o \in rows /\ o.repo \in Repos \ {r}
    BY <1>1 DEF RowsOf, TypeOK, Row
  <1>7. \A o \in rows' : Removed(o) => Removed(o)'
    BY <1>1, <1>3, <1>5 DEF Removed
  <1>8. RowsServed'
    <2> SUFFICES ASSUME NEW o \in rows', ~Removed(o)
                 PROVE  store[Key(name'[o.repo], o)] = o.sum
      BY <1>1, <1>7 DEF RowsServed, Served, Key
    <2> QED
      BY <1>2, <1>4, <1>6 DEF RowsServed, Served
  <1>9. UploadsServed'
    BY <1>1, <1>2, <1>5, IdleTx DEF UploadsServed, Key
  <1>10. NamesGone'
    <2> SUFFICES ASSUME NEW o \in Queued, NEW q \in Repos,
                        name'[q] # None, name'[q] = o.name
                 PROVE  \E s \in Requests : tx'[s].pc = "rdel"
                            /\ tx'[s].repo = q /\ tx'[s].rows # {}
      BY <1>1 DEF NamesGone, Live, Queued
    <2>1. q # r /\ name[q] # None /\ name[q] = o.name
      BY <1>4
    <2>2. PICK s \in Requests :
             tx[s].pc = "rdel" /\ tx[s].repo = q /\ tx[s].rows # {}
      BY <1>2, <2>1 DEF NamesGone, Live
    <2>3. tx'[s] = tx[s]
      BY <1>5, <2>1, <2>2
    <2> QED
      BY <2>2, <2>3
  <1> QED
    BY <1>8, <1>9, <1>10

\* A queued removal never meets a row or an upload: its name is given up.
LEMMA DeleteArtifactsObject ==
  ASSUME TypeOK, RowInv, SumInv, ObjectInv, DeleteArtifacts
  PROVE  ObjectInv'
  <1> DEFINE task == Head(queue)
  <1>1. /\ queue # <<>> /\ queue' = Tail(queue)
        /\ UNCHANGED <<name, rows, tx>> /\ torn \subseteq torn'
    BY DEF DeleteArtifacts
  <1> SUFFICES ASSUME torn' \subseteq {"uncommitted", "raced", "lost", "unremoved"}
               PROVE  (RowsServed /\ UploadsServed /\ NamesGone)'
    BY <1>1 DEF ObjectInv
  <1>2. RowsServed /\ UploadsServed /\ NamesGone /\ "renamed" \notin torn
    BY <1>1, NotRenamed DEF ObjectInv
  <1>3. task \in Queued /\ Queued' \subseteq Queued
    BY <1>1, QueuedTail
  <1>4. \A k \in Keys : k[1] # task.name => store'[k] = store[k]
    BY DEF DeleteArtifacts
  <1> HIDE DEF task
  <1>5. RowsServed'
    <2> SUFFICES ASSUME NEW o \in rows, ~Removed(o)
                 PROVE  store'[Key(name[o.repo], o)] = o.sum
      BY <1>1 DEF RowsServed, Served, Key, Removed
    <2>1. /\ o.repo \in Repos /\ Live(o.repo)
          /\ Key(name[o.repo], o) \in Keys
      BY RowKey
    <2>2. name[o.repo] # task.name
      <3> SUFFICES ASSUME name[o.repo] = task.name
                   PROVE  FALSE
        OBVIOUS
      <3>1. PICK s \in Requests : tx[s].pc = "rdel" /\ tx[s].repo = o.repo
        BY <1>2, <1>3, <2>1 DEF NamesGone
      <3>2. o \in tx[s].rows
        BY <3>1 DEF RowInv, RequestsShaped, RowsOf
      <3> QED
        BY <3>1, <3>2 DEF Removed
    <2>3. Key(name[o.repo], o)[1] # task.name
      BY <2>2 DEF Key
    <2> QED
      BY <1>2, <1>4, <2>1, <2>3 DEF RowsServed, Served
  <1>6. UploadsServed'
    <2> SUFFICES ASSUME NEW s \in Requests, tx[s].pc = "completed",
                        NEW o \in tx[s].rows
                 PROVE  store'[Key(tx[s].name, o)] = o.sum
      BY <1>1 DEF UploadsServed, Key
    <2>1. o \in Pending(s)
      BY DEF Pending
    <2>2. Live(o.repo) /\ ~Dropping(o.repo)
      BY <2>1 DEF RowInv, LocksHold
    <2>3. o.repo = tx[s].repo /\ o.repo \in Repos
      BY DEF RowInv, RequestsShaped, Uploading
    <2>4. tx[s].name = name[o.repo]
      BY <1>2, <2>2, <2>3 DEF SumInv, NamesHold, Uploading
    <2>5. tx[s].name # task.name
      <3> SUFFICES ASSUME name[o.repo] = task.name
                   PROVE  FALSE
        BY <2>4
      <3>1. PICK u \in Requests : tx[u].pc = "rdel" /\ tx[u].repo = o.repo
        BY <1>2, <1>3, <2>2, <2>3 DEF NamesGone
      <3> QED
        BY <2>2, <3>1 DEF Dropping
    <2>6. Key(tx[s].name, o) \in Keys
      BY <1>2, <2>1, KeyOwn DEF SumInv
    <2>7. Key(tx[s].name, o)[1] # task.name
      BY <2>5 DEF Key
    <2> QED
      BY <1>2, <1>4, <2>6, <2>7 DEF UploadsServed
  <1>7. NamesGone'
    BY <1>1, <1>2, <1>3 DEF NamesGone, Live
  <1> QED
    BY <1>5, <1>6, <1>7

\* A name no removal is queued under, for a repository without rows.
LEMMA NameObject ==
  ASSUME TypeOK, RowInv, ObjectInv, NEW r \in Repos, NEW n \in Names,
         name' = [name EXCEPT ![r] = n], torn \subseteq torn',
         torn' \subseteq {"uncommitted", "raced", "lost", "unremoved"} =>
            RowsOf(r) = {} /\ \A task \in Queued : task.name # n,
         UNCHANGED <<rows, store, queue>>, Enlists
  PROVE  ObjectInv'
  <1> SUFFICES ASSUME torn' \subseteq {"uncommitted", "raced", "lost", "unremoved"}
               PROVE  (RowsServed /\ UploadsServed /\ NamesGone)'
    BY DEF ObjectInv
  <1>1. RowsServed /\ UploadsServed /\ NamesGone
    BY DEF ObjectInv
  <1>2. name'[r] = n /\ \A q \in Repos \ {r} : name'[q] = name[q]
    BY DEF TypeOK
  <1>3. \A o \in rows : o.repo \in Repos \ {r}
    BY DEF RowsOf, TypeOK, Row
  <1>4. \A o : Removed(o) => Removed(o)'
    BY DEF Removed, Enlists
  <1>5. RowsServed'
    <2> SUFFICES ASSUME NEW o \in rows, ~Removed(o)
                 PROVE  store[Key(name'[o.repo], o)] = o.sum
      BY <1>4 DEF RowsServed, Served, Key
    <2> QED
      BY <1>1, <1>2, <1>3 DEF RowsServed, Served
  <1>6. UploadsServed'
    BY <1>1 DEF UploadsServed, Key, Enlists
  <1>7. NamesGone'
    <2> SUFFICES ASSUME NEW o \in Queued, NEW q \in Repos,
                        name'[q] # None, name'[q] = o.name
                 PROVE  \E s \in Requests : tx'[s].pc = "rdel"
                            /\ tx'[s].repo = q /\ tx'[s].rows # {}
      BY DEF NamesGone, Live, Queued
    <2>1. q # r /\ name[q] # None /\ name[q] = o.name
      BY <1>2
    <2>2. PICK s \in Requests :
             tx[s].pc = "rdel" /\ tx[s].repo = q /\ tx[s].rows # {}
      BY <1>1, <2>1 DEF NamesGone, Live
    <2>3. tx'[s] = tx[s]
      BY <2>2 DEF Enlists
    <2> QED
      BY <2>2, <2>3
  <1> QED
    BY <1>5, <1>6, <1>7

\* The steps that prepare something, or end before anything was done.
Quiet(t) ==
  \/ \E row \in Row : UploadBegin(t, row) \/ ArtifactDelete(t, row)
  \/ \E r \in Repos : RepoSweep(t, r)
  \/ UploadInsert(t)
  \/ RepoDelete(t) /\ ~Live(tx[t].repo)
  \/ DeadlockVictim(t)

LEMMA QuietFacts ==
  ASSUME TypeOK, RowInv, NEW t \in Requests, Quiet(t)
  PROVE  /\ UNCHANGED <<name, rows, store, queue, torn>>
         /\ tx[t].pc \in {"idle", "upload", "rsweep"}
         /\ tx'[t].pc \in {"idle", "upload", "inserted", "adel", "rsweep"}
         /\ \A s \in Requests \ {t} : tx'[s] = tx[s]
  <1>1. ASSUME NEW new \in Tx, tx[t].pc = "idle",
               new.pc \in {"upload", "adel", "rsweep"},
               tx' = [tx EXCEPT ![t] = new],
               UNCHANGED <<name, rows, store, queue, torn>>
        PROVE  /\ UNCHANGED <<name, rows, store, queue, torn>>
               /\ tx[t].pc \in {"idle", "upload", "rsweep"}
               /\ tx'[t].pc \in {"idle", "upload", "inserted", "adel", "rsweep"}
               /\ \A s \in Requests \ {t} : tx'[s] = tx[s]
    BY <1>1, BeginTx
  <1>2. ASSUME NEW row \in Row, UploadBegin(t, row)
        PROVE  /\ UNCHANGED <<name, rows, store, queue, torn>>
               /\ tx[t].pc \in {"idle", "upload", "rsweep"}
               /\ tx'[t].pc \in {"idle", "upload", "inserted", "adel", "rsweep"}
               /\ \A s \in Requests \ {t} : tx'[s] = tx[s]
    <2>1. [pc |-> "upload", repo |-> row.repo, name |-> name[row.repo],
           rows |-> {row}, found |-> {}] \in Tx
      BY DEF TypeOK, Row, Tx
    <2> QED
      BY <1>1, <1>2, <2>1 DEF UploadBegin
  <1>3. ASSUME NEW row \in Row, ArtifactDelete(t, row)
        PROVE  /\ UNCHANGED <<name, rows, store, queue, torn>>
               /\ tx[t].pc \in {"idle", "upload", "rsweep"}
               /\ tx'[t].pc \in {"idle", "upload", "inserted", "adel", "rsweep"}
               /\ \A s \in Requests \ {t} : tx'[s] = tx[s]
    <2>1. [pc |-> "adel", repo |-> row.repo, name |-> name[row.repo],
           rows |-> {row}, found |-> {}] \in Tx
      BY DEF TypeOK, Row, Tx
    <2> QED
      BY <1>1, <1>3, <2>1 DEF ArtifactDelete
  <1>4. ASSUME NEW r \in Repos, RepoSweep(t, r)
        PROVE  /\ UNCHANGED <<name, rows, store, queue, torn>>
               /\ tx[t].pc \in {"idle", "upload", "rsweep"}
               /\ tx'[t].pc \in {"idle", "upload", "inserted", "adel", "rsweep"}
               /\ \A s \in Requests \ {t} : tx'[s] = tx[s]
    <2>1. [pc |-> "rsweep", repo |-> r, name |-> None, rows |-> RowsOf(r),
           found |-> {}] \in Tx
      BY DEF TypeOK, RowsOf, Tx
    <2> QED
      BY <1>1, <1>4, <2>1 DEF RepoSweep
  <1>5. ASSUME tx[t].pc \in {"upload", "rsweep"},
               End(t) \/ Goto(t, "inserted"),
               UNCHANGED <<name, rows, store, queue, torn>>
        PROVE  /\ UNCHANGED <<name, rows, store, queue, torn>>
               /\ tx[t].pc \in {"idle", "upload", "rsweep"}
               /\ tx'[t].pc \in {"idle", "upload", "inserted", "adel", "rsweep"}
               /\ \A s \in Requests \ {t} : tx'[s] = tx[s]
    <2>1. CASE End(t)
      BY <1>5, <2>1, EndTx, IdleTx
    <2>2. CASE Goto(t, "inserted")
      <3>1. /\ tx'[t] = [pc |-> "inserted", repo |-> tx[t].repo,
                         name |-> tx[t].name, rows |-> tx[t].rows,
                         found |-> tx[t].found]
            /\ \A s \in Requests \ {t} : tx'[s] = tx[s]
        BY <2>2, GotoTx
      <3> QED
        BY <1>5, <3>1
    <2> QED
      BY <1>5, <2>1, <2>2
  <1>6. CASE UploadInsert(t)
    <2>1. PICK row \in Row : tx[t].rows = {row}
      BY <1>6 DEF UploadInsert, RowInv, RequestsShaped, Uploading
    <2> QED
      BY <1>5, <1>6, <2>1 DEF UploadInsert
  <1>7. CASE RepoDelete(t) /\ ~Live(tx[t].repo)
    BY <1>5, <1>7 DEF RepoDelete
  <1>8. CASE DeadlockVictim(t)
    BY <1>5, <1>8 DEF DeadlockVictim
  <1> QED
    BY <1>2, <1>3, <1>4, <1>6, <1>7, <1>8 DEF Quiet

LEMMA ObjectStep ==
  ASSUME TypeOK, RowInv, WaitersShaped, SumInv, ObjectInv, [Next]_vars
  PROVE  ObjectInv'
  <1>1. ASSUME NEW r \in Repos, NEW n \in Names,
               \/ CreateRepository(r, n)
               \/ \E t \in Requests : CreateImport(t, r, n)
        PROVE  ObjectInv'
    <2>1. /\ name' = [name EXCEPT ![r] = n] /\ torn \subseteq torn'
          /\ r \in fresh /\ UNCHANGED <<rows, store, queue>>
          /\ "reused" \notin torn' => \A task \in Queued : task.name # n
      BY <1>1 DEF CreateRepository, CreateImport
    <2>2. Enlists
      BY <1>1, CreateImportType, EnlistsNobody
         DEF CreateRepository
    <2>3. torn' \subseteq {"uncommitted", "raced", "lost", "unremoved"} =>
             RowsOf(r) = {} /\ \A task \in Queued : task.name # n
      BY <2>1, CreateFacts
    <2> QED
      BY <2>1, <2>2, <2>3, NameObject
  <1>2. ASSUME NEW r \in Repos, NEW n \in Names, RenameRepository(r, n)
        PROVE  ObjectInv'
    <2>1. "renamed" \notin torn' => RowsOf(r) = {}
      BY <1>2 DEF RenameRepository
    <2>2. "reused" \notin torn' => \A task \in Queued : task.name # n
      BY <1>2 DEF RenameRepository
    <2>3. torn' \subseteq {"uncommitted", "raced", "lost", "unremoved"} =>
             RowsOf(r) = {} /\ \A task \in Queued : task.name # n
      BY <2>1, <2>2
    <2>4. /\ name' = [name EXCEPT ![r] = n] /\ torn \subseteq torn'
          /\ UNCHANGED <<rows, store, queue, tx>>
      BY <1>2 DEF RenameRepository
    <2> QED
      BY <2>3, <2>4, NameObject, EnlistsNobody
  <1>3. ASSUME NEW t \in Requests, Quiet(t)
        PROVE  ObjectInv'
    BY <1>3, QuietFacts, ObjectQuiet DEF Queued
  <1>4. ASSUME NEW t \in Requests, Step(t)
        PROVE  ObjectInv'
    <2>1. CASE Quiet(t)
      BY <1>3, <2>1
    <2>2. CASE UploadComplete(t)
      BY <2>2, UploadCompleteObject
    <2>3. CASE UploadCommit(t)
      BY <2>3, UploadCommitObject
    <2>4. CASE ArtifactRemove(t)
      BY <2>4, ArtifactRemoveObject
    <2>5. CASE ArtifactCommit(t)
      BY <2>5, ArtifactCommitObject
    <2>6. CASE RepoDelete(t)
      <3>1. CASE Live(tx[t].repo)
        BY <2>6, <3>1, RepoDeleteObject
      <3>2. CASE ~Live(tx[t].repo)
        BY <2>1, <2>6, <3>2 DEF Quiet
      <3> QED
        BY <3>1, <3>2
    <2>7. CASE RepoCommit(t)
      BY <2>7, RepoCommitObject
    <2>8. CASE Expire(t)
      <3>1. "rolled" \in torn'
        BY <2>8 DEF Expire
      <3> QED
        BY <3>1 DEF ObjectInv
    <2>9. CASE OrphanQueue(t)
      <3>1. "rolled" \in torn'
        BY <2>9 DEF OrphanQueue, WaitersShaped
      <3> QED
        BY <3>1 DEF ObjectInv
    <2>10. CASE Clone(t)
      <3>1. /\ tx[t].pc = "import" /\ UNCHANGED <<name, rows, store, torn>>
            /\ Queued' = Queued \cup {Import(tx[t].repo)}
            /\ tx'[t] = Idle /\ \A s \in Requests \ {t} : tx'[s] = tx[s]
        BY <2>10, EndTx, QueuedAppend DEF Clone
      <3> QED
        BY <3>1, IdleTx, ObjectQuiet DEF Import
    <2> QED
      BY <1>4, <2>1, <2>2, <2>3, <2>4, <2>5, <2>6, <2>7, <2>8, <2>9, <2>10,
         RepoQueueObject DEF Step, Quiet
  <1>5. ASSUME NEW t \in Requests, Abort(t)
        PROVE  ObjectInv'
    <2>1. tx'[t] = Idle /\ \A s \in Requests \ {t} : tx'[s] = tx[s]
      BY <1>5, EndTx DEF Abort
    <2>2. torn' = torn \cup Harm(t) /\ UNCHANGED <<name, rows, store, queue>>
      BY <1>5 DEF Abort
    <2>3. torn' \subseteq {"uncommitted", "raced", "lost", "unremoved"} =>
             tx[t].pc # "adelgone" /\ (tx[t].pc = "rdel" => tx[t].rows = {})
      BY <2>2 DEF Harm
    <2> QED
      BY <2>1, <2>2, <2>3, IdleTx, ObjectQuiet DEF Queued
  <1>6. ASSUME DeleteArtifacts
        PROVE  ObjectInv'
    BY <1>6, DeleteArtifactsObject
  <1>7. ASSUME Crash
        PROVE  ObjectInv'
    <2>1. \A s \in Requests : tx'[s] = Idle
      BY <1>7 DEF Crash
    <2>2. /\ torn \subseteq torn' /\ UNCHANGED <<name, rows, store>>
          /\ \A s \in Requests : Harm(s) \subseteq torn'
      BY <1>7 DEF Crash
    <2>3. torn' \subseteq {"uncommitted", "raced", "lost", "unremoved"} =>
             \A s \in Requests :
               tx[s].pc # "adelgone" /\ (tx[s].pc = "rdel" => tx[s].rows = {})
      BY <2>2 DEF Harm
    <2>4. Queued' \subseteq Queued
      BY <1>7 DEF Crash, Queued
    <2> QED
      BY <2>1, <2>2, <2>3, <2>4, IdleTx, ObjectQuiet
  <1>8. CASE UNCHANGED vars
    BY <1>8, ObjectQuiet DEF vars, Queued
  <1>9. ASSUME CloneDone
        PROVE  ObjectInv'
    <2>1. Queued' \subseteq Queued
      BY <1>9, QueuedTail DEF CloneDone
    <2> QED
      BY <1>9, <2>1, ObjectQuiet DEF CloneDone
  <1> QED
    BY <1>1, <1>2, <1>3, <1>4, <1>5, <1>6, <1>7, <1>8, <1>9
       DEF Next, Quiet, Work

\* A row has its object unless the request holding it has removed it, and a
\* queued removal runs under a name nobody keeps.
THEOREM ObjectsCorrect == Spec => []ObjectInv
  <1>1. TypeOK /\ RowInv /\ WaitersShaped /\ SumInv /\ ObjectInv /\ [Next]_vars
          => ObjectInv'
    BY ObjectStep
  <1>2. Init => ObjectInv
    BY ObjectInit
  <1> QED
    BY <1>1, <1>2, RowsCorrect, SumsCorrect, PTL DEF Spec

\* As long as nothing but uncommitted uploads, raced deletions and removals
\* lost or cut short happened, each row nobody is deleting has its own object.
THEOREM RowsKeepObjects == Spec => []RowsHaveObjects
  <1>1. ObjectInv => RowsHaveObjects
    BY DEF ObjectInv, RowsServed, RowsHaveObjects, Removed, Deleting, Deleted
  <1> QED
    BY <1>1, ObjectsCorrect, PTL

-----------------------------------------------------------------------------
(* OwnerInv: an object has its row, its upload or its removal.              *)

\* Nothing is written or removed, and no upload is given up.
LEMMA OwnerQuiet ==
  ASSUME OwnerInv, torn \subseteq torn',
         UNCHANGED <<name, rows, store>>,
         torn' = {} => Queued \subseteq Queued',
         torn' = {} =>
           \A s \in Requests :
             \/ tx'[s] = tx[s]
             \/ /\ tx'[s].pc # "adelgone"
                /\ tx'[s].pc = "rdel" => tx'[s].rows = {}
                /\ tx[s].pc # "completed"
  PROVE  OwnerInv'
  <1> SUFFICES ASSUME torn' = {}
               PROVE  (ArtifactsGone /\ RemovalsQueued /\ ObjectsOwned)'
    BY DEF OwnerInv
  <1>1. ArtifactsGone /\ RemovalsQueued /\ ObjectsOwned
    BY DEF OwnerInv
  <1>2. \A k : Awaited(k) => Awaited(k)'
    BY DEF Awaited
  <1>3. ArtifactsGone'
    BY <1>1 DEF ArtifactsGone, Key
  <1>4. RemovalsQueued'
    <2> SUFFICES ASSUME NEW s \in Requests, tx'[s].pc = "rdel",
                        NEW o \in tx'[s].rows, Served(o) # None
                 PROVE  Awaited(Key(name[o.repo], o))'
      BY DEF RemovalsQueued, Served, Key
    <2>1. tx'[s] = tx[s]
      OBVIOUS
    <2>2. Awaited(Key(name[o.repo], o))
      BY <1>1, <2>1 DEF RemovalsQueued
    <2> QED
      BY <1>2, <2>2 DEF Awaited, Key
  <1>5. ObjectsOwned'
    <2> SUFFICES ASSUME NEW k \in Keys, store[k] # None,
                        ~Awaited(k)',
                        \A o \in rows : k # Key(name[o.repo], o)
                 PROVE  \E s \in Requests :
                           /\ tx'[s].pc = "completed"
                           /\ \E o \in tx'[s].rows : k = Key(tx'[s].name, o)
      BY DEF ObjectsOwned, Key
    <2>1. PICK s \in Requests : /\ tx[s].pc = "completed"
                                /\ \E o \in tx[s].rows : k = Key(tx[s].name, o)
      BY <1>1, <1>2 DEF ObjectsOwned
    <2>2. tx'[s] = tx[s]
      BY <2>1
    <2> QED
      BY <2>1, <2>2
  <1> QED
    BY <1>3, <1>4, <1>5

\* What a repository being deleted has in hand.
LEMMA RepoOwn ==
  ASSUME TypeOK, RowInv, NEW t \in Requests, tx[t].pc = "rdel"
  PROVE  /\ tx[t].repo \in Repos
         /\ \A o \in tx[t].rows : o \in rows /\ o.repo = tx[t].repo
         /\ \A o \in rows : o.repo = tx[t].repo => o \in tx[t].rows
  BY DEF RowInv, RequestsShaped, RowsOf

LEMMA UploadCompleteOwner ==
  ASSUME TypeOK, RowInv, SumInv, OwnerInv, NEW t \in Requests,
         UploadComplete(t)
  PROVE  OwnerInv'
  <1>1. tx[t].pc = "inserted" /\ UNCHANGED <<name, rows, queue, torn>>
    BY DEF UploadComplete
  <1> SUFFICES ASSUME torn = {}
               PROVE  (ArtifactsGone /\ RemovalsQueued /\ ObjectsOwned)'
    BY <1>1 DEF OwnerInv
  <1>2. ArtifactsGone /\ RemovalsQueued /\ ObjectsOwned /\ "renamed" \notin torn
    BY DEF OwnerInv
  <1>3. PICK row \in Row : tx[t].rows = {row}
    BY <1>1 DEF RowInv, RequestsShaped, Uploading
  <1>4. row \in Pending(t)
    BY <1>1, <1>3 DEF Pending
  <1> DEFINE k == Key(tx[t].name, row)
  <1>5. k \in Keys /\ \A o \in rows : Key(name[o.repo], o) # k
    BY <1>2, <1>4, KeyOwn DEF SumInv
  <1>6. store' = [store EXCEPT ![k] = row.sum]
    BY <1>3 DEF UploadComplete
  <1>7. \A j \in Keys \ {k} : store'[j] = store[j]
    BY <1>5, <1>6 DEF TypeOK
  <1>8. /\ tx'[t] = [pc |-> "completed", repo |-> tx[t].repo,
                     name |-> tx[t].name, rows |-> {row},
                     found |-> tx[t].found]
        /\ \A s \in Requests \ {t} : tx'[s] = tx[s]
    BY <1>3, GotoTx DEF UploadComplete
  <1>9. \A j : Awaited(j)' <=> Awaited(j)
    BY <1>1 DEF Awaited, Queued
  <1>10. ArtifactsGone'
    <2> SUFFICES ASSUME NEW s \in Requests, tx'[s].pc = "adelgone",
                        NEW o \in tx'[s].rows
                 PROVE  store'[Key(tx'[s].name, o)] = None
      BY DEF ArtifactsGone, Key
    <2>1. s # t /\ tx'[s] = tx[s]
      BY <1>8
    <2>2. o \in rows /\ tx[s].name = name[o.repo]
      BY <1>2, <2>1, ArtifactOwn DEF SumInv
    <2>3. Key(tx[s].name, o) \in Keys \ {k}
      BY <1>5, <2>2, RowKey
    <2>4. store[Key(tx[s].name, o)] = None
      BY <1>2, <2>1 DEF ArtifactsGone
    <2> QED
      BY <1>7, <2>1, <2>3, <2>4
  <1>11. RemovalsQueued'
    <2> SUFFICES ASSUME NEW s \in Requests, tx'[s].pc = "rdel",
                        NEW o \in tx'[s].rows,
                        store'[Key(name[o.repo], o)] # None
                 PROVE  Awaited(Key(name[o.repo], o))
      BY <1>1, <1>9 DEF RemovalsQueued, Served, Key, Awaited, Queued
    <2>1. s # t /\ tx'[s] = tx[s]
      BY <1>8
    <2>2. o \in rows
      BY <2>1, RepoOwn
    <2>3. Key(name[o.repo], o) \in Keys \ {k}
      BY <1>5, <2>2, RowKey
    <2> QED
      BY <1>2, <1>7, <2>1, <2>3 DEF RemovalsQueued, Served
  <1>12. ObjectsOwned'
    <2> SUFFICES ASSUME NEW j \in Keys, store'[j] # None, ~Awaited(j),
                        \A o \in rows : j # Key(name[o.repo], o)
                 PROVE  \E s \in Requests :
                           /\ tx'[s].pc = "completed"
                           /\ \E o \in tx'[s].rows : j = Key(tx'[s].name, o)
      BY <1>1, <1>9 DEF ObjectsOwned, Key
    <2>1. CASE j = k
      BY <1>8, <2>1
    <2>2. CASE j # k
      <3>1. PICK s \in Requests :
               /\ tx[s].pc = "completed"
               /\ \E o \in tx[s].rows : j = Key(tx[s].name, o)
        BY <1>2, <1>7, <2>2 DEF ObjectsOwned
      <3>2. tx'[s] = tx[s]
        BY <1>1, <1>8, <3>1
      <3> QED
        BY <3>1, <3>2
    <2> QED
      BY <2>1, <2>2
  <1> QED
    BY <1>10, <1>11, <1>12

LEMMA UploadCommitOwner ==
  ASSUME TypeOK, RowInv, SumInv, OwnerInv, NEW t \in Requests,
         UploadCommit(t)
  PROVE  OwnerInv'
  <1>1. /\ tx[t].pc = "completed" /\ rows' = rows \cup tx[t].rows
        /\ UNCHANGED <<name, store, queue, torn>>
    BY DEF UploadCommit
  <1> SUFFICES ASSUME torn = {}
               PROVE  (ArtifactsGone /\ RemovalsQueued /\ ObjectsOwned)'
    BY <1>1 DEF OwnerInv
  <1>2. ArtifactsGone /\ RemovalsQueued /\ ObjectsOwned /\ "renamed" \notin torn
    BY DEF OwnerInv
  <1>3. tx'[t] = Idle /\ \A s \in Requests \ {t} : tx'[s] = tx[s]
    BY EndTx DEF UploadCommit
  <1>4. \A o \in tx[t].rows : Key(tx[t].name, o) = Key(name[o.repo], o)
    <2> TAKE o \in tx[t].rows
    <2>1. o \in Pending(t)
      BY <1>1 DEF Pending
    <2>2. tx[t].name = name[o.repo]
      BY <1>2, <2>1, KeyOwn DEF SumInv
    <2> QED
      BY <2>2
  <1>5. ArtifactsGone'
    BY <1>1, <1>2, <1>3, IdleTx DEF ArtifactsGone, Key
  <1>6. RemovalsQueued'
    <2> SUFFICES ASSUME NEW s \in Requests, tx'[s].pc = "rdel",
                        NEW o \in tx'[s].rows, Served(o) # None
                 PROVE  Awaited(Key(name[o.repo], o))
      BY <1>1 DEF RemovalsQueued, Served, Key, Awaited, Queued
    <2>1. tx'[s] = tx[s]
      BY <1>3, IdleTx
    <2> QED
      BY <1>2, <2>1 DEF RemovalsQueued
  <1>7. ObjectsOwned'
    <2> SUFFICES ASSUME NEW j \in Keys, store[j] # None, ~Awaited(j),
                        \A o \in rows' : j # Key(name[o.repo], o)
                 PROVE  \E s \in Requests :
                           /\ tx'[s].pc = "completed"
                           /\ \E o \in tx'[s].rows : j = Key(tx'[s].name, o)
      BY <1>1 DEF ObjectsOwned, Key, Awaited, Queued
    <2>1. PICK s \in Requests :
             /\ tx[s].pc = "completed"
             /\ \E o \in tx[s].rows : j = Key(tx[s].name, o)
      BY <1>1, <1>2 DEF ObjectsOwned
    <2>2. s # t
      BY <1>1, <1>4, <2>1
    <2>3. tx'[s] = tx[s]
      BY <1>3, <2>2
    <2> QED
      BY <2>1, <2>3
  <1> QED
    BY <1>5, <1>6, <1>7

LEMMA ArtifactRemoveOwner ==
  ASSUME TypeOK, RowInv, SumInv, OwnerInv, NEW t \in Requests,
         ArtifactRemove(t)
  PROVE  OwnerInv'
  <1>1. /\ tx[t].pc = "adel" /\ UNCHANGED <<name, rows, queue, torn>>
        /\ store' = [k \in Keys |->
                       IF \E row \in tx[t].rows : k = Key(tx[t].name, row)
                       THEN None ELSE store[k]]
    BY DEF ArtifactRemove
  <1> SUFFICES ASSUME torn = {}
               PROVE  (ArtifactsGone /\ RemovalsQueued /\ ObjectsOwned)'
    BY <1>1 DEF OwnerInv
  <1>2. ArtifactsGone /\ RemovalsQueued /\ ObjectsOwned /\ "renamed" \notin torn
    BY DEF OwnerInv
  <1>3. PICK row \in rows : tx[t].rows = {row} /\ tx[t].name = name[row.repo]
    BY <1>1, <1>2, ArtifactOwn DEF SumInv
  <1>4. /\ tx'[t] = [pc |-> "adelgone", repo |-> tx[t].repo,
                     name |-> tx[t].name, rows |-> {row},
                     found |-> tx[t].found]
        /\ \A s \in Requests \ {t} : tx'[s] = tx[s]
    BY <1>3, GotoTx DEF ArtifactRemove
  <1>5. /\ \A k \in Keys : store'[k] \in {store[k], None}
        /\ store'[Key(tx[t].name, row)] = None
    BY <1>1, <1>3, RowKey
  <1>6. ArtifactsGone'
    <2> SUFFICES ASSUME NEW s \in Requests, tx'[s].pc = "adelgone",
                        NEW o \in tx'[s].rows
                 PROVE  store'[Key(tx'[s].name, o)] = None
      BY DEF ArtifactsGone, Key
    <2>1. CASE s = t
      BY <1>4, <1>5, <2>1
    <2>2. CASE s # t
      <3>1. tx'[s] = tx[s]
        BY <1>4, <2>2
      <3>2. o \in rows /\ tx[s].name = name[o.repo]
        BY <1>2, <3>1, ArtifactOwn DEF SumInv
      <3>3. Key(tx[s].name, o) \in Keys
        BY <3>2, RowKey
      <3>4. store[Key(tx[s].name, o)] = None
        BY <1>2, <3>1 DEF ArtifactsGone
      <3> QED
        BY <1>5, <3>1, <3>3, <3>4
    <2> QED
      BY <2>1, <2>2
  <1>7. RemovalsQueued'
    <2> SUFFICES ASSUME NEW s \in Requests, tx'[s].pc = "rdel",
                        NEW o \in tx'[s].rows,
                        store'[Key(name[o.repo], o)] # None
                 PROVE  Awaited(Key(name[o.repo], o))
      BY <1>1 DEF RemovalsQueued, Served, Key, Awaited, Queued
    <2>1. tx'[s] = tx[s]
      BY <1>4
    <2>2. Key(name[o.repo], o) \in Keys
      BY <2>1, RepoOwn, RowKey
    <2> QED
      BY <1>2, <1>5, <2>1, <2>2 DEF RemovalsQueued, Served
  <1>8. ObjectsOwned'
    <2> SUFFICES ASSUME NEW j \in Keys, store'[j] # None, ~Awaited(j),
                        \A o \in rows : j # Key(name[o.repo], o)
                 PROVE  \E s \in Requests :
                           /\ tx'[s].pc = "completed"
                           /\ \E o \in tx'[s].rows : j = Key(tx'[s].name, o)
      BY <1>1 DEF ObjectsOwned, Key, Awaited, Queued
    <2>1. PICK s \in Requests :
             /\ tx[s].pc = "completed"
             /\ \E o \in tx[s].rows : j = Key(tx[s].name, o)
      BY <1>2, <1>5 DEF ObjectsOwned
    <2>2. tx'[s] = tx[s]
      BY <1>1, <1>4, <2>1
    <2> QED
      BY <2>1, <2>2
  <1> QED
    BY <1>6, <1>7, <1>8

LEMMA ArtifactCommitOwner ==
  ASSUME TypeOK, RowInv, SumInv, OwnerInv, NEW t \in Requests,
         ArtifactCommit(t)
  PROVE  OwnerInv'
  <1>1. /\ tx[t].pc = "adelgone" /\ rows' = rows \ tx[t].rows
        /\ UNCHANGED <<name, store, queue, torn>>
    BY DEF ArtifactCommit
  <1> SUFFICES ASSUME torn = {}
               PROVE  (ArtifactsGone /\ RemovalsQueued /\ ObjectsOwned)'
    BY <1>1 DEF OwnerInv
  <1>2. ArtifactsGone /\ RemovalsQueued /\ ObjectsOwned /\ "renamed" \notin torn
    BY DEF OwnerInv
  <1>3. tx'[t] = Idle /\ \A s \in Requests \ {t} : tx'[s] = tx[s]
    BY EndTx DEF ArtifactCommit
  <1>4. PICK row \in rows : tx[t].rows = {row} /\ tx[t].name = name[row.repo]
    BY <1>1, <1>2, ArtifactOwn DEF SumInv
  <1>5. store[Key(name[row.repo], row)] = None
    BY <1>1, <1>2, <1>4 DEF ArtifactsGone
  <1>6. ArtifactsGone'
    BY <1>1, <1>2, <1>3, IdleTx DEF ArtifactsGone, Key
  <1>7. RemovalsQueued'
    <2> SUFFICES ASSUME NEW s \in Requests, tx'[s].pc = "rdel",
                        NEW o \in tx'[s].rows, Served(o) # None
                 PROVE  Awaited(Key(name[o.repo], o))
      BY <1>1 DEF RemovalsQueued, Served, Key, Awaited, Queued
    <2>1. tx'[s] = tx[s]
      BY <1>3, IdleTx
    <2> QED
      BY <1>2, <2>1 DEF RemovalsQueued
  <1>8. ObjectsOwned'
    <2> SUFFICES ASSUME NEW j \in Keys, store[j] # None, ~Awaited(j),
                        \A o \in rows' : j # Key(name[o.repo], o)
                 PROVE  \E s \in Requests :
                           /\ tx'[s].pc = "completed"
                           /\ \E o \in tx'[s].rows : j = Key(tx'[s].name, o)
      BY <1>1 DEF ObjectsOwned, Key, Awaited, Queued
    <2>1. \A o \in rows : j # Key(name[o.repo], o)
      BY <1>1, <1>4, <1>5
    <2>2. PICK s \in Requests :
             /\ tx[s].pc = "completed"
             /\ \E o \in tx[s].rows : j = Key(tx[s].name, o)
      BY <1>2, <2>1 DEF ObjectsOwned
    <2>3. tx'[s] = tx[s]
      BY <1>1, <1>3, <2>2
    <2> QED
      BY <2>2, <2>3
  <1> QED
    BY <1>6, <1>7, <1>8

LEMMA RepoDeleteOwner ==
  ASSUME TypeOK, RowInv, OwnerInv, NEW t \in Requests, RepoDelete(t),
         Live(tx[t].repo)
  PROVE  OwnerInv'
  <1>1. /\ tx[t].pc = "rsweep" /\ UNCHANGED <<name, rows, store, queue>>
        /\ tx[t].repo \in Repos
    BY DEF RepoDelete, RowInv, RequestsShaped
  <1>2. /\ tx'[t].pc = IF tx[t].rows = {} THEN "rdel" ELSE "rqueue"
        /\ tx'[t].rows = RowsOf(tx[t].repo)
        /\ \A s \in Requests \ {t} : tx'[s] = tx[s]
        /\ torn' = torn \cup
             (IF tx[t].rows # RowsOf(tx[t].repo) THEN {"raced"} ELSE {})
    BY <1>1, RepoDeleteType
  <1>3. torn \subseteq torn'
    BY <1>2
  <1>4. torn' = {} => tx'[t].rows = tx[t].rows
    BY <1>2
  <1>5. /\ tx'[t].pc # "adelgone"
        /\ torn' = {} => (tx'[t].pc = "rdel" => tx'[t].rows = {})
    BY <1>2, <1>4
  <1> QED
    BY <1>1, <1>2, <1>3, <1>5, OwnerQuiet DEF Queued

\* Unless an upload slipped in between its two statements, deleteRepository
\* queues the removal of every object of the repository.
LEMMA RepoQueueOwner ==
  ASSUME TypeOK, RowInv, WaitersShaped, OwnerInv, NEW t \in Requests,
         RepoQueue(t)
  PROVE  OwnerInv'
  <1> DEFINE r    == tx[t].repo
             task == Removal(tx[t].name, tx[t].found)
  <1>1. /\ tx[t].pc = "rqueue" /\ UNCHANGED <<name, rows, store, torn>>
        /\ Queued' = Queued \cup {task} /\ Goto(t, "rdel")
    BY QueuedAppend DEF RepoQueue
  <1>2. /\ r \in Repos /\ tx[t].name = name[r] /\ tx[t].rows = RowsOf(r)
    BY <1>1 DEF RowInv, RequestsShaped
  <1>3. /\ tx'[t].pc = "rdel" /\ tx'[t].rows = tx[t].rows
        /\ \A s \in Requests \ {t} : tx'[s] = tx[s]
    BY <1>1, GotoPc
  <1> SUFFICES ASSUME torn = {}
               PROVE  (ArtifactsGone /\ RemovalsQueued /\ ObjectsOwned)'
    BY <1>1 DEF OwnerInv
  <1>4. ArtifactsGone /\ RemovalsQueued /\ ObjectsOwned
    BY DEF OwnerInv
  <1>5. \A k : Awaited(k) => Awaited(k)'
    BY <1>1 DEF Awaited
  <1>6. ArtifactsGone'
    BY <1>1, <1>3, <1>4 DEF ArtifactsGone, Key
  <1>7. RemovalsQueued'
    <2> SUFFICES ASSUME NEW s \in Requests, tx'[s].pc = "rdel",
                        NEW o \in tx'[s].rows, Served(o) # None
                 PROVE  \E q \in Queued' :
                           /\ name[o.repo] = q.name
                           /\ o.file \in q.files
      BY <1>1 DEF RemovalsQueued, Served, Key, Awaited
    <2>1. CASE s = t
      <3>1. o \in tx[t].rows /\ o.repo = r /\ o.file \in tx[t].found
        BY <1>1, <1>2, <1>3, <2>1 DEF WaitersShaped, RowsOf
      <3>2. /\ task \in Queued' /\ task.name = name[o.repo]
            /\ o.file \in task.files
        BY <1>1, <1>2, <3>1 DEF Removal
      <3> QED
        BY <3>2
    <2>2. CASE s # t
      <3>1. tx'[s] = tx[s]
        BY <1>3, <2>2
      <3>2. Awaited(Key(name[o.repo], o))
        BY <1>4, <3>1 DEF RemovalsQueued
      <3> QED
        BY <1>1, <3>2 DEF Awaited, Key
    <2> QED
      BY <2>1, <2>2
  <1>8. ObjectsOwned'
    <2> SUFFICES ASSUME NEW k \in Keys, store[k] # None, ~Awaited(k)',
                        \A o \in rows : k # Key(name[o.repo], o)
                 PROVE  \E s \in Requests :
                           /\ tx'[s].pc = "completed"
                           /\ \E o \in tx'[s].rows : k = Key(tx'[s].name, o)
      BY <1>1 DEF ObjectsOwned, Key
    <2>1. PICK s \in Requests : /\ tx[s].pc = "completed"
                                /\ \E o \in tx[s].rows : k = Key(tx[s].name, o)
      BY <1>4, <1>5 DEF ObjectsOwned
    <2>2. tx'[s] = tx[s]
      BY <1>1, <1>3, <2>1
    <2> QED
      BY <2>1, <2>2
  <1> QED
    BY <1>6, <1>7, <1>8

LEMMA RepoCommitOwner ==
  ASSUME TypeOK, RowInv, OwnerInv, NEW t \in Requests, RepoCommit(t)
  PROVE  OwnerInv'
  <1> DEFINE r == tx[t].repo
  <1>1. /\ tx[t].pc = "rdel" /\ rows' = rows \ RowsOf(r)
        /\ name' = [name EXCEPT ![r] = None]
        /\ UNCHANGED <<store, queue, torn>>
    BY DEF RepoCommit
  <1> SUFFICES ASSUME torn = {}
               PROVE  (ArtifactsGone /\ RemovalsQueued /\ ObjectsOwned)'
    BY <1>1 DEF OwnerInv
  <1>2. ArtifactsGone /\ RemovalsQueued /\ ObjectsOwned
    BY DEF OwnerInv
  <1>3. r \in Repos /\ tx[t].rows = RowsOf(r)
    BY <1>1 DEF RowInv, RequestsShaped
  <1>4. \A q \in Repos \ {r} : name'[q] = name[q]
    BY <1>1, <1>3 DEF TypeOK
  <1>5. tx'[t] = Idle /\ \A s \in Requests \ {t} : tx'[s] = tx[s]
    BY EndTx DEF RepoCommit
  <1>6. ArtifactsGone'
    BY <1>1, <1>2, <1>5, IdleTx DEF ArtifactsGone, Key
  <1>7. RemovalsQueued'
    <2> SUFFICES ASSUME NEW s \in Requests, tx'[s].pc = "rdel",
                        NEW o \in tx'[s].rows,
                        store[Key(name'[o.repo], o)] # None
                 PROVE  Awaited(Key(name'[o.repo], o))
      BY <1>1 DEF RemovalsQueued, Served, Key, Awaited, Queued
    <2>1. s # t /\ tx'[s] = tx[s]
      BY <1>5, IdleTx
    <2>2. o.repo = tx[s].repo /\ o.repo \in Repos
      BY <2>1, RepoOwn
    <2>3. tx[s].repo # r
      BY <1>1, <2>1 DEF RowInv, LocksHold
    <2>4. name'[o.repo] = name[o.repo]
      BY <1>4, <2>2, <2>3
    <2> QED
      BY <1>2, <2>1, <2>4 DEF RemovalsQueued, Served
  <1>8. ObjectsOwned'
    <2> SUFFICES ASSUME NEW k \in Keys, store[k] # None, ~Awaited(k),
                        \A o \in rows' : k # Key(name'[o.repo], o)
                 PROVE  \E s \in Requests :
                           /\ tx'[s].pc = "completed"
                           /\ \E o \in tx'[s].rows : k = Key(tx'[s].name, o)
      BY <1>1 DEF ObjectsOwned, Key, Awaited, Queued
    <2>1. ASSUME NEW o \in rows PROVE k # Key(name[o.repo], o)
      <3>1. CASE o.repo = r
        <4>1. o \in tx[t].rows
          BY <1>3, <3>1 DEF RowsOf
        <4> QED
          BY <1>1, <1>2, <4>1 DEF RemovalsQueued, Served
      <3>2. CASE o.repo # r
        <4>1. o \in rows' /\ o.repo \in Repos \ {r}
          BY <1>1, <3>2 DEF RowsOf, TypeOK, Row
        <4> QED
          BY <1>4, <4>1
      <3> QED
        BY <3>1, <3>2
    <2>2. PICK s \in Requests : /\ tx[s].pc = "completed"
                                /\ \E o \in tx[s].rows : k = Key(tx[s].name, o)
      BY <1>2, <2>1 DEF ObjectsOwned
    <2>3. tx'[s] = tx[s]
      BY <1>1, <1>5, <2>2
    <2> QED
      BY <2>2, <2>3
  <1> QED
    BY <1>6, <1>7, <1>8

\* The task leaves the queue and its objects the bucket, or it is cut short.
LEMMA DeleteArtifactsOwner ==
  ASSUME TypeOK, RowInv, SumInv, OwnerInv, DeleteArtifacts
  PROVE  OwnerInv'
  <1> DEFINE task == Head(queue)
  <1>1. /\ queue # <<>> /\ queue' = Tail(queue)
        /\ torn' = {} =>
              store' = [k \in Keys |-> IF k[1] = task.name /\ k[2] \in task.files
                                       THEN None ELSE store[k]]
        /\ UNCHANGED <<name, rows, tx>> /\ torn \subseteq torn'
    BY DEF DeleteArtifacts
  <1> SUFFICES ASSUME torn' = {}
               PROVE  (ArtifactsGone /\ RemovalsQueued /\ ObjectsOwned)'
    BY DEF OwnerInv
  <1>2. ArtifactsGone /\ RemovalsQueued /\ ObjectsOwned /\ "renamed" \notin torn
    BY <1>1 DEF OwnerInv
  <1>3. Queued \subseteq Queued' \cup {task}
    BY <1>1, QueuedTail
  <1>4. \A k \in Keys : store'[k] # None =>
           store[k] # None /\ ~(k[1] = task.name /\ k[2] \in task.files)
    BY <1>1
  <1>5. \A k \in Keys : store'[k] # None /\ Awaited(k) => Awaited(k)'
    BY <1>3, <1>4 DEF Awaited
  <1>6. \A k \in Keys : store'[k] \in {store[k], None}
    BY <1>1
  <1> HIDE DEF task
  <1>7. ArtifactsGone'
    <2> SUFFICES ASSUME NEW s \in Requests, tx[s].pc = "adelgone",
                        NEW o \in tx[s].rows
                 PROVE  store'[Key(tx[s].name, o)] = None
      BY <1>1 DEF ArtifactsGone, Key
    <2>1. o \in rows /\ tx[s].name = name[o.repo]
      BY <1>2, ArtifactOwn DEF SumInv
    <2>2. Key(tx[s].name, o) \in Keys
      BY <2>1, RowKey
    <2> QED
      BY <1>2, <1>6, <2>2 DEF ArtifactsGone
  <1>8. RemovalsQueued'
    <2> SUFFICES ASSUME NEW s \in Requests, tx[s].pc = "rdel",
                        NEW o \in tx[s].rows,
                        store'[Key(name[o.repo], o)] # None
                 PROVE  Awaited(Key(name[o.repo], o))'
      BY <1>1 DEF RemovalsQueued, Served, Key
    <2>1. Key(name[o.repo], o) \in Keys
      BY RepoOwn, RowKey
    <2>2. Awaited(Key(name[o.repo], o))
      BY <1>2, <1>4, <2>1 DEF RemovalsQueued, Served
    <2>3. Key(name[o.repo], o)' = Key(name[o.repo], o)
      BY <1>1 DEF Key
    <2> QED
      BY <1>5, <2>1, <2>2, <2>3
  <1>9. ObjectsOwned'
    <2> SUFFICES ASSUME NEW k \in Keys, store'[k] # None, ~Awaited(k)',
                        \A o \in rows : k # Key(name[o.repo], o)
                 PROVE  \E s \in Requests :
                           /\ tx[s].pc = "completed"
                           /\ \E o \in tx[s].rows : k = Key(tx[s].name, o)
      BY <1>1 DEF ObjectsOwned, Key
    <2>1. store[k] # None /\ ~Awaited(k)
      BY <1>4, <1>5
    <2> QED
      BY <1>2, <2>1 DEF ObjectsOwned
  <1> QED
    BY <1>7, <1>8, <1>9

\* A new name, for a repository without rows.
LEMMA NameOwner ==
  ASSUME TypeOK, RowInv, SumInv, OwnerInv, NEW r \in Repos, NEW n \in Names,
         name' = [name EXCEPT ![r] = n], torn \subseteq torn',
         torn' = {} => RowsOf(r) = {},
         UNCHANGED <<rows, store, queue>>, Enlists
  PROVE  OwnerInv'
  <1> SUFFICES ASSUME torn' = {}
               PROVE  (ArtifactsGone /\ RemovalsQueued /\ ObjectsOwned)'
    BY DEF OwnerInv
  <1>1. ArtifactsGone /\ RemovalsQueued /\ ObjectsOwned
    BY DEF OwnerInv
  <1>2. \A q \in Repos \ {r} : name'[q] = name[q]
    BY DEF TypeOK
  <1>3. \A o \in rows : o.repo \in Repos \ {r}
    BY DEF RowsOf, TypeOK, Row
  <1>4. \A o \in rows : name'[o.repo] = name[o.repo]
    BY <1>2, <1>3
  <1>5. ArtifactsGone'
    BY <1>1 DEF ArtifactsGone, Key, Enlists
  <1>6. RemovalsQueued'
    <2> SUFFICES ASSUME NEW s \in Requests, tx[s].pc = "rdel",
                        NEW o \in tx[s].rows,
                        store[Key(name'[o.repo], o)] # None
                 PROVE  Awaited(Key(name'[o.repo], o))
      BY DEF RemovalsQueued, Served, Key, Awaited, Queued, Enlists
    <2>1. name'[o.repo] = name[o.repo]
      BY <1>4, RepoOwn
    <2> QED
      BY <1>1, <2>1 DEF RemovalsQueued, Served
  <1>7. ObjectsOwned'
    <2> SUFFICES ASSUME NEW k \in Keys, store[k] # None, ~Awaited(k),
                        \A o \in rows : k # Key(name'[o.repo], o)
                 PROVE  \E s \in Requests :
                           /\ tx'[s].pc = "completed"
                           /\ \E o \in tx'[s].rows : k = Key(tx'[s].name, o)
      BY DEF ObjectsOwned, Key, Awaited, Queued
    <2>1. \A o \in rows : k # Key(name[o.repo], o)
      BY <1>4
    <2>2. PICK s \in Requests : /\ tx[s].pc = "completed"
                                /\ \E o \in tx[s].rows : k = Key(tx[s].name, o)
      BY <1>1, <2>1 DEF ObjectsOwned
    <2>3. tx'[s] = tx[s]
      BY <2>2 DEF Enlists
    <2> QED
      BY <2>2, <2>3
  <1> QED
    BY <1>5, <1>6, <1>7

LEMMA OwnerStep ==
  ASSUME TypeOK, RowInv, WaitersShaped, SumInv, OwnerInv, [Next]_vars
  PROVE  OwnerInv'
  <1>1. ASSUME NEW r \in Repos, NEW n \in Names, CreateRepository(r, n)
        PROVE  OwnerInv'
    BY <1>1, CreateFacts, NameOwner, EnlistsNobody DEF CreateRepository
  <1>2. ASSUME NEW r \in Repos, NEW n \in Names, RenameRepository(r, n)
        PROVE  OwnerInv'
    <2>1. torn' = {} => RowsOf(r) = {}
      BY <1>2 DEF RenameRepository
    <2>2. torn \subseteq torn'
      BY <1>2 DEF RenameRepository
    <2> QED
      BY <1>2, <2>1, <2>2, NameOwner, EnlistsNobody DEF RenameRepository
  <1>3. ASSUME NEW t \in Requests, Quiet(t)
        PROVE  OwnerInv'
    BY <1>3, QuietFacts, OwnerQuiet DEF Queued
  <1>4. ASSUME NEW t \in Requests, Step(t)
        PROVE  OwnerInv'
    <2>1. CASE Quiet(t)
      BY <1>3, <2>1
    <2>2. CASE UploadComplete(t)
      BY <2>2, UploadCompleteOwner
    <2>3. CASE UploadCommit(t)
      BY <2>3, UploadCommitOwner
    <2>4. CASE ArtifactRemove(t)
      BY <2>4, ArtifactRemoveOwner
    <2>5. CASE ArtifactCommit(t)
      BY <2>5, ArtifactCommitOwner
    <2>6. CASE RepoDelete(t)
      <3>1. CASE Live(tx[t].repo)
        BY <2>6, <3>1, RepoDeleteOwner
      <3>2. CASE ~Live(tx[t].repo)
        BY <2>1, <2>6, <3>2 DEF Quiet
      <3> QED
        BY <3>1, <3>2
    <2>7. CASE RepoCommit(t)
      BY <2>7, RepoCommitOwner
    <2>8. CASE Expire(t)
      <3>1. "rolled" \in torn'
        BY <2>8 DEF Expire
      <3> QED
        BY <3>1 DEF OwnerInv
    <2>9. CASE OrphanQueue(t) \/ Clone(t)
      <3>1. /\ tx[t].pc \in {"orphan", "import"}
            /\ UNCHANGED <<name, rows, store, torn>> /\ Queued \subseteq Queued'
            /\ tx'[t] = Idle /\ \A s \in Requests \ {t} : tx'[s] = tx[s]
        BY <2>9, EndTx, QueuedAppend DEF OrphanQueue, Clone
      <3> QED
        BY <3>1, IdleTx, OwnerQuiet
    <2> QED
      BY <1>4, <2>1, <2>2, <2>3, <2>4, <2>5, <2>6, <2>7, <2>8, <2>9,
         RepoQueueOwner DEF Step, Quiet
  <1>5. ASSUME NEW t \in Requests, Abort(t)
        PROVE  OwnerInv'
    <2>1. tx'[t] = Idle /\ \A s \in Requests \ {t} : tx'[s] = tx[s]
      BY <1>5, EndTx DEF Abort
    <2>2. torn' = torn \cup Harm(t) /\ UNCHANGED <<name, rows, store, queue>>
      BY <1>5 DEF Abort
    <2>3. torn' = {} => tx[t].pc # "completed"
      BY <2>2 DEF Harm
    <2> QED
      BY <2>1, <2>2, <2>3, IdleTx, OwnerQuiet DEF Queued
  <1>6. ASSUME DeleteArtifacts
        PROVE  OwnerInv'
    BY <1>6, DeleteArtifactsOwner
  <1>7. ASSUME Crash
        PROVE  OwnerInv'
    <2>1. \A s \in Requests : tx'[s] = Idle
      BY <1>7 DEF Crash
    <2>2. /\ torn \subseteq torn' /\ UNCHANGED <<name, rows, store>>
          /\ \A s \in Requests : Harm(s) \subseteq torn'
      BY <1>7 DEF Crash
    <2>3. torn' = {} => \A s \in Requests : tx[s].pc # "completed"
      BY <2>2 DEF Harm
    <2>4. torn' = {} => Queued' = Queued
      BY <1>7 DEF Crash, Queued
    <2> QED
      BY <2>1, <2>2, <2>3, <2>4, IdleTx, OwnerQuiet
  <1>8. CASE UNCHANGED vars
    BY <1>8, OwnerQuiet DEF vars, Queued
  <1>9. ASSUME CloneDone
        PROVE  OwnerInv'
    <2>1. /\ queue # <<>> /\ queue' = Tail(queue) /\ Head(queue).repo # None
          /\ UNCHANGED <<name, rows, store, tx, torn>>
      BY <1>9 DEF CloneDone
    <2>2. Head(queue).files = {}
      <3>1. queue \in Seq(Task) /\ Head(queue) \in Task
        BY <2>1 DEF TypeOK
      <3> QED
        BY <2>1, <3>1 DEF Task
    <2>3. Queued \subseteq Queued' \cup {Head(queue)}
      BY <2>1, QueuedTail
    <2>4. \A k : Awaited(k) => Awaited(k)'
      BY <2>2, <2>3 DEF Awaited
    <2> QED
      BY <2>1, <2>4 DEF OwnerInv, ArtifactsGone, RemovalsQueued, ObjectsOwned,
         Served, Key
  <1>10. ASSUME NEW t \in Requests, NEW r \in Repos, NEW n \in Names,
                CreateImport(t, r, n)
         PROVE  OwnerInv'
    <2>1. Enlists
      BY <1>10, CreateImportType
    <2> QED
      BY <1>10, <2>1, CreateFacts, NameOwner DEF CreateImport
  <1> QED
    BY <1>1, <1>2, <1>3, <1>4, <1>5, <1>6, <1>7, <1>8, <1>9, <1>10
       DEF Next, Quiet, Work

\* Each object has its row, its completed upload or its queued removal, at
\* every step of deleteArtifact and deleteRepository.
THEOREM OwnersCorrect == Spec => []OwnerInv
  <1>1. TypeOK /\ RowInv /\ WaitersShaped /\ SumInv /\ OwnerInv /\ [Next]_vars
          => OwnerInv'
    BY OwnerStep
  <1>2. Init => OwnerInv
    BY ObjectInit
  <1> QED
    BY <1>1, <1>2, RowsCorrect, SumsCorrect, PTL DEF Spec

\* As long as nothing was torn, no object is left that no row, no upload and
\* no queued removal accounts for; a removal that ends at an object it cannot
\* remove, and one whose deletion was rolled back, are ways of being torn.
THEOREM ObjectsKeepRows == Spec => []ObjectsHaveRows
  <1>1. OwnerInv => ObjectsHaveRows
    BY DEF OwnerInv, ObjectsOwned, ObjectsHaveRows, Awaited, Pending
  <1> QED
    BY <1>1, OwnersCorrect, PTL
-----------------------------------------------------------------------------
(* QueueInv: a queued removal has a name no repository keeps.               *)

\* No removal is queued, no name given, and no request whose removal is queued
\* gives up without its repository.
LEMMA QueueFrame ==
  ASSUME QueueInv, torn \subseteq torn',
         \A task \in Queued' : task \in Queued \/ task.name = None,
         \A r \in Repos : name'[r] \in {name[r], None},
         torn' \cap {"reused", "rolled"} = {} =>
           \A s \in Requests : tx[s].pc = "rdel" /\ tx[s].rows # {} =>
             tx'[s] = tx[s] \/ name'[tx[s].repo] = None
  PROVE  QueueInv'
  <1> SUFFICES ASSUME torn' \cap {"reused", "rolled"} = {},
                      NEW task \in Queued', NEW r \in Repos,
                      name'[r] # None, name'[r] = task.name
               PROVE  \E t \in Requests : tx'[t].pc = "rdel"
                          /\ tx'[t].repo = r /\ tx'[t].rows # {}
    BY DEF QueueInv, NamesGone, Live
  <1>1. NamesGone /\ task \in Queued /\ name[r] = name'[r]
    BY DEF QueueInv
  <1>2. PICK t \in Requests :
           tx[t].pc = "rdel" /\ tx[t].repo = r /\ tx[t].rows # {}
    BY <1>1 DEF NamesGone, Live
  <1>3. tx'[t] = tx[t]
    BY <1>2
  <1> QED
    BY <1>2, <1>3

\* A repository that is not being deleted gets a name nothing is queued under.
LEMMA NameQueue ==
  ASSUME TypeOK, QueueInv, NEW r \in Repos, NEW n \in Names,
         name' = [name EXCEPT ![r] = n],
         torn \subseteq torn',
         (\E task \in Queued : task.name = n) => "reused" \in torn',
         UNCHANGED queue, Enlists
  PROVE  QueueInv'
  <1> SUFFICES ASSUME torn' \cap {"reused", "rolled"} = {},
                      NEW task \in Queued, NEW q \in Repos,
                      name'[q] # None, name'[q] = task.name
               PROVE  \E t \in Requests : tx'[t].pc = "rdel"
                          /\ tx'[t].repo = q /\ tx'[t].rows # {}
    BY DEF QueueInv, NamesGone, Live, Queued
  <1>1. NamesGone /\ task.name # n
    BY DEF QueueInv
  <1>2. q # r /\ name'[q] = name[q]
    BY <1>1 DEF TypeOK
  <1>3. PICK t \in Requests :
           tx[t].pc = "rdel" /\ tx[t].repo = q /\ tx[t].rows # {}
    BY <1>1, <1>2 DEF NamesGone, Live
  <1>4. tx'[t] = tx[t]
    BY <1>3 DEF Enlists
  <1> QED
    BY <1>3, <1>4

\* The removal is queued under the name of the repository that goes with it.
LEMMA RepoQueueQueue ==
  ASSUME TypeOK, RowInv, QueueInv, NEW t \in Requests, RepoQueue(t)
  PROVE  QueueInv'
  <1> DEFINE r    == tx[t].repo
             task == Removal(tx[t].name, tx[t].found)
  <1>1. /\ tx[t].pc = "rqueue" /\ UNCHANGED <<name, rows, store, torn>>
        /\ Queued' = Queued \cup {task} /\ Goto(t, "rdel")
    BY QueuedAppend DEF RepoQueue
  <1>2. /\ r \in Repos /\ Live(r) /\ tx[t].rows # {} /\ task.name = name[r]
    BY <1>1 DEF RowInv, RequestsShaped, Removal
  <1>3. /\ tx'[t].pc = "rdel" /\ tx'[t].repo = r /\ tx'[t].rows = tx[t].rows
        /\ \A s \in Requests \ {t} : tx'[s] = tx[s]
    BY <1>1, GotoPc
  <1> HIDE DEF task
  <1> SUFFICES ASSUME torn \cap {"reused", "rolled"} = {},
                      NEW o \in Queued', NEW q \in Repos,
                      name[q] # None, name[q] = o.name
               PROVE  \E s \in Requests : tx'[s].pc = "rdel"
                          /\ tx'[s].repo = q /\ tx'[s].rows # {}
    BY <1>1 DEF QueueInv, NamesGone, Live
  <1>4. CASE o \in Queued
    <2>1. PICK s \in Requests :
             tx[s].pc = "rdel" /\ tx[s].repo = q /\ tx[s].rows # {}
      BY <1>4 DEF QueueInv, NamesGone, Live
    <2>2. tx'[s] = tx[s]
      BY <1>1, <1>3, <2>1
    <2> QED
      BY <2>1, <2>2
  <1>5. CASE o = task
    <2>1. q = r
      BY <1>2, <1>5 DEF RowInv, RowsKeyed, Live
    <2> QED
      BY <1>2, <1>3, <2>1
  <1> QED
    BY <1>1, <1>4, <1>5

LEMMA QueueStep ==
  ASSUME TypeOK, RowInv, WaitersShaped, QueueInv, [Next]_vars
  PROVE  QueueInv'
  <1>1. ASSUME NEW r \in Repos, NEW n \in Names, CreateRepository(r, n)
        PROVE  QueueInv'
    BY <1>1, NameQueue, EnlistsNobody DEF CreateRepository
  <1>2. ASSUME NEW r \in Repos, NEW n \in Names, RenameRepository(r, n)
        PROVE  QueueInv'
    BY <1>2, NameQueue, EnlistsNobody DEF RenameRepository
  <1>3. ASSUME UNCHANGED <<name, torn>>, Queued' \subseteq Queued,
               \A s \in Requests : tx[s].pc = "rdel" => tx'[s] = tx[s]
        PROVE  QueueInv'
    BY <1>3, QueueFrame
  <1>4. ASSUME NEW t \in Requests, NEW row \in Row,
               UploadBegin(t, row) \/ ArtifactDelete(t, row)
        PROVE  QueueInv'
    <2>1. /\ tx[t].pc = "idle" /\ \A s \in Requests \ {t} : tx'[s] = tx[s]
          /\ UNCHANGED <<name, torn, queue>>
      BY <1>4, UploadBeginType, ArtifactDeleteType
         DEF UploadBegin, ArtifactDelete
    <2> QED
      BY <1>3, <2>1 DEF Queued
  <1>5. ASSUME NEW t \in Requests, NEW r \in Repos, RepoSweep(t, r)
        PROVE  QueueInv'
    <2>1. /\ tx[t].pc = "idle" /\ \A s \in Requests \ {t} : tx'[s] = tx[s]
          /\ UNCHANGED <<name, torn, queue>>
      BY <1>5, RepoSweepType DEF RepoSweep
    <2> QED
      BY <1>3, <2>1 DEF Queued
  <1>6. ASSUME NEW t \in Requests, Step(t)
        PROVE  QueueInv'
    <2>1. ASSUME UNCHANGED <<name, torn, queue>>, tx[t].pc # "rdel",
                 \A s \in Requests \ {t} : tx'[s] = tx[s]
          PROVE  QueueInv'
      BY <1>3, <2>1 DEF Queued
    <2>2. CASE RepoDelete(t) /\ Live(tx[t].repo)
      <3>1. /\ tx[t].pc = "rsweep" /\ tx[t].repo \in Repos
            /\ UNCHANGED <<name, queue>>
        BY <2>2 DEF RepoDelete, RowInv, RequestsShaped
      <3>2. torn \subseteq torn' /\ \A s \in Requests \ {t} : tx'[s] = tx[s]
        BY <2>2, <3>1, RepoDeleteType
      <3> QED
        BY <3>1, <3>2, QueueFrame DEF Queued
    <2>3. CASE RepoCommit(t)
      <3>1. /\ tx[t].pc = "rdel" /\ name' = [name EXCEPT ![tx[t].repo] = None]
            /\ UNCHANGED <<queue, torn>>
            /\ \A s \in Requests \ {t} : tx'[s] = tx[s]
        BY <2>3, EndTx DEF RepoCommit
      <3>2. tx[t].repo \in Repos
        BY <3>1 DEF RowInv, RequestsShaped
      <3> QED
        BY <3>1, <3>2, QueueFrame DEF TypeOK, Queued
    <2>4. CASE \/ UploadInsert(t) \/ UploadComplete(t) \/ UploadCommit(t)
               \/ ArtifactRemove(t) \/ ArtifactCommit(t) \/ DeadlockVictim(t)
               \/ RepoDelete(t) /\ ~Live(tx[t].repo)
      <3>1. /\ UNCHANGED <<name, torn, queue>>
            /\ tx[t].pc \in {"upload", "inserted", "completed", "adel",
                             "adelgone", "rsweep"}
        BY <2>4 DEF UploadInsert, UploadComplete, UploadCommit, ArtifactRemove,
                    ArtifactCommit, DeadlockVictim, RepoDelete, RowInv,
                    RequestsShaped, Uploading
      <3>2. End(t) \/ \E pc \in {"inserted", "completed", "adelgone"} : Goto(t, pc)
        BY <2>4, UploadInsertFacts
           DEF UploadComplete, UploadCommit, ArtifactRemove, ArtifactCommit,
               DeadlockVictim, RepoDelete
      <3>3. \A s \in Requests \ {t} : tx'[s] = tx[s]
        BY <3>2, EndTx, GotoTx
      <3> QED
        BY <2>1, <3>1, <3>3
    <2>5. CASE Expire(t) \/ OrphanQueue(t)
      <3>1. "rolled" \in torn'
        BY <2>5 DEF Expire, OrphanQueue, WaitersShaped
      <3> QED
        BY <3>1 DEF QueueInv
    <2>6. CASE Clone(t)
      <3>1. /\ tx[t].pc = "import" /\ UNCHANGED <<name, torn>>
            /\ Queued' = Queued \cup {Import(tx[t].repo)}
            /\ \A s \in Requests \ {t} : tx'[s] = tx[s]
        BY <2>6, EndTx, QueuedAppend DEF Clone
      <3> QED
        BY <3>1, QueueFrame DEF Import
    <2> QED
      BY <1>6, <2>2, <2>3, <2>4, <2>5, <2>6, RepoQueueQueue DEF Step
  <1>7. ASSUME NEW t \in Requests, Abort(t)
        PROVE  QueueInv'
    <2>1. \A s \in Requests \ {t} : tx'[s] = tx[s]
      BY <1>7, EndTx DEF Abort
    <2>2. torn' = torn \cup Harm(t) /\ UNCHANGED <<name, queue>>
      BY <1>7 DEF Abort
    <2>3. "rolled" \notin torn' => ~(tx[t].pc = "rdel" /\ tx[t].rows # {})
      BY <2>2 DEF Harm
    <2> QED
      BY <2>1, <2>2, <2>3, QueueFrame DEF Queued
  <1>8. ASSUME Work
        PROVE  QueueInv'
    <2>1. /\ Queued' \subseteq Queued /\ UNCHANGED <<name, tx>>
          /\ torn \subseteq torn'
      BY <1>8, QueuedTail DEF Work, DeleteArtifacts, CloneDone
    <2> QED
      BY <2>1, QueueFrame
  <1>9. ASSUME Crash
        PROVE  QueueInv'
    <2>1. queue' = <<>>
      BY <1>9 DEF Crash
    <2> QED
      BY <2>1 DEF QueueInv, NamesGone, Queued
  <1>10. CASE UNCHANGED vars
    BY <1>3, <1>10 DEF vars, Queued
  <1>11. ASSUME NEW t \in Requests, NEW r \in Repos, NEW n \in Names,
                CreateImport(t, r, n)
         PROVE  QueueInv'
    <2>1. Enlists
      BY <1>11, CreateImportType
    <2> QED
      BY <1>11, <2>1, NameQueue DEF CreateImport
  <1> QED
    BY <1>1, <1>2, <1>4, <1>5, <1>6, <1>7, <1>8, <1>9, <1>10, <1>11 DEF Next

\* As long as no name is given again and no deletion rolled back, a queued
\* removal is under a name no repository has but one being deleted.
THEOREM RemovalsHaveNoOwner == Spec => []QueueInv
  <1>1. Init => QueueInv
    BY DEF Init, QueueInv, NamesGone, Queued
  <1>2. TypeOK /\ RowInv /\ WaitersShaped /\ QueueInv /\ [Next]_vars => QueueInv'
    BY QueueStep
  <1> QED
    BY <1>1, <1>2, RowsCorrect, PTL DEF Spec
-----------------------------------------------------------------------------
(* Rows and objects implement ArtifactService.                              *)

\* What requests delete are rows, of which no two are one artifact.
LEMMA DeletedRows ==
  ASSUME TypeOK, RowInv
  PROVE  /\ \A t \in Requests : Deleted(t) \subseteq rows
         /\ Arts(rows) \subseteq Repos \X Files
         /\ \A o, p \in rows : <<o.repo, o.file>> = <<p.repo, p.file>> => o = p
         /\ \A t \in Requests : Arts(Deleted(t)) \subseteq Doomed
         /\ Doomed \subseteq Arts(rows)
  <1>1. ASSUME NEW t \in Requests
        PROVE  Deleted(t) \subseteq rows
    <2>1. CASE tx[t].pc \in {"adel", "adelgone"}
      BY <2>1 DEF RowInv, RequestsShaped, Deleted
    <2>2. CASE tx[t].pc = "rsweep"
      BY <2>2 DEF RowInv, RequestsShaped, Deleted, RowsOf
    <2>3. CASE tx[t].pc \in {"rqueue", "rdel"}
      BY <2>3 DEF RowInv, RequestsShaped, Deleted, RowsOf
    <2> QED
      BY <2>1, <2>2, <2>3 DEF Deleted
  <1>2. \A o \in rows : o.repo \in Repos /\ o.file \in Files
    BY DEF TypeOK, Row
  <1>3. \A o, p \in rows : <<o.repo, o.file>> = <<p.repo, p.file>> => o = p
    BY DEF RowInv, RowsKeyed, SameKey
  <1>4. Arts(rows) \subseteq Repos \X Files
    BY <1>2 DEF Arts
  <1>5. \A t \in Requests : Arts(Deleted(t)) \subseteq Doomed
    BY DEF Arts, Doomed
  <1>6. Doomed \subseteq Arts(rows)
    BY <1>1 DEF Arts, Doomed
  <1> QED
    BY <1>1, <1>3, <1>4, <1>5, <1>6

\* The artifact of a row is offered as it is served.
LEMMA Offered ==
  ASSUME NEW a \in Repos \X Files
  PROVE  /\ \A row \in rows : a = <<row.repo, row.file>>
               => Offer[a] = Served(row)
         /\ a \notin Arts(rows) => Offer[a] = None
  <1>1. a = <<a[1], a[2]>>
    OBVIOUS
  <1> QED
    BY <1>1 DEF Offer, Served, Key, Arts

LEMMA OfferWithout ==
  ASSUME TypeOK, RowInv, NEW A, rows' \subseteq rows,
         Arts(rows \ rows') \subseteq A,
         \A row \in rows' : Served(row)' =
            IF <<row.repo, row.file>> \in A THEN None ELSE Served(row)
  PROVE  Offer' = AS!Without(A)
  <1>1. ASSUME NEW a \in Repos \X Files
        PROVE  Offer'[a] = IF a \in A THEN None ELSE Offer[a]
    <2>1. CASE \E row \in rows' : a = <<row.repo, row.file>>
      <3>1. PICK row \in rows' : a = <<row.repo, row.file>>
        BY <2>1
      <3>2. Offer[a] = Served(row)
        BY <3>1, Offered
      <3>3. Offer'[a] = Served(row)'
        <4>1. a[1] = row.repo /\ a[2] = row.file
          BY <3>1
        <4> QED
          BY <4>1 DEF Offer, Served, Key
      <3> QED
        BY <3>1, <3>2, <3>3
    <2>2. CASE ~\E row \in rows' : a = <<row.repo, row.file>>
      <3>1. Offer'[a] = None
        <4>1. a = <<a[1], a[2]>>
          OBVIOUS
        <4> QED
          BY <2>2, <4>1 DEF Offer
      <3>2. a \in Arts(rows) => a \in A
        BY <2>2 DEF Arts
      <3>3. a \notin Arts(rows) => Offer[a] = None
        BY Offered
      <3> QED
        BY <3>1, <3>2, <3>3
    <2> QED
      BY <2>1, <2>2
  <1>2. Offer' = [a \in Repos \X Files |-> Offer'[a]]
    BY DEF Offer
  <1> QED
    BY <1>1, <1>2 DEF AS!Without

LEMMA OfferSame ==
  ASSUME TypeOK, RowInv, UNCHANGED rows,
         \A row \in rows : Served(row)' = Served(row)
  PROVE  Offer' = Offer
  <1>1. Offer' = AS!Without({})
    BY OfferWithout DEF Arts
  <1>2. Offer = [a \in Repos \X Files |-> Offer[a]]
    BY DEF Offer
  <1> QED
    BY <1>1, <1>2 DEF AS!Without

\* A request begins to delete rows, or goes on.
LEMMA AskOffer ==
  ASSUME TypeOK, RowInv, NEW t \in Requests,
         \A s \in Requests \ {t} : tx'[s] = tx[s],
         Deleted(t) \subseteq Deleted(t)', Deleted(t)' \subseteq rows,
         UNCHANGED <<name, rows, store>>
  PROVE  AS!Next
  <1> DEFINE A == Arts(Deleted(t)')
  <1>1. Offer' = Offer
    BY OfferSame DEF Served, Key
  <1>2. \A s \in Requests \ {t} : Deleted(s)' = Deleted(s)
    BY DEF Deleted
  <1>3. Doomed' = Doomed \cup A
    BY <1>2 DEF Doomed, Arts
  <1>4. A \subseteq Repos \X Files
    BY DeletedRows DEF Arts
  <1> QED
    BY <1>1, <1>3, <1>4 DEF AS!Next, AS!Ask
\* A request ends, and what it has deleted is no longer being deleted.
LEMMA DoomedEnd ==
  ASSUME TypeOK, RowInv, NEW t \in Requests, tx'[t] = Idle,
         \A s \in Requests \ {t} : tx'[s] = tx[s]
  PROVE  Doomed' = Doomed \ Arts(Deleted(t))
  <1>1. Deleted(t)' = {} /\ \A s \in Requests \ {t} : Deleted(s)' = Deleted(s)
    BY IdleTx DEF Deleted
  <1>2. \A s \in Requests \ {t} : Arts(Deleted(s)) \cap Arts(Deleted(t)) = {}
    <2> SUFFICES ASSUME NEW s \in Requests \ {t}, NEW o \in Deleted(s),
                        NEW p \in Deleted(t),
                        <<o.repo, o.file>> = <<p.repo, p.file>>
                 PROVE  FALSE
      BY DEF Arts
    <2>1. o \in rows /\ p \in rows
      BY DeletedRows
    <2>2. o = p
      BY <2>1, DeletedRows
    <2> QED
      BY <2>2 DEF RowInv, LocksHold
  <1>3. Doomed' = UNION {Arts(Deleted(s)) : s \in Requests \ {t}}
    BY <1>1 DEF Doomed, Arts
  <1>4. Doomed = UNION {Arts(Deleted(s)) : s \in Requests}
    BY DEF Doomed, Arts
  <1> QED
    BY <1>2, <1>3, <1>4

\* A request gives up or is rolled back.
LEMMA SpareOffer ==
  ASSUME TypeOK, RowInv, NEW t \in Requests, tx'[t] = Idle,
         \A s \in Requests \ {t} : tx'[s] = tx[s],
         UNCHANGED <<name, rows, store>>
  PROVE  AS!Next
  <1>1. Offer' = Offer
    BY OfferSame DEF Served, Key
  <1>2. Doomed' = Doomed \ Arts(Deleted(t))
    BY DoomedEnd
  <1>3. Arts(Deleted(t)) \subseteq Repos \X Files
    BY DeletedRows
  <1> QED
    BY <1>1, <1>2, <1>3 DEF AS!Next, AS!Spare

\* A deletion is committed.
LEMMA DeleteOffer ==
  ASSUME TypeOK, RowInv, NEW t \in Requests, tx'[t] = Idle,
         \A s \in Requests \ {t} : tx'[s] = tx[s],
         rows' = rows \ Deleted(t), UNCHANGED store,
         \A row \in rows' : name'[row.repo] = name[row.repo]
  PROVE  AS!Next
  <1> DEFINE A == Arts(Deleted(t))
  <1>1. Deleted(t) \subseteq rows
    BY DeletedRows
  <1>2. Arts(rows \ rows') \subseteq A
    BY DEF Arts
  <1>3. \A row \in rows' : <<row.repo, row.file>> \notin A
    <2> SUFFICES ASSUME NEW row \in rows', NEW o \in Deleted(t),
                        <<row.repo, row.file>> = <<o.repo, o.file>>
                 PROVE  FALSE
      BY DEF Arts
    <2>1. row \in rows /\ o \in rows /\ row # o
      BY <1>1
    <2> QED
      BY <2>1, DeletedRows
  <1>4. Offer' = AS!Without(A)
    BY <1>2, <1>3, OfferWithout DEF Served, Key
  <1>5. Doomed' = Doomed \ A
    BY DoomedEnd
  <1>6. A \subseteq Repos \X Files /\ A \subseteq Doomed
    BY DeletedRows
  <1> QED
    BY <1>4, <1>5, <1>6 DEF AS!Next, AS!Delete

\* Objects of artifacts that are being deleted are removed.
LEMMA WithdrawOffer ==
  ASSUME TypeOK, RowInv, NEW gone \in SUBSET rows, UNCHANGED <<name, rows>>,
         \A t \in Requests : Deleted(t)' = Deleted(t),
         Arts(gone) \subseteq Doomed,
         \A row \in gone : Served(row)' = None,
         \A row \in rows \ gone : Served(row)' = Served(row)
  PROVE  AS!Next
  <1>1. \A row \in rows : <<row.repo, row.file>> \in Arts(gone) => row \in gone
    BY DeletedRows DEF Arts
  <1>2. Offer' = AS!Without(Arts(gone))
    <2>1. \A row \in rows : Served(row)' =
             IF <<row.repo, row.file>> \in Arts(gone)
             THEN None ELSE Served(row)
      BY <1>1 DEF Arts
    <2>2. Arts(rows \ rows') \subseteq Arts(gone)
      BY DEF Arts
    <2> QED
      BY <2>1, <2>2, OfferWithout
  <1>3. Doomed' = Doomed
    BY DEF Doomed
  <1>4. Arts(gone) \subseteq Repos \X Files
    BY DeletedRows DEF Arts
  <1> QED
    BY <1>2, <1>3, <1>4 DEF AS!Next, AS!Withdraw

\* No request deletes anything else and no row is served otherwise.
LEMMA StutterOffer ==
  ASSUME TypeOK, RowInv, UNCHANGED rows,
         \A t \in Requests : Deleted(t)' = Deleted(t),
         \A row \in rows : Served(row)' = Served(row)
  PROVE  UNCHANGED <<Offer, Doomed>>
  <1>1. Offer' = Offer
    BY OfferSame
  <1>2. Doomed' = Doomed
    BY DEF Doomed
  <1> QED
    BY <1>1, <1>2

LEMMA NameOffer ==
  ASSUME TypeOK, RowInv, NEW r \in Repos, NEW n \in Names,
         name' = [name EXCEPT ![r] = n], RowsOf(r) = {},
         UNCHANGED <<rows, store>>, Enlists
  PROVE  UNCHANGED <<Offer, Doomed>>
  <1>1. \A row \in rows : row.repo \in Repos /\ row.repo # r
    BY DEF TypeOK, Row, RowsOf
  <1>2. \A row \in rows : Served(row)' = Served(row)
    BY <1>1 DEF Served, Key, TypeOK
  <1>3. \A t \in Requests : Deleted(t)' = Deleted(t)
    BY DEF Enlists, Deleted
  <1> QED
    BY <1>2, <1>3, StutterOffer

LEMMA UploadCompleteOffer ==
  ASSUME TypeOK, RowInv, SumInv, "renamed" \notin torn, NEW t \in Requests,
         UploadComplete(t)
  PROVE  UNCHANGED <<Offer, Doomed>>
  <1>1. tx[t].pc = "inserted" /\ UNCHANGED <<name, rows>>
    BY DEF UploadComplete
  <1>2. PICK row \in Row : tx[t].rows = {row}
    BY <1>1 DEF RowInv, RequestsShaped, Uploading
  <1>3. store' = [store EXCEPT ![Key(tx[t].name, row)] = row.sum]
    BY <1>2 DEF UploadComplete
  <1>4. row \in Pending(t)
    BY <1>1, <1>2 DEF Pending
  <1>5. \A o \in rows : Key(name[o.repo], o) # Key(tx[t].name, row)
    BY <1>4, KeyOwn DEF SumInv
  <1>6. \A o \in rows : Served(o)' = Served(o)
    BY <1>1, <1>3, <1>5, RowKey DEF Served, Key, TypeOK
  <1>7. /\ tx'[t].pc = "completed"
        /\ \A s \in Requests \ {t} : tx'[s] = tx[s]
    BY GotoPc DEF UploadComplete
  <1>8. \A s \in Requests : Deleted(s)' = Deleted(s)
    BY <1>1, <1>7 DEF Deleted
  <1> QED
    BY <1>1, <1>6, <1>8, StutterOffer

\* The row of an upload makes its object an artifact nobody was offered.
LEMMA UploadCommitOffer ==
  ASSUME TypeOK, RowInv, SumInv, "renamed" \notin torn, NEW t \in Requests,
         UploadCommit(t)
  PROVE  AS!Next \/ UNCHANGED <<Offer, Doomed>>
  <1>1. /\ tx[t].pc = "completed" /\ rows' = rows \cup tx[t].rows
        /\ UNCHANGED <<name, store>>
    BY DEF UploadCommit
  <1>2. PICK row \in Row : tx[t].rows = {row}
    BY <1>1 DEF RowInv, RequestsShaped, Uploading
  <1>3. row \in Pending(t)
    BY <1>1, <1>2 DEF Pending
  <1> DEFINE a == <<row.repo, row.file>>
             c == store[Key(name[row.repo], row)]
  <1>4. a \in Repos \X Files /\ row.sum \in Contents
    BY DEF Row
  <1>5. a \notin Arts(rows)
    <2>1. ~Taken(row)
      BY <1>3 DEF RowInv, LocksHold
    <2> QED
      BY <2>1 DEF Taken, SameKey, Arts
  <1>6. Offer[a] = None /\ a \notin Doomed
    BY <1>4, <1>5, Offered, DeletedRows
  <1>7. c \in {row.sum, None}
    <2>1. tx[t].name = name[row.repo]
      BY <1>3, KeyOwn DEF SumInv
    <2> QED
      BY <1>1, <1>2, <2>1 DEF SumInv, CompletedHold
  <1>8. Doomed' = Doomed
    <2>1. tx'[t] = Idle /\ \A s \in Requests \ {t} : tx'[s] = tx[s]
      BY EndTx DEF UploadCommit
    <2>2. Deleted(t) = {}
      BY <1>1 DEF Deleted
    <2>3. Arts({}) = {}
      BY DEF Arts
    <2> QED
      BY <2>1, <2>2, <2>3, DoomedEnd
  <1>9. Offer' = [Offer EXCEPT ![a] = c]
    <2>1. ASSUME NEW b \in Repos \X Files
          PROVE  Offer'[b] = IF b = a THEN c ELSE Offer[b]
      <3>1. b = <<b[1], b[2]>>
        OBVIOUS
      <3>2. \A o \in rows' : o \in rows \/ o = row
        BY <1>1, <1>2
      <3>3. row \in rows' /\ rows \subseteq rows'
        BY <1>1, <1>2
      <3>4. CASE b = a
        <4>1. row.repo = b[1] /\ row.file = b[2]
          BY <3>4
        <4> QED
          BY <1>1, <3>3, <3>4, <4>1 DEF Offer, Key
      <3>5. CASE b # a
        <4>1. ~(row.repo = b[1] /\ row.file = b[2])
          BY <3>1, <3>5
        <4>2. (\E o \in rows' : o.repo = b[1] /\ o.file = b[2])
                <=> \E o \in rows : o.repo = b[1] /\ o.file = b[2]
          BY <3>2, <3>3, <4>1
        <4> QED
          BY <1>1, <3>5, <4>2 DEF Offer
      <3> QED
        BY <3>4, <3>5
    <2>2. /\ Offer' = [b \in Repos \X Files |-> Offer'[b]]
          /\ Offer = [b \in Repos \X Files |-> Offer[b]]
      BY DEF Offer
    <2> HIDE DEF a, c
    <2> QED
      BY <1>4, <2>1, <2>2
  <1>10. CASE c = row.sum
    <2>1. AS!Publish(a, row.sum)
      BY <1>6, <1>8, <1>9, <1>10 DEF AS!Publish
    <2> QED
      BY <1>4, <2>1 DEF AS!Next
  <1>11. CASE c = None
    <2>1. Offer = [b \in Repos \X Files |-> Offer[b]]
      BY DEF Offer
    <2> HIDE DEF a, c
    <2>2. Offer' = Offer
      BY <1>4, <1>6, <1>9, <1>11, <2>1
    <2> QED
      BY <1>8, <2>2
  <1> QED
    BY <1>7, <1>10, <1>11

LEMMA ArtifactRemoveOffer ==
  ASSUME TypeOK, RowInv, SumInv, "renamed" \notin torn, NEW t \in Requests,
         ArtifactRemove(t)
  PROVE  AS!Next
  <1>1. tx[t].pc = "adel" /\ UNCHANGED <<name, rows>>
    BY DEF ArtifactRemove
  <1>2. PICK row \in rows : tx[t].rows = {row} /\ tx[t].name = name[row.repo]
    BY <1>1, ArtifactOwn DEF SumInv
  <1>3. store' = [k \in Keys |-> IF k = Key(name[row.repo], row)
                                 THEN None ELSE store[k]]
    BY <1>2 DEF ArtifactRemove
  <1>4. Served(row)' = None
    BY <1>1, <1>3, RowKey DEF Served, Key
  <1>5. \A o \in rows \ {row} : Served(o)' = Served(o)
    <2> TAKE o \in rows \ {row}
    <2>1. /\ Key(name[o.repo], o) \in Keys
          /\ Key(name[o.repo], o) # Key(name[row.repo], row)
      BY RowKey
    <2> QED
      BY <1>1, <1>3, <2>1 DEF Served, Key
  <1>6. /\ tx'[t].pc = "adelgone" /\ tx'[t].rows = tx[t].rows
        /\ \A s \in Requests \ {t} : tx'[s] = tx[s]
    BY GotoPc DEF ArtifactRemove
  <1>7. \A s \in Requests : Deleted(s)' = Deleted(s)
    BY <1>1, <1>6 DEF Deleted
  <1>8. Deleted(t) = {row}
    BY <1>1, <1>2 DEF Deleted
  <1>9. Arts({row}) \subseteq Doomed
    BY <1>8, DeletedRows
  <1> QED
    BY <1>1, <1>4, <1>5, <1>7, <1>9, WithdrawOffer

\* The worker removes objects of a repository that is gone, or is going.
LEMMA DeleteArtifactsOffer ==
  ASSUME TypeOK, RowInv, NamesGone, DeleteArtifacts
  PROVE  AS!Next
  <1>1. queue # <<>> /\ queue' = Tail(queue) /\ UNCHANGED <<name, rows, tx>>
    BY DEF DeleteArtifacts
  <1> DEFINE task == Head(queue)
  <1>2. task \in Queued
    BY <1>1, QueuedTail
  <1>3. PICK files \in SUBSET task.files :
           store' = [k \in Keys |-> IF k[1] = task.name /\ k[2] \in files
                                    THEN None ELSE store[k]]
    BY DEF DeleteArtifacts
  <1> DEFINE gone == {row \in rows :
                        name[row.repo] = task.name /\ row.file \in files}
  <1> HIDE DEF task
  <1>4. \A row \in gone : Served(row)' = None
    <2> TAKE row \in gone
    <2>1. Key(name[row.repo], row) \in Keys
      BY RowKey
    <2> QED
      BY <1>1, <1>3, <2>1 DEF Served, Key
  <1>5. \A row \in rows \ gone : Served(row)' = Served(row)
    <2> TAKE row \in rows \ gone
    <2>1. Key(name[row.repo], row) \in Keys
      BY RowKey
    <2> QED
      BY <1>1, <1>3, <2>1 DEF Served, Key
  <1>6. ASSUME NEW row \in gone
        PROVE  \E t \in Requests : row \in Deleted(t)
    <2>1. row.repo \in Repos /\ Live(row.repo) /\ name[row.repo] = task.name
      BY <1>6, RowKey
    <2>2. PICK t \in Requests : tx[t].pc = "rdel" /\ tx[t].repo = row.repo
      BY <1>2, <2>1 DEF NamesGone
    <2>3. tx[t].rows = RowsOf(row.repo)
      BY <2>2 DEF RowInv, RequestsShaped
    <2> QED
      BY <1>6, <2>2, <2>3 DEF Deleted, RowsOf
  <1>7. Arts(gone) \subseteq Doomed
    BY <1>6 DEF Arts, Doomed
  <1>8. \A t \in Requests : Deleted(t)' = Deleted(t)
    BY <1>1 DEF Deleted
  <1> HIDE DEF gone
  <1>9. gone \in SUBSET rows
    BY DEF gone
  <1> QED
    BY <1>1, <1>4, <1>5, <1>7, <1>8, <1>9, WithdrawOffer
\* Each step of the store is one of the service, or changes nothing it knows.
LEMMA OfferStep ==
  ASSUME TypeOK, RowInv, WaitersShaped, SumInv, QueueInv, [Next]_vars,
         ~Misplaced'
  PROVE  AS!Next \/ UNCHANGED <<Offer, Doomed>>
  <1>1. ASSUME torn \subseteq torn'
        PROVE  "renamed" \notin torn /\ "renamed" \notin torn' /\ NamesGone
    BY <1>1 DEF Misplaced, QueueInv
  <1>2. ASSUME NEW r \in Repos, NEW n \in Names, CreateRepository(r, n)
        PROVE  UNCHANGED <<Offer, Doomed>>
    BY <1>2, CreateFacts, NameOffer, EnlistsNobody DEF CreateRepository
  <1>3. ASSUME NEW r \in Repos, NEW n \in Names, RenameRepository(r, n)
        PROVE  UNCHANGED <<Offer, Doomed>>
    BY <1>1, <1>3, RenameFacts, NameOffer, EnlistsNobody DEF RenameRepository
  <1>4. ASSUME NEW t \in Requests, NEW row \in Row, UploadBegin(t, row)
        PROVE  AS!Next
    <2>1. /\ tx[t].pc = "idle" /\ UNCHANGED <<name, rows, store>>
          /\ tx'[t] = [pc |-> "upload", repo |-> row.repo,
                       name |-> name[row.repo], rows |-> {row}, found |-> {}]
          /\ \A s \in Requests \ {t} : tx'[s] = tx[s]
      BY <1>4, UploadBeginType DEF UploadBegin
    <2>2. Deleted(t) = {} /\ Deleted(t)' = {}
      BY <2>1 DEF Deleted
    <2> QED
      BY <2>1, <2>2, AskOffer
  <1>5. ASSUME NEW t \in Requests, NEW row \in Row, ArtifactDelete(t, row)
        PROVE  AS!Next
    <2>1. /\ tx[t].pc = "idle" /\ row \in rows
          /\ UNCHANGED <<name, rows, store>>
          /\ tx'[t] = [pc |-> "adel", repo |-> row.repo,
                       name |-> name[row.repo], rows |-> {row}, found |-> {}]
          /\ \A s \in Requests \ {t} : tx'[s] = tx[s]
      BY <1>5, ArtifactDeleteType DEF ArtifactDelete
    <2>2. Deleted(t) = {} /\ Deleted(t)' = {row}
      BY <2>1 DEF Deleted
    <2> QED
      BY <2>1, <2>2, AskOffer
  <1>6. ASSUME NEW t \in Requests, NEW r \in Repos, RepoSweep(t, r)
        PROVE  AS!Next
    <2>1. /\ tx[t].pc = "idle" /\ UNCHANGED <<name, rows, store>>
          /\ tx'[t] = [pc |-> "rsweep", repo |-> r, name |-> None,
                       rows |-> RowsOf(r), found |-> {}]
          /\ \A s \in Requests \ {t} : tx'[s] = tx[s]
      BY <1>6, RepoSweepType DEF RepoSweep
    <2>2. Deleted(t) = {} /\ Deleted(t)' = RowsOf(r) /\ RowsOf(r) \subseteq rows
      BY <2>1 DEF Deleted, RowsOf
    <2> QED
      BY <2>1, <2>2, AskOffer
  <1>7. ASSUME NEW t \in Requests, End(t), UNCHANGED <<name, rows, store>>
        PROVE  AS!Next
    BY <1>7, EndTx, SpareOffer
  <1>8. ASSUME NEW t \in Requests, UploadInsert(t)
        PROVE  AS!Next
    <2>1. CASE End(t)
      BY <1>7, <1>8, <2>1 DEF UploadInsert
    <2>2. CASE Goto(t, "inserted")
      <3>1. tx[t].pc = "upload" /\ UNCHANGED <<name, rows, store>>
        BY <1>8 DEF UploadInsert
      <3>2. /\ tx'[t].pc = "inserted"
            /\ \A s \in Requests \ {t} : tx'[s] = tx[s]
        BY <2>2, GotoPc
      <3>3. Deleted(t) = {} /\ Deleted(t)' = {}
        BY <3>1, <3>2 DEF Deleted
      <3> QED
        BY <3>1, <3>2, <3>3, AskOffer
    <2> QED
      BY <1>8, <2>1, <2>2, UploadInsertFacts
  <1>9. ASSUME NEW t \in Requests, ArtifactCommit(t)
        PROVE  AS!Next
    <2>1. /\ rows' = rows \ Deleted(t) /\ UNCHANGED <<name, store>>
      BY <1>9 DEF ArtifactCommit, Deleted
    <2>2. tx'[t] = Idle /\ \A s \in Requests \ {t} : tx'[s] = tx[s]
      BY <1>9, EndTx DEF ArtifactCommit
    <2> QED
      BY <2>1, <2>2, DeleteOffer
  <1>10. ASSUME NEW t \in Requests, RepoDelete(t)
         PROVE  AS!Next
    <2>1. /\ tx[t].pc = "rsweep" /\ UNCHANGED <<name, rows, store>>
      BY <1>10 DEF RepoDelete
    <2>2. tx[t].repo \in Repos /\ tx[t].rows \subseteq RowsOf(tx[t].repo)
      BY <2>1 DEF RowInv, RequestsShaped
    <2>3. CASE ~Live(tx[t].repo)
      BY <1>7, <1>10, <2>1, <2>3 DEF RepoDelete
    <2>4. CASE Live(tx[t].repo)
      <3>1. /\ tx'[t].pc \in {"rqueue", "rdel"}
            /\ tx'[t].rows = RowsOf(tx[t].repo)
            /\ \A s \in Requests \ {t} : tx'[s] = tx[s]
        BY <1>10, <2>2, <2>4, RepoDeleteType
      <3>2. /\ Deleted(t) = tx[t].rows /\ Deleted(t)' = RowsOf(tx[t].repo)
            /\ RowsOf(tx[t].repo) \subseteq rows
        BY <2>1, <3>1 DEF Deleted, RowsOf
      <3> QED
        BY <2>1, <2>2, <3>1, <3>2, AskOffer
    <2> QED
      BY <2>3, <2>4
  <1>11. ASSUME NEW t \in Requests, RepoCommit(t)
         PROVE  AS!Next
    <2>1. /\ tx[t].pc = "rdel" /\ rows' = rows \ RowsOf(tx[t].repo)
          /\ name' = [name EXCEPT ![tx[t].repo] = None] /\ UNCHANGED store
      BY <1>11 DEF RepoCommit
    <2>2. Deleted(t) = RowsOf(tx[t].repo)
      BY <2>1 DEF RowInv, RequestsShaped, Deleted
    <2>3. tx'[t] = Idle /\ \A s \in Requests \ {t} : tx'[s] = tx[s]
      BY <1>11, EndTx DEF RepoCommit
    <2>4. \A row \in rows' : name'[row.repo] = name[row.repo]
      BY <2>1 DEF RowsOf, TypeOK, Row
    <2> QED
      BY <2>1, <2>2, <2>3, <2>4, DeleteOffer
  <1>12. ASSUME NEW t \in Requests, Abort(t)
         PROVE  AS!Next
    BY <1>7, <1>12 DEF Abort
  <1>13. ASSUME NEW t \in Requests, Step(t)
         PROVE  AS!Next \/ UNCHANGED <<Offer, Doomed>>
    <2>1. CASE UploadComplete(t)
      BY <1>1, <2>1, UploadCompleteOffer DEF UploadComplete
    <2>2. CASE UploadCommit(t)
      BY <1>1, <2>2, UploadCommitOffer DEF UploadCommit
    <2>3. CASE ArtifactRemove(t)
      BY <1>1, <2>3, ArtifactRemoveOffer DEF ArtifactRemove
    <2>4. CASE DeadlockVictim(t)
      BY <1>7, <2>4 DEF DeadlockVictim
    <2>5. CASE RepoQueue(t)
      <3>1. tx[t].pc = "rqueue" /\ UNCHANGED <<name, rows, store>>
        BY <2>5 DEF RepoQueue
      <3>2. /\ tx'[t].pc = "rdel" /\ tx'[t].rows = tx[t].rows
            /\ \A s \in Requests \ {t} : tx'[s] = tx[s]
        BY <2>5, GotoPc DEF RepoQueue
      <3>3. \A s \in Requests : Deleted(s)' = Deleted(s)
        BY <3>1, <3>2 DEF Deleted
      <3> QED
        BY <3>1, <3>3, StutterOffer DEF Served, Key
    <2>6. CASE Clone(t)
      BY <1>7, <2>6 DEF Clone
    <2>7. CASE Expire(t) \/ OrphanQueue(t)
      BY <2>7 DEF Expire, OrphanQueue, WaitersShaped, Misplaced
    <2> QED
      BY <1>8, <1>9, <1>10, <1>11, <1>13, <2>1, <2>2, <2>3, <2>4, <2>5, <2>6,
         <2>7 DEF Step
  <1>14. ASSUME DeleteArtifacts
         PROVE  AS!Next
    <2>1. torn \subseteq torn'
      BY <1>14 DEF DeleteArtifacts
    <2> QED
      BY <1>1, <1>14, <2>1, DeleteArtifactsOffer
  <1>15. ASSUME Crash
         PROVE  AS!Next
    <2>1. UNCHANGED <<name, rows, store>> /\ \A s \in Requests : tx'[s] = Idle
      BY <1>15 DEF Crash
    <2>2. Offer' = Offer
      BY <2>1, OfferSame DEF Served, Key
    <2>3. Doomed' = Doomed \ Doomed
      BY <2>1, IdleTx DEF Doomed, Arts, Deleted
    <2>4. Doomed \subseteq Repos \X Files
      BY DeletedRows
    <2> QED
      BY <2>2, <2>3, <2>4 DEF AS!Next, AS!Spare
  <1>16. CASE UNCHANGED vars
    BY <1>16, StutterOffer DEF vars, Served, Key, Deleted
  <1>17. CASE CloneDone
    BY <1>17, StutterOffer DEF CloneDone, Served, Key, Deleted
  <1>18. ASSUME NEW t \in Requests, NEW r \in Repos, NEW n \in Names,
                CreateImport(t, r, n)
         PROVE  UNCHANGED <<Offer, Doomed>>
    <2>1. Enlists
      BY <1>18, CreateImportType
    <2> QED
      BY <1>18, <2>1, CreateFacts, NameOffer DEF CreateImport
  <1> QED
    BY <1>2, <1>3, <1>4, <1>5, <1>6, <1>12, <1>13, <1>14, <1>15, <1>16, <1>17,
       <1>18 DEF Next, Work

\* Rows and objects implement the artifact service, whatever requests, worker,
\* aborts and crashes do and in whatever order, until an object is looked for
\* or removed under a name its repository no longer has.
THEOREM OffersImplemented == Spec => ImplementsOffers
  <1>1. Init => AS!Init
    <2> SUFFICES ASSUME Init
                 PROVE  AS!Init
      OBVIOUS
    <2>1. rows = {} /\ \A t \in Requests : Deleted(t) = {}
      BY IdleTx DEF Init, Deleted
    <2>2. Doomed = {}
      BY <2>1 DEF Doomed, Arts
    <2> QED
      BY <2>1, <2>2 DEF AS!Init, Offer
  <1>2. TypeOK /\ RowInv /\ WaitersShaped /\ SumInv /\ QueueInv /\ [Next]_vars
          => [AS!Next \/ Misplaced']_<<Offer, Doomed>>
    BY OfferStep
  <1> QED
    BY <1>1, <1>2, RowsCorrect, SumsCorrect, RemovalsHaveNoOwner, PTL
       DEF Spec, ImplementsOffers

\* Whatever the artifact service does, an offer keeps its content until it
\* goes with a deletion that was asked for.
LEMMA OffersKept ==
  ASSUME AS!Next
  PROVE  AS!KeepsOffering
  <1> SUFFICES ASSUME NEW a \in Repos \X Files, Offer[a] # None
               PROVE  \/ Offer'[a] = Offer[a]
                      \/ Offer'[a] = None /\ a \in Doomed
    BY DEF AS!KeepsOffering
  <1>1. Offer = [b \in Repos \X Files |-> Offer[b]]
    BY DEF Offer
  <1>2. ASSUME NEW b \in Repos \X Files, NEW c \in Contents, AS!Publish(b, c)
        PROVE  Offer'[a] = Offer[a]
    BY <1>1, <1>2 DEF AS!Publish
  <1>3. ASSUME NEW A \in SUBSET (Repos \X Files),
               AS!Ask(A) \/ AS!Withdraw(A) \/ AS!Delete(A) \/ AS!Spare(A)
        PROVE  \/ Offer'[a] = Offer[a]
               \/ Offer'[a] = None /\ a \in Doomed
    BY <1>3 DEF AS!Ask, AS!Withdraw, AS!Delete, AS!Spare, AS!Without
  <1> QED
    BY <1>2, <1>3 DEF AS!Next

\* A download of an artifact gets the same content until the artifact's
\* deletion is asked for, and then that or nothing; with the same exceptions.
THEOREM DownloadsLast ==
  Spec => [][AS!KeepsOffering \/ Misplaced']_<<Offer, Doomed>>
  <1>1. [AS!Next \/ Misplaced']_<<Offer, Doomed>>
          => [AS!KeepsOffering \/ Misplaced']_<<Offer, Doomed>>
    BY OffersKept
  <1> QED
    BY <1>1, OffersImplemented, PTL DEF ImplementsOffers
=============================================================================
