--------------------------- MODULE RepoDiskProofs ---------------------------
(***************************************************************************)
(* What holds of the directories below the repository root, whatever has    *)
(* been cut off or has gone wrong (DirInv), and as long as nothing has: a   *)
(* row has its directory (HomeInv), a directory somebody to answer for it   *)
(* (RowInv), and git-daemon serves what may be served (ExportInv).  The     *)
(* argument rests on KeyInv of RepoStoreProofs.                             *)
(***************************************************************************)
EXTENDS RepoStoreProofs

-----------------------------------------------------------------------------
(* The objects of a repository are in one directory at most.                *)

\* A step that creates or moves no directory and starts no creation.
LEMMA DirFrame ==
  ASSUME TypeOK, DirInv, used \subseteq used',
         \A p \in Paths : disk'[p] # None =>
           disk[p] # None /\ disk'[p].repo = disk[p].repo,
         \A s \in Requests : tx'[s].pc = "init" =>
           tx[s].pc = "init" /\ tx'[s].id = tx[s].id
  PROVE  DirInv'
  BY DEF DirInv, OneDirectory, IsHome

LEMMA CreateInsertDir ==
  ASSUME TypeOK, DirInv, NEW t \in Requests, NEW p \in Paths,
         NEW vis \in Visibility, CreateInsert(t, p, vis)
  PROVE  DirInv'
  <1>1. PICK i \in Ids \ used :
          /\ used' = used \cup {i}
          /\ tx' = [tx EXCEPT ![t] = [pc |-> "init", id |-> i, from |-> None,
                                     to |-> p, vis |-> vis]]
    BY DEF CreateInsert
  <1>2. /\ tx'[t].id = i
        /\ \A s \in Requests \ {t} : tx'[s] = tx[s]
        /\ disk' = disk
    BY <1>1 DEF CreateInsert, TypeOK, fs
  <1> QED
    BY <1>1, <1>2 DEF DirInv, OneDirectory, IsHome

LEMMA CreateInitDir ==
  ASSUME TypeOK, KeyInv, DirInv, NEW t \in Requests, CreateInit(t)
  PROVE  DirInv'
  <1> DEFINE i == tx[t].id
             p == tx[t].to
  <1>1. /\ tx[t].pc = "init" /\ i \in Ids /\ p \in Paths /\ i \in used
        /\ \A s \in Requests \ {t} : tx[s].id # i
        /\ \A q \in Paths : ~IsHome(q, i)
    BY NoneAssumption DEF CreateInit, KeyInv, RequestsShaped, IdsFresh,
                          Creating, DirInv
  <1>2. /\ tx'[t].pc = "built"
        /\ \A s \in Requests \ {t} : tx'[s] = tx[s]
        /\ disk'[p].repo = i
        /\ \A q \in Paths \ {p} : disk'[q] = disk[q]
        /\ used' = used
    BY <1>1 DEF CreateInit, Goto, TypeOK, Tx, db
  <1>3. OneDirectory'
    BY <1>1, <1>2 DEF DirInv, OneDirectory, IsHome
  <1>4. \A q \in Paths : disk'[q] # None => disk'[q].repo \in used'
    BY <1>1, <1>2 DEF DirInv
  <1>5. \A s \in Requests : tx'[s].pc = "init" =>
          \A q \in Paths : ~IsHome(q, tx[s].id)'
    BY <1>1, <1>2 DEF DirInv, IsHome
  <1> QED
    BY <1>3, <1>4, <1>5 DEF DirInv

LEMMA RenameMoveDir ==
  ASSUME TypeOK, KeyInv, DirInv, NEW t \in Requests, RenameMove(t)
  PROVE  DirInv'
  <1> DEFINE from == tx[t].from
             to   == tx[t].to
  <1>1. /\ from \in Paths /\ to \in Paths /\ from # to
        /\ disk[from] # None /\ disk[to] = None
    BY DEF RenameMove, KeyInv, RequestsShaped
  <1>2. /\ tx'[t].pc = "update"
        /\ \A s \in Requests \ {t} : tx'[s] = tx[s]
        /\ disk'[to] = disk[from] /\ disk'[from] = None
        /\ \A q \in Paths \ {from, to} : disk'[q] = disk[q]
        /\ used' = used
    BY <1>1 DEF RenameMove, Goto, TypeOK, Tx, db
  <1>3. \A q \in Paths : disk'[q] # None =>
          \/ q = to /\ disk'[q] = disk[from]
          \/ q \notin {from, to} /\ disk'[q] = disk[q]
    BY <1>1, <1>2
  <1>4. OneDirectory'
    BY <1>1, <1>3 DEF DirInv, OneDirectory
  <1>5. \A q \in Paths : disk'[q] # None => disk'[q].repo \in used'
    BY <1>1, <1>2, <1>3 DEF DirInv
  <1>6. \A s \in Requests : tx'[s].pc = "init" =>
          \A q \in Paths : ~IsHome(q, tx[s].id)'
    BY <1>1, <1>2, <1>3 DEF DirInv, IsHome
  <1> QED
    BY <1>4, <1>5, <1>6 DEF DirInv

LEMMA DirInit == Init => DirInv
  BY DEF Init, DirInv, OneDirectory, Idle

\* No step puts a repository into a second directory or into one to be made.
LEMMA DirStep == TypeOK /\ KeyInv /\ DirInv /\ [Next]_vars => DirInv'
  <1> SUFFICES ASSUME TypeOK, KeyInv, DirInv, [Next]_vars
               PROVE  DirInv'
    OBVIOUS
  <1>1. CASE UNCHANGED vars
    BY <1>1, DirFrame DEF vars, db, fs
  <1>2. ASSUME NEW t \in Requests, Begin(t)
        PROVE  DirInv'
    <2>1. ASSUME NEW i \in Ids, NEW p \in Paths,
                 NEW vis \in Visibility \cup {"KEEP"},
                 RenameRead(t, i, p, vis)
          PROVE  DirInv'
      BY <2>1, DirFrame DEF RenameRead, db, fs, TypeOK
    <2>2. ASSUME NEW i \in Ids, NEW vis \in Visibility \cup {"KEEP"},
                 Touch(t, i, vis)
          PROVE  DirInv'
      BY <2>2, DirFrame DEF Touch, db, fs, TypeOK
    <2>3. ASSUME NEW i \in Ids, DeleteRow(t, i)
          PROVE  DirInv'
      BY <2>3, DirFrame DEF DeleteRow, Idle, db, TypeOK
    <2> QED
      BY <1>2, <2>1, <2>2, <2>3, CreateInsertDir DEF Begin
  <1>3. ASSUME NEW t \in Requests,
               \/ CreateExists(t) \/ CreateUndo(t) \/ RenameFails(t)
               \/ UpdateTaken(t) \/ DeadlockVictim(t) \/ SyncRefused(t)
               \/ CreateCommit(t) \/ UpdateCommit(t) \/ DeleteCommit(t)
               \/ RenameLock(t) /\ ~Live(tx[t].id)
               \/ Abort(t) /\ tx[t].pc # "built"
        PROVE  DirInv'
    <2>1. End(t) /\ used' = used
      BY <1>3 DEF CreateExists, CreateUndo, RenameFails, UpdateTaken,
                  DeadlockVictim, SyncRefused, CreateCommit, UpdateCommit,
                  DeleteCommit, RenameLock, Abort, db
    <2>2. \A p \in Paths : disk'[p] # None => disk'[p] = disk[p]
      BY <1>3 DEF CreateExists, CreateUndo, RenameFails, UpdateTaken,
                  DeadlockVictim, SyncRefused, CreateCommit, UpdateCommit,
                  DeleteCommit, RenameLock, Abort, fs, TypeOK
    <2>3. \A s \in Requests : tx'[s].pc = "init" => tx'[s] = tx[s]
      BY <2>1 DEF End, Idle, TypeOK
    <2> QED
      BY <2>1, <2>2, <2>3, DirFrame
  <1>4. ASSUME NEW t \in Requests,
               \/ CreateRefused(t) \/ SyncExport(t) \/ UpdateRow(t)
               \/ RenameLock(t) /\ Live(tx[t].id)
               \/ Abort(t) /\ tx[t].pc = "built"
        PROVE  DirInv'
    <2>1. used' = used
      BY <1>4 DEF CreateRefused, SyncExport, UpdateRow, RenameLock, Abort, db
    <2>2. \A p \in Paths : disk'[p] # None =>
            disk[p] # None /\ disk'[p].repo = disk[p].repo
      <3>1. CASE SyncExport(t)
        BY <3>1 DEF SyncExport, TypeOK, Dir
      <3>2. CASE ~SyncExport(t)
        BY <1>4, <3>2 DEF CreateRefused, UpdateRow, RenameLock, Abort, fs
      <3> QED
        BY <3>1, <3>2
    <2>3. tx'[t].pc # "init" /\ \A s \in Requests \ {t} : tx'[s] = tx[s]
      BY <1>4 DEF CreateRefused, SyncExport, UpdateRow, RenameLock, Abort,
                  Goto, TypeOK, Tx
    <2> QED
      BY <2>1, <2>2, <2>3, DirFrame
  <1>5. ASSUME NEW p \in Paths, Reap(p) \/ RemoveHalf(p)
        PROVE  DirInv'
    <2>1. \A q \in Paths : disk'[q] # None =>
            disk[q] # None /\ disk'[q].repo = disk[q].repo
      BY <1>5 DEF Reap, RemoveHalf, TypeOK, Dir
    <2> QED
      BY <1>5, <2>1, DirFrame DEF Reap, RemoveHalf, db
  <1>6. CASE Crash
    BY <1>6, DirFrame DEF Crash, db, Idle
  <1> QED
    BY <1>1, <1>2, <1>3, <1>4, <1>5, <1>6, CreateInitDir, RenameMoveDir
       DEF Next, Step

\* Directories are of repositories that were drawn, each in one place only, and
\* none is there where a creation is about to make its own.
THEOREM DirCorrect == Spec => []DirInv
  <1> QED
    BY KeyInit, KeyStep, DirInit, DirStep, PTL DEF Spec

\* No repository is ever in two directories: a rename moves, and an id is
\* drawn once, so no directory is initialised for an id twice.
THEOREM DirectoriesStayOne == Spec => []OneDirectory
  <1>1. DirInv => OneDirectory
    BY DEF DirInv
  <1> QED
    BY <1>1, DirCorrect, PTL

-----------------------------------------------------------------------------
(* Every repository has its directory as long as nothing was torn.          *)

Whole == torn \subseteq {"litter"}
HomeAll == HomeInv /\ RowsHaveDirectories

\* Holding the same repositories at the same paths.
SameHomes ==
    \A p \in Paths : /\ disk'[p] # None <=> disk[p] # None
                     /\ disk[p] # None => disk'[p].repo = disk[p].repo

\* Request s is neither further into moving or removing a directory nor has
\* it given that up.
Quiet(s) ==
    /\ \A i \in Ids : /\ Moving(s, i)' <=> Moving(s, i)
                      /\ Moving(s, i) => /\ tx'[s].to = tx[s].to
                                         /\ tx'[s].from = tx[s].from
    /\ tx'[s].pc \in {"built", "undo"} =>
          /\ tx[s].pc \in {"built", "undo"}
          /\ tx'[s].to = tx[s].to
    /\ tx'[s].pc = "deleted" <=> tx[s].pc = "deleted"
    /\ tx'[s].pc = "deleted" => tx'[s].id = tx[s].id
    /\ Creating(s)' \/ tx'[s].pc = "undo" =>
          /\ Creating(s) \/ tx[s].pc = "undo"
          /\ tx'[s].id = tx[s].id

LEMMA HomeFrame ==
  ASSUME TypeOK, HomeAll, Whole, UNCHANGED <<repo, reapers>>, SameHomes,
         \A s \in Requests : Quiet(s), KeyInv, KeyInv'
  PROVE  HomeAll'
  <1> USE DEF HomeAll, Whole, Live
  <1>1. \A p \in Paths, i \in Ids : IsHome(p, i)' <=> IsHome(p, i)
    BY DEF IsHome, SameHomes
  <1>2. \A i \in Ids : Deleting(i)' <=> Deleting(i)
    BY DEF Deleting, Quiet
  <1>3. \A p \in Paths : disk[p] # None => disk[p].repo \in Ids
    BY DEF TypeOK, Dir
  <1>4. \A t \in Requests : tx'[t].pc \in {"built", "undo"} =>
          tx'[t].id = tx[t].id /\ tx[t].id \in Ids /\ tx[t].to \in Paths
    BY DEF Quiet, Creating, KeyInv, RequestsShaped
  <1>5. \A t \in Requests : tx'[t].pc \in {"built", "undo"} =>
          IsHome(tx[t].to, tx[t].id)'
    <2> SUFFICES ASSUME NEW t \in Requests, tx'[t].pc \in {"built", "undo"}
                 PROVE  IsHome(tx[t].to, tx[t].id)'
      OBVIOUS
    <2>1. tx[t].pc \in {"built", "undo"} /\ tx'[t].to = tx[t].to
      BY DEF Quiet
    <2>2. IsHome(tx[t].to, tx[t].id)
      BY <2>1 DEF HomeInv
    <2> QED
      BY <1>4, <2>1, <2>2 DEF IsHome, SameHomes
  <1>6. \A t \in Requests : \A i \in Ids : Moving(t, i)' =>
          Moving(t, i) /\ tx'[t].to = tx[t].to /\ tx'[t].from = tx[t].from
    BY DEF Quiet
  <1>7. \A t \in Requests : Moving(t, tx[t].id)' => tx'[t].from # tx'[t].to
    <2> SUFFICES ASSUME NEW t \in Requests, Moving(t, tx[t].id)'
                 PROVE  tx'[t].from # tx'[t].to
      OBVIOUS
    <2>1. tx'[t].id \in Ids
      BY DEF Moving, KeyInv, RequestsShaped
    <2>2. Moving(t, tx'[t].id)
      BY <1>6, <2>1 DEF Moving
    <2>3. tx'[t].id = tx[t].id
      BY <2>2 DEF Moving
    <2> QED
      BY <1>6, <2>1, <2>2, <2>3 DEF HomeInv, Moving
  <1>8. \A s, t \in Requests : \A i \in Ids :
          Moving(s, i)' /\ Moving(t, i)' => s = t
    BY <1>6 DEF HomeInv
  <1>9. \A p \in Paths : reapers'[p] > 0 =>
           /\ reapers'[p] = 1
           /\ disk'[p] # None
           /\ Deleting(disk[p].repo)' \/ ~Live(disk[p].repo)'
           /\ \A t \in Requests : Creating(t)' \/ tx'[t].pc = "undo" =>
                tx'[t].id # disk'[p].repo
    <2> SUFFICES ASSUME NEW p \in Paths, reapers[p] > 0
                 PROVE  /\ reapers'[p] = 1
                        /\ disk'[p] # None
                        /\ Deleting(disk[p].repo)' \/ ~Live(disk[p].repo)'
                        /\ \A t \in Requests :
                              Creating(t)' \/ tx'[t].pc = "undo" =>
                                tx'[t].id # disk'[p].repo
      OBVIOUS
    <2>1. /\ reapers[p] = 1 /\ disk[p] # None
          /\ Deleting(disk[p].repo) \/ ~Live(disk[p].repo)
          /\ \A t \in Requests :
               Creating(t) \/ tx[t].pc = "undo" => tx[t].id # disk[p].repo
      BY DEF HomeInv
    <2>2. disk'[p] # None /\ disk'[p].repo = disk[p].repo
      BY <2>1 DEF SameHomes
    <2>3. Deleting(disk[p].repo)' \/ ~Live(disk[p].repo)'
      BY <2>1, <2>2 DEF Deleting, Quiet
    <2>4. \A t \in Requests :
            Creating(t)' \/ tx'[t].pc = "undo" => tx'[t].id # disk'[p].repo
      BY <2>1, <2>2 DEF Quiet
    <2> QED
      BY <2>1, <2>2, <2>3, <2>4
  <1>10. HomeInv'
    BY <1>5, <1>7, <1>8, <1>9 DEF HomeInv
  <1>11. RowsHaveDirectories'
    <2> SUFFICES ASSUME NEW i \in Ids, Live(i)', ~Deleting(i)'
                 PROVE  \/ \E t \in Requests :
                              Moving(t, i)' /\ IsHome(tx[t].to, i)'
                        \/ /\ \A t \in Requests : ~Moving(t, i)'
                           /\ IsHome(repo[i].path, i)'
      BY DEF RowsHaveDirectories
    <2>1. CASE \E t \in Requests : Moving(t, i) /\ IsHome(tx[t].to, i)
      <3>1. PICK t \in Requests : Moving(t, i) /\ IsHome(tx[t].to, i)
        BY <2>1
      <3>2. Moving(t, i)' /\ tx'[t].to = tx[t].to
        BY <3>1 DEF Quiet
      <3>3. tx[t].to \in Paths
        BY <3>1 DEF Moving, KeyInv, RequestsShaped, Updating
      <3>4. IsHome(tx[t].to, i)'
        BY <3>1, <3>2, <3>3 DEF IsHome, SameHomes
      <3> QED
        BY <3>2, <3>4
    <2>2. CASE /\ \A t \in Requests : ~Moving(t, i)
               /\ IsHome(repo[i].path, i)
      <3>1. \A t \in Requests : ~Moving(t, i)'
        BY <2>2 DEF Quiet
      <3>2. repo[i].path \in Paths
        BY DEF TypeOK, Row
      <3>3. IsHome(repo[i].path, i)'
        BY <2>2, <3>2 DEF IsHome, SameHomes
      <3> QED
        BY <3>1, <3>3
    <2> QED
      BY <1>2, <2>1, <2>2 DEF RowsHaveDirectories
  <1> QED
    BY <1>10, <1>11

\* Where a request stands when it gives up without tearing anything.
LEMMA EndHome ==
  ASSUME TypeOK, KeyInv, KeyInv', HomeAll, Whole, NEW t \in Requests,
         UNCHANGED <<repo, reapers>>, SameHomes, End(t), Harm(t) = {}
  PROVE  HomeAll'
  <1>1. /\ tx'[t] = Idle
        /\ \A s \in Requests \ {t} : tx'[s] = tx[s]
        /\ Idle.pc = "idle" /\ Idle.from = None
    BY DEF End, Idle, TypeOK
  <1>2. tx[t].pc # "deleted" /\ \A i \in Ids : ~Moving(t, i)
    BY DEF Harm, Moving
  <1>3. \A s \in Requests : Quiet(s)
    BY <1>1, <1>2 DEF Quiet, Moving, Creating, Renames
  <1> QED
    BY <1>3, HomeFrame

\* A repository found at the path of its row is not being moved.
LEMMA AtHome ==
  ASSUME TypeOK, KeyInv, DirInv, NameAll, HomeAll, Whole,
         NEW i \in Ids, Live(i), ~Deleting(i), IsHome(repo[i].path, i)
  PROVE  \A t \in Requests : ~Moving(t, i)
  <1> USE DEF HomeAll, Whole, Live
  <1> SUFFICES ASSUME NEW t \in Requests, Moving(t, i)
               PROVE  FALSE
    OBVIOUS
  <1>1. PICK s \in Requests : Moving(s, i) /\ IsHome(tx[s].to, i)
    BY DEF RowsHaveDirectories
  <1>2. tx[s].to \in Paths /\ repo[i].path \in Paths
    BY <1>1 DEF Moving, KeyInv, RequestsShaped, Updating, TypeOK, Row
  <1>3. tx[s].to = repo[i].path
    BY <1>1, <1>2 DEF IsHome, DirInv, OneDirectory
  <1>4. Moving(s, tx[s].id) /\ tx[s].id = i
    BY <1>1 DEF Moving
  <1>5. tx[s].from = repo[i].path /\ tx[s].from # tx[s].to
    BY <1>4 DEF NameAll, NameInv, HomeInv
  <1> QED
    BY <1>3, <1>5

LEMMA CreateInsertHome ==
  ASSUME TypeOK, KeyInv, DirInv, HomeAll, Whole, NEW t \in Requests,
         NEW p \in Paths, NEW vis \in Visibility, CreateInsert(t, p, vis)
  PROVE  HomeAll'
  <1> USE DEF HomeAll, Whole, Live
  <1>1. PICK i \in Ids \ used :
          tx' = [tx EXCEPT ![t] = [pc |-> "init", id |-> i, from |-> None,
                                   to |-> p, vis |-> vis]]
    BY DEF CreateInsert
  <1>2. /\ tx[t].pc = "idle" /\ tx'[t].id = i /\ tx'[t].pc = "init"
        /\ tx'[t].from = None
        /\ \A s \in Requests \ {t} : tx'[s] = tx[s]
        /\ UNCHANGED <<repo, disk, reapers, torn>>
    BY <1>1 DEF CreateInsert, TypeOK, fs
  <1>3. \A j \in Ids : Deleting(j)' = Deleting(j)
    BY <1>2 DEF Deleting
  <1>4. \A s \in Requests, j \in Ids :
          /\ Moving(s, j)' = Moving(s, j)
          /\ Moving(s, j) => tx'[s] = tx[s]
    BY <1>2 DEF Moving, Renames
  <1>5. \A q \in Paths : disk[q] # None =>
          disk[q].repo \in Ids /\ disk[q].repo # i
    BY <1>1 DEF DirInv, TypeOK
  <1>6. \A q \in Paths : reapers'[q] > 0 =>
           /\ reapers'[q] = 1
           /\ disk'[q] # None
           /\ Deleting(disk[q].repo)' \/ ~Live(disk[q].repo)'
           /\ \A s \in Requests : Creating(s)' \/ tx'[s].pc = "undo" =>
                tx'[s].id # disk'[q].repo
    <2> SUFFICES ASSUME NEW q \in Paths, reapers[q] > 0
                 PROVE  /\ reapers[q] = 1
                        /\ disk[q] # None
                        /\ Deleting(disk[q].repo)' \/ ~Live(disk[q].repo)
                        /\ \A s \in Requests :
                             Creating(s)' \/ tx'[s].pc = "undo" =>
                               tx'[s].id # disk[q].repo
      BY <1>2
    <2>1. /\ reapers[q] = 1 /\ disk[q] # None
          /\ Deleting(disk[q].repo) \/ ~Live(disk[q].repo)
          /\ \A s \in Requests : Creating(s) \/ tx[s].pc = "undo" =>
               tx[s].id # disk[q].repo
      BY DEF HomeInv
    <2>2. \A s \in Requests : Creating(s)' \/ tx'[s].pc = "undo" =>
            tx'[s].id # disk[q].repo
      BY <1>2, <1>5, <2>1 DEF Creating
    <2>3. Deleting(disk[q].repo)' \/ ~Live(disk[q].repo)
      <3>1. disk' = disk
        BY <1>2
      <3> QED
        BY <1>3, <1>5, <2>1, <3>1 DEF Deleting
    <2> QED
      BY <2>1, <2>2, <2>3
  <1>7. \A s \in Requests : tx'[s].pc \in {"built", "undo"} =>
          IsHome(tx[s].to, tx[s].id)'
    BY <1>2 DEF HomeInv, IsHome
  <1>8. /\ \A s \in Requests : Moving(s, tx[s].id)' => tx'[s].from # tx'[s].to
        /\ \A r, s \in Requests : \A j \in Ids :
             Moving(r, j)' /\ Moving(s, j)' => r = s
    BY <1>2, <1>4 DEF HomeInv, Moving, Renames
  <1>9. HomeInv'
    BY <1>6, <1>7, <1>8 DEF HomeInv
  <1>10. RowsHaveDirectories'
    BY <1>2, <1>3, <1>4 DEF RowsHaveDirectories, IsHome
  <1> QED
    BY <1>9, <1>10

LEMMA CreateInitHome ==
  ASSUME TypeOK, KeyInv, HomeAll, Whole, Whole', NEW t \in Requests,
         CreateInit(t)
  PROVE  HomeAll'
  <1> USE DEF HomeAll, Whole, Live
  <1> DEFINE i == tx[t].id
             p == tx[t].to
  <1>1. /\ tx[t].pc = "init" /\ i \in Ids /\ p \in Paths /\ repo[i] = None
        /\ \A s \in Requests \ {t} : tx[s].id # i
    BY DEF CreateInit, KeyInv, RequestsShaped, IdsFresh, Creating
  <1>2. disk[p] = None /\ ~(reapers[p] > 0)
    BY DEF CreateInit
  <1>3. /\ tx'[t].pc = "built" /\ tx'[t].id = i /\ tx'[t].to = p
        /\ tx'[t].from = tx[t].from
        /\ \A s \in Requests \ {t} : tx'[s] = tx[s]
        /\ disk'[p].repo = i /\ disk'[p] # None
        /\ \A q \in Paths \ {p} : disk'[q] = disk[q]
        /\ UNCHANGED <<repo, reapers>>
    <2> DEFINE made == [repo |-> i, export |-> Exported(tx[t].vis),
                        head |-> TRUE]
    <2>1. made \in Dir /\ made.repo = i
      BY <1>1 DEF Exported, Dir
    <2>2. /\ tx'[t].pc = "built" /\ tx'[t].id = i /\ tx'[t].to = p
          /\ tx'[t].from = tx[t].from
          /\ \A s \in Requests \ {t} : tx'[s] = tx[s]
      BY DEF CreateInit, Goto, TypeOK, Tx
    <2>3. disk' = [disk EXCEPT ![p] = made]
      BY DEF CreateInit
    <2>4. UNCHANGED <<repo, reapers>>
      BY DEF CreateInit, db
    <2> HIDE DEF made
    <2> QED
      BY <1>1, <2>1, <2>2, <2>3, <2>4, NoneAssumption DEF TypeOK
  <1>4. \A j \in Ids : Deleting(j)' = Deleting(j)
    BY <1>1, <1>3 DEF Deleting
  <1>5. \A s \in Requests, j \in Ids :
          /\ Moving(s, j)' = Moving(s, j)
          /\ Moving(s, j) => tx'[s] = tx[s]
    BY <1>1, <1>3 DEF Moving, Renames
  <1>6. \A q \in Paths, j \in Ids : IsHome(q, j) => IsHome(q, j)'
    BY <1>2, <1>3 DEF IsHome
  <1>7. \A q \in Paths : reapers'[q] > 0 =>
           /\ reapers'[q] = 1
           /\ disk'[q] # None
           /\ Deleting(disk[q].repo)' \/ ~Live(disk[q].repo)'
           /\ \A s \in Requests : Creating(s)' \/ tx'[s].pc = "undo" =>
                tx'[s].id # disk'[q].repo
    <2> SUFFICES ASSUME NEW q \in Paths, reapers[q] > 0
                 PROVE  /\ reapers[q] = 1
                        /\ disk'[q] # None
                        /\ Deleting(disk[q].repo)' \/ ~Live(disk[q].repo)'
                        /\ \A s \in Requests :
                             Creating(s)' \/ tx'[s].pc = "undo" =>
                               tx'[s].id # disk'[q].repo
      BY <1>3
    <2>1. /\ reapers[q] = 1 /\ disk[q] # None
          /\ Deleting(disk[q].repo) \/ ~Live(disk[q].repo)
          /\ \A s \in Requests : Creating(s) \/ tx[s].pc = "undo" =>
               tx[s].id # disk[q].repo
      BY DEF HomeInv
    <2>2. disk'[q] = disk[q]
      BY <1>2, <1>3, <2>1
    <2>3. Deleting(disk[q].repo)' \/ ~Live(disk[q].repo)'
      BY <1>3, <1>4, <2>1, <2>2 DEF TypeOK, Dir
    <2>4. \A s \in Requests : Creating(s)' \/ tx'[s].pc = "undo" =>
            tx'[s].id # disk'[q].repo
      BY <1>1, <1>3, <2>1, <2>2 DEF Creating
    <2> QED
      BY <2>1, <2>2, <2>3, <2>4
  <1>8. \A s \in Requests : tx'[s].pc \in {"built", "undo"} =>
          IsHome(tx[s].to, tx[s].id)'
    <2> SUFFICES ASSUME NEW s \in Requests, tx'[s].pc \in {"built", "undo"},
                        s # t
                 PROVE  IsHome(tx[s].to, tx[s].id)'
      BY <1>3 DEF IsHome
    <2>1. tx'[s] = tx[s] /\ IsHome(tx[s].to, tx[s].id)
      BY <1>3 DEF HomeInv
    <2>2. tx[s].to \in Paths /\ tx[s].id \in Ids
      BY <2>1 DEF KeyInv, RequestsShaped
    <2>3. tx[s].to # p
      BY <1>2, <2>1 DEF IsHome
    <2> QED
      BY <1>3, <2>1, <2>2, <2>3 DEF IsHome
  <1>9. /\ \A s \in Requests : Moving(s, tx[s].id)' => tx'[s].from # tx'[s].to
        /\ \A r, s \in Requests : \A j \in Ids :
             Moving(r, j)' /\ Moving(s, j)' => r = s
    BY <1>1, <1>3, <1>5 DEF HomeInv, Moving, Renames
  <1>10. HomeInv'
    BY <1>7, <1>8, <1>9 DEF HomeInv
  <1>11. RowsHaveDirectories'
    <2> SUFFICES ASSUME NEW j \in Ids, Live(j), ~Deleting(j)
                 PROVE  \/ \E s \in Requests :
                              Moving(s, j)' /\ IsHome(tx[s].to, j)'
                        \/ /\ \A s \in Requests : ~Moving(s, j)'
                           /\ IsHome(repo[j].path, j)'
      BY <1>3, <1>4 DEF RowsHaveDirectories
    <2>1. \A s \in Requests : Moving(s, j) => tx[s].to \in Paths
      BY DEF Moving, KeyInv, RequestsShaped, Updating
    <2>2. repo[j].path \in Paths
      BY DEF TypeOK, Row
    <2>3. \A s \in Requests : Moving(s, j) /\ IsHome(tx[s].to, j) =>
            Moving(s, j)' /\ IsHome(tx[s].to, j)'
      BY <1>3, <1>5, <1>6, <2>1 DEF IsHome
    <2> QED
      BY <1>3, <1>5, <1>6, <2>2, <2>3 DEF RowsHaveDirectories, IsHome
  <1> QED
    BY <1>10, <1>11

\* Where the directory of repository i is to be found.
Found(i) ==
    \/ \E t \in Requests : Moving(t, i) /\ IsHome(tx[t].to, i)
    \/ (\A t \in Requests : ~Moving(t, i)) /\ IsHome(repo[i].path, i)

\* A repository none of whose rows, renames and directories is touched.
LEMMA FoundStays ==
  ASSUME TypeOK, KeyInv, HomeAll, Whole, NEW i \in Ids, Live(i), ~Deleting(i),
         repo'[i] = repo[i],
         \A s \in Requests : /\ Moving(s, i)' <=> Moving(s, i)
                             /\ Moving(s, i) => tx'[s].to = tx[s].to,
         \A q \in Paths : disk[q] # None /\ disk[q].repo = i =>
                            disk'[q] # None /\ disk'[q].repo = i
  PROVE  Found(i)'
  <1>1. Found(i)
    BY DEF HomeAll, RowsHaveDirectories, Whole, Found
  <1>2. CASE \E t \in Requests : Moving(t, i) /\ IsHome(tx[t].to, i)
    <2>1. PICK t \in Requests : Moving(t, i) /\ IsHome(tx[t].to, i)
      BY <1>2
    <2>2. tx[t].to \in Paths
      BY <2>1 DEF Moving, KeyInv, RequestsShaped, Updating
    <2>3. Moving(t, i)' /\ IsHome(tx[t].to, i)'
      BY <2>1, <2>2 DEF IsHome
    <2> QED
      BY <2>3 DEF Found
  <1>3. CASE (\A t \in Requests : ~Moving(t, i)) /\ IsHome(repo[i].path, i)
    <2>1. repo[i].path \in Paths
      BY DEF TypeOK, Row, Live
    <2>2. (\A t \in Requests : ~Moving(t, i)') /\ IsHome(repo[i].path, i)'
      BY <1>3, <2>1 DEF IsHome
    <2> QED
      BY <2>2 DEF Found
  <1> QED
    BY <1>1, <1>2, <1>3 DEF Found

\* HomeInv of the next state, part by part.
LEMMA HomeParts ==
  ASSUME \A t \in Requests : tx'[t].pc \in {"built", "undo"} =>
           IsHome(tx[t].to, tx[t].id)',
         \A t \in Requests : Moving(t, tx[t].id)' => tx'[t].from # tx'[t].to,
         \A s, t \in Requests : \A i \in Ids :
           Moving(s, i)' /\ Moving(t, i)' => s = t,
         \A p \in Paths : reapers'[p] > 0 =>
            /\ reapers'[p] = 1
            /\ disk'[p] # None
            /\ Deleting(disk[p].repo)' \/ ~Live(disk[p].repo)'
            /\ \A t \in Requests : Creating(t)' \/ tx'[t].pc = "undo" =>
                 tx'[t].id # disk'[p].repo,
         \A i \in Ids : Live(i)' /\ ~Deleting(i)' => Found(i)'
  PROVE  HomeAll'
  BY DEF HomeAll, HomeInv, RowsHaveDirectories, Found

\* What HomeInv says of a goroutine that is to remove a directory.
Reaping(p) ==
    /\ reapers[p] = 1
    /\ disk[p] # None
    /\ disk[p].repo \in Ids
    /\ Deleting(disk[p].repo) \/ ~Live(disk[p].repo)
    /\ \A t \in Requests :
         Creating(t) \/ tx[t].pc = "undo" => tx[t].id # disk[p].repo

LEMMA ReapersKnown ==
  ASSUME TypeOK, HomeAll, Whole, NEW p \in Paths, reapers[p] > 0
  PROVE  Reaping(p)
  BY DEF TypeOK, Dir, HomeAll, HomeInv, Whole, Reaping

LEMMA CreateUndoHome ==
  ASSUME TypeOK, KeyInv, DirInv, HomeAll, Whole, NEW t \in Requests,
         CreateUndo(t)
  PROVE  HomeAll'
  <1> DEFINE i == tx[t].id
             p == tx[t].to
  <1>1. /\ tx[t].pc = "undo" /\ i \in Ids /\ p \in Paths /\ ~Live(i)
        /\ IsHome(p, i)
        /\ \A s \in Requests \ {t} : tx[s].id # i
    BY DEF CreateUndo, KeyInv, RequestsShaped, IdsFresh, HomeAll, HomeInv, Whole
  <1>2. /\ tx'[t] = Idle
        /\ \A s \in Requests \ {t} : tx'[s] = tx[s]
        /\ \A q \in Paths \ {p} : disk'[q] = disk[q]
        /\ UNCHANGED <<repo, reapers>>
        /\ Idle.pc = "idle" /\ Idle.from = None
    BY <1>1 DEF CreateUndo, End, Idle, TypeOK, db
  <1>3. \A s \in Requests : \A j \in Ids :
          /\ Moving(s, j)' <=> Moving(s, j)
          /\ Moving(s, j) => tx'[s] = tx[s]
    BY <1>1, <1>2 DEF Moving, Renames
  <1>4. \A j \in Ids : Deleting(j)' <=> Deleting(j)
    BY <1>1, <1>2 DEF Deleting
  <1>5. \A s \in Requests : tx'[s].pc \in {"built", "undo"} =>
          IsHome(tx[s].to, tx[s].id)'
    <2> SUFFICES ASSUME NEW s \in Requests, tx'[s].pc \in {"built", "undo"}
                 PROVE  IsHome(tx[s].to, tx[s].id)'
      OBVIOUS
    <2>1. s # t /\ tx'[s] = tx[s]
      BY <1>2
    <2>2. IsHome(tx[s].to, tx[s].id) /\ tx[s].to \in Paths
      BY <2>1 DEF HomeAll, HomeInv, Whole, KeyInv, RequestsShaped
    <2>3. tx[s].to # p
      BY <1>1, <2>1, <2>2 DEF IsHome
    <2> QED
      BY <1>2, <2>1, <2>2, <2>3 DEF IsHome
  <1>6. \A s \in Requests : Moving(s, tx[s].id)' => tx'[s].from # tx'[s].to
    BY <1>2 DEF HomeAll, HomeInv, Whole, Moving, Renames
  <1>7. \A r, s \in Requests : \A j \in Ids :
          Moving(r, j)' /\ Moving(s, j)' => r = s
    BY <1>3 DEF HomeAll, HomeInv, Whole
  <1>8. \A q \in Paths : reapers'[q] > 0 =>
           /\ reapers'[q] = 1
           /\ disk'[q] # None
           /\ Deleting(disk[q].repo)' \/ ~Live(disk[q].repo)'
           /\ \A s \in Requests : Creating(s)' \/ tx'[s].pc = "undo" =>
                tx'[s].id # disk'[q].repo
    <2> SUFFICES ASSUME NEW q \in Paths, reapers'[q] > 0
                 PROVE  /\ reapers'[q] = 1
                        /\ disk'[q] # None
                        /\ Deleting(disk[q].repo)' \/ ~Live(disk[q].repo)'
                        /\ \A s \in Requests :
                             Creating(s)' \/ tx'[s].pc = "undo" =>
                               tx'[s].id # disk'[q].repo
      OBVIOUS
    <2>1. Reaping(q)
      BY <1>2, ReapersKnown
    <2>2. disk'[q] = disk[q]
      BY <1>1, <1>2, <2>1 DEF IsHome, Reaping
    <2>3. Deleting(disk[q].repo)' \/ ~Live(disk[q].repo)'
      BY <1>2, <1>4, <2>1, <2>2 DEF Reaping, Live, Deleting
    <2>4. \A s \in Requests : Creating(s)' \/ tx'[s].pc = "undo" =>
            tx'[s].id # disk'[q].repo
      BY <1>2, <2>1, <2>2 DEF Reaping, Creating
    <2> QED
      BY <1>2, <2>1, <2>2, <2>3, <2>4 DEF Reaping
  <1>9. \A j \in Ids : Live(j)' /\ ~Deleting(j)' => Found(j)'
    <2> SUFFICES ASSUME NEW j \in Ids, Live(j)', ~Deleting(j)'
                 PROVE  Found(j)'
      OBVIOUS
    <2>1. Live(j) /\ ~Deleting(j) /\ repo'[j] = repo[j] /\ j # i
      BY <1>1, <1>2, <1>4 DEF Live
    <2>2. \A q \in Paths : disk[q] # None /\ disk[q].repo = j =>
            disk'[q] # None /\ disk'[q].repo = j
      BY <1>1, <1>2, <2>1 DEF IsHome
    <2> QED
      BY <1>3, <2>1, <2>2, FoundStays
  <1> QED
    BY <1>5, <1>6, <1>7, <1>8, <1>9, HomeParts

LEMMA CreateCommitHome ==
  ASSUME TypeOK, KeyInv, HomeAll, Whole, NEW t \in Requests, CreateCommit(t)
  PROVE  HomeAll'
  <1> DEFINE i == tx[t].id
             p == tx[t].to
  <1>1. /\ tx[t].pc = "built" /\ i \in Ids /\ p \in Paths /\ ~Live(i)
        /\ IsHome(p, i) /\ Creating(t) /\ ~Renames(t)
        /\ \A s \in Requests \ {t} : tx[s].id # i
    BY DEF CreateCommit, KeyInv, RequestsShaped, IdsFresh, Creating, HomeAll,
           HomeInv, Whole
  <1>2. /\ tx'[t] = Idle
        /\ \A s \in Requests \ {t} : tx'[s] = tx[s]
        /\ \A j \in Ids \ {i} : repo'[j] = repo[j]
        /\ repo'[i].path = p
        /\ UNCHANGED <<disk, reapers>>
        /\ Idle.pc = "idle" /\ Idle.from = None
    BY <1>1 DEF CreateCommit, End, Idle, TypeOK, fs
  <1>3. \A s \in Requests : \A j \in Ids :
          /\ Moving(s, j)' <=> Moving(s, j)
          /\ Moving(s, j) => tx'[s] = tx[s]
    BY <1>1, <1>2 DEF Moving, Renames
  <1>4. \A j \in Ids : Deleting(j)' <=> Deleting(j)
    BY <1>1, <1>2 DEF Deleting
  <1>5. \A s \in Requests : tx'[s].pc \in {"built", "undo"} =>
          IsHome(tx[s].to, tx[s].id)'
    BY <1>2 DEF HomeAll, HomeInv, Whole, IsHome
  <1>6. \A s \in Requests : Moving(s, tx[s].id)' => tx'[s].from # tx'[s].to
    BY <1>2 DEF HomeAll, HomeInv, Whole, Moving, Renames
  <1>7. \A r, s \in Requests : \A j \in Ids :
          Moving(r, j)' /\ Moving(s, j)' => r = s
    BY <1>3 DEF HomeAll, HomeInv, Whole
  <1>8. \A q \in Paths : reapers'[q] > 0 =>
           /\ reapers'[q] = 1
           /\ disk'[q] # None
           /\ Deleting(disk[q].repo)' \/ ~Live(disk[q].repo)'
           /\ \A s \in Requests : Creating(s)' \/ tx'[s].pc = "undo" =>
                tx'[s].id # disk'[q].repo
    <2> SUFFICES ASSUME NEW q \in Paths, reapers'[q] > 0
                 PROVE  /\ reapers'[q] = 1
                        /\ disk'[q] # None
                        /\ Deleting(disk[q].repo)' \/ ~Live(disk[q].repo)'
                        /\ \A s \in Requests :
                             Creating(s)' \/ tx'[s].pc = "undo" =>
                               tx'[s].id # disk'[q].repo
      OBVIOUS
    <2>1. Reaping(q)
      BY <1>2, ReapersKnown
    <2>2. disk'[q] = disk[q] /\ disk[q].repo \in Ids \ {i}
      BY <1>1, <1>2, <2>1 DEF Reaping
    <2>3. Deleting(disk[q].repo)' \/ ~Live(disk[q].repo)'
      BY <1>2, <1>4, <2>1, <2>2 DEF Reaping, Live, Deleting
    <2>4. \A s \in Requests : Creating(s)' \/ tx'[s].pc = "undo" =>
            tx'[s].id # disk'[q].repo
      BY <1>2, <2>1, <2>2 DEF Reaping, Creating
    <2> QED
      BY <1>2, <2>1, <2>2, <2>3, <2>4 DEF Reaping
  <1>9. \A j \in Ids : Live(j)' /\ ~Deleting(j)' => Found(j)'
    <2> SUFFICES ASSUME NEW j \in Ids, Live(j)', ~Deleting(j)'
                 PROVE  Found(j)'
      OBVIOUS
    <2>1. CASE j = i
      <3>1. \A s \in Requests : ~Moving(s, j)'
        BY <1>1, <1>3, <2>1 DEF Moving
      <3>2. IsHome(repo[j].path, j)'
        BY <1>1, <1>2, <2>1 DEF IsHome
      <3> QED
        BY <3>1, <3>2 DEF Found
    <2>2. CASE j # i
      <3>1. Live(j) /\ ~Deleting(j) /\ repo'[j] = repo[j]
        BY <1>2, <1>4, <2>2 DEF Live
      <3>2. \A q \in Paths : disk[q] # None /\ disk[q].repo = j =>
              disk'[q] # None /\ disk'[q].repo = j
        BY <1>2
      <3> QED
        BY <1>3, <3>1, <3>2, FoundStays
    <2> QED
      BY <2>1, <2>2
  <1> QED
    BY <1>5, <1>6, <1>7, <1>8, <1>9, HomeParts

LEMMA RenameMoveHome ==
  ASSUME TypeOK, KeyInv, DirInv, NameAll, HomeAll, Whole, Whole',
         NEW t \in Requests, RenameMove(t)
  PROVE  HomeAll'
  <1>0. PICK i \in Ids : i = tx[t].id
    BY DEF RenameMove, KeyInv, RequestsShaped
  <1> DEFINE from == tx[t].from
             to == tx[t].to
  <1>1. /\ tx[t].pc = "move" /\ tx[t].id = i /\ Live(i) /\ Renames(t)
        /\ from \in Paths /\ to \in Paths /\ from # to
        /\ disk[from] # None /\ disk[to] = None
        /\ from = repo[i].path /\ disk[from].repo = i
    BY <1>0, NoneAssumption DEF RenameMove, KeyInv, RequestsShaped, LocksHold,
                                Renames, Whole
  <1>2. /\ tx'[t].pc = "update" /\ tx'[t].id = i /\ tx'[t].from = from
        /\ tx'[t].to = to
        /\ \A s \in Requests \ {t} : tx'[s] = tx[s]
        /\ disk'[to] = disk[from] /\ disk'[from] = None
        /\ \A q \in Paths \ {from, to} : disk'[q] = disk[q]
        /\ UNCHANGED <<repo, reapers>>
    BY <1>1 DEF RenameMove, Goto, TypeOK, Tx, db
  <1>3. ~Deleting(i)
    BY <1>1 DEF Deleting, KeyInv, LocksHold, ForUpdates, KeyShares
  <1>4. \A s \in Requests : ~Moving(s, i)
    BY <1>1, <1>3, AtHome DEF IsHome
  <1>5. \A j \in Ids : Deleting(j)' <=> Deleting(j)
    BY <1>1, <1>2 DEF Deleting
  <1>6. /\ Moving(t, i)'
        /\ \A s \in Requests \ {t} : ~Moving(s, i)'
        /\ \A s \in Requests : \A j \in Ids \ {i} :
             /\ Moving(s, j)' <=> Moving(s, j)
             /\ Moving(s, j) => tx'[s] = tx[s]
    BY <1>1, <1>2, <1>4 DEF Moving, Renames
  <1>7. \A q \in Paths, j \in Ids \ {i} :
          disk[q] # None /\ disk[q].repo = j =>
            disk'[q] # None /\ disk'[q].repo = j
    BY <1>1, <1>2
  <1>8. \A s \in Requests : tx'[s].pc \in {"built", "undo"} =>
          IsHome(tx[s].to, tx[s].id)'
    <2> SUFFICES ASSUME NEW s \in Requests, tx'[s].pc \in {"built", "undo"}
                 PROVE  IsHome(tx[s].to, tx[s].id)'
      OBVIOUS
    <2>1. s # t /\ tx'[s] = tx[s]
      BY <1>2
    <2>2. /\ IsHome(tx[s].to, tx[s].id) /\ tx[s].to \in Paths
          /\ tx[s].id \in Ids \ {i}
      BY <1>1, <2>1 DEF HomeAll, HomeInv, Whole, KeyInv, RequestsShaped,
                        IdsFresh, Creating
    <2> QED
      BY <1>7, <2>1, <2>2 DEF IsHome
  <1>9. \A s \in Requests : Moving(s, tx[s].id)' => tx'[s].from # tx'[s].to
    <2> SUFFICES ASSUME NEW s \in Requests \ {t}, Moving(s, tx[s].id)'
                 PROVE  tx'[s].from # tx'[s].to
      BY <1>1, <1>2
    <2>1. tx'[s] = tx[s] /\ Moving(s, tx[s].id)
      BY <1>2 DEF Moving, Renames
    <2> QED
      BY <2>1 DEF HomeAll, HomeInv, Whole
  <1>10. \A r, s \in Requests : \A j \in Ids :
           Moving(r, j)' /\ Moving(s, j)' => r = s
    BY <1>6 DEF HomeAll, HomeInv, Whole
  <1>11. \A q \in Paths : reapers'[q] > 0 =>
           /\ reapers'[q] = 1
           /\ disk'[q] # None
           /\ Deleting(disk[q].repo)' \/ ~Live(disk[q].repo)'
           /\ \A s \in Requests : Creating(s)' \/ tx'[s].pc = "undo" =>
                tx'[s].id # disk'[q].repo
    <2> SUFFICES ASSUME NEW q \in Paths, reapers'[q] > 0
                 PROVE  /\ reapers'[q] = 1
                        /\ disk'[q] # None
                        /\ Deleting(disk[q].repo)' \/ ~Live(disk[q].repo)'
                        /\ \A s \in Requests :
                             Creating(s)' \/ tx'[s].pc = "undo" =>
                               tx'[s].id # disk'[q].repo
      OBVIOUS
    <2>1. Reaping(q)
      BY <1>2, ReapersKnown
    <2>2. disk[q].repo \in Ids \ {i}
      BY <1>1, <1>3, <2>1 DEF Reaping
    <2>3. disk'[q] = disk[q]
      BY <1>1, <1>2, <2>1, <2>2 DEF Reaping
    <2>4. Deleting(disk[q].repo)' \/ ~Live(disk[q].repo)'
      BY <1>2, <1>5, <2>1, <2>2, <2>3 DEF Reaping, Live, Deleting
    <2>5. \A s \in Requests : Creating(s)' \/ tx'[s].pc = "undo" =>
            tx'[s].id # disk'[q].repo
      BY <1>2, <2>1, <2>3 DEF Reaping, Creating
    <2> QED
      BY <1>2, <2>1, <2>3, <2>4, <2>5 DEF Reaping
  <1>12. \A j \in Ids : Live(j)' /\ ~Deleting(j)' => Found(j)'
    <2> SUFFICES ASSUME NEW j \in Ids, Live(j)', ~Deleting(j)'
                 PROVE  Found(j)'
      OBVIOUS
    <2>1. CASE j = i
      <3>1. IsHome(tx[t].to, i)'
        BY <1>1, <1>2 DEF IsHome
      <3> QED
        BY <1>6, <2>1, <3>1 DEF Found
    <2>2. CASE j # i
      <3>1. Live(j) /\ ~Deleting(j) /\ repo'[j] = repo[j]
        BY <1>2, <1>5, <2>2 DEF Live
      <3> QED
        BY <1>6, <1>7, <2>2, <3>1, FoundStays
    <2> QED
      BY <2>1, <2>2
  <1> QED
    BY <1>8, <1>9, <1>10, <1>11, <1>12, HomeParts

LEMMA UpdateCommitHome ==
  ASSUME TypeOK, KeyInv, HomeAll, Whole, NEW t \in Requests, UpdateCommit(t)
  PROVE  HomeAll'
  <1>0. PICK i \in Ids : i = tx[t].id
    BY DEF UpdateCommit, KeyInv, RequestsShaped
  <1> DEFINE p == tx[t].to
  <1>1. /\ tx[t].pc = "synced" /\ Updating(t) /\ tx[t].id = i /\ Live(i)
        /\ p \in Paths
        /\ ~Renames(t) => p = repo[i].path
    BY <1>0 DEF UpdateCommit, KeyInv, RequestsShaped, LocksHold, KeysPending,
                Updating
  <1>2. /\ tx'[t] = Idle
        /\ \A s \in Requests \ {t} : tx'[s] = tx[s]
        /\ \A j \in Ids \ {i} : repo'[j] = repo[j]
        /\ repo'[i].path = p /\ Live(i)'
        /\ UNCHANGED <<disk, reapers>>
        /\ Idle.pc = "idle" /\ Idle.from = None
    <2>1. [path |-> p, vis |-> tx[t].vis] \in Row
      BY <1>1 DEF KeyInv, RequestsShaped, TypeOK, Tx, Row
    <2> QED
      BY <1>1, <2>1, NoneAssumption
         DEF UpdateCommit, End, Idle, TypeOK, fs, Live
  <1>3. ~Deleting(i)
    BY <1>1 DEF Deleting, KeyInv, LocksHold, ForUpdates, NoKeyUpdates
  <1>4. \A j \in Ids : Deleting(j)' <=> Deleting(j)
    BY <1>1, <1>2 DEF Deleting
  <1>5. \A s \in Requests : \A j \in Ids :
          Moving(s, j)' <=> s # t /\ Moving(s, j)
    BY <1>2 DEF Moving, Renames
  <1>6. \A s \in Requests : tx'[s].pc \in {"built", "undo"} =>
          IsHome(tx[s].to, tx[s].id)'
    BY <1>2 DEF HomeAll, HomeInv, Whole, UpdateCommit, IsHome
  <1>7. \A s \in Requests : Moving(s, tx[s].id)' => tx'[s].from # tx'[s].to
    BY <1>2 DEF HomeAll, HomeInv, Whole, UpdateCommit, Moving, Renames
  <1>8. \A r, s \in Requests : \A j \in Ids :
          Moving(r, j)' /\ Moving(s, j)' => r = s
    BY <1>5 DEF HomeAll, HomeInv, Whole
  <1>9. \A q \in Paths : reapers'[q] > 0 =>
           /\ reapers'[q] = 1
           /\ disk'[q] # None
           /\ Deleting(disk[q].repo)' \/ ~Live(disk[q].repo)'
           /\ \A s \in Requests : Creating(s)' \/ tx'[s].pc = "undo" =>
                tx'[s].id # disk'[q].repo
    <2> SUFFICES ASSUME NEW q \in Paths, reapers'[q] > 0
                 PROVE  /\ reapers'[q] = 1
                        /\ disk'[q] # None
                        /\ Deleting(disk[q].repo)' \/ ~Live(disk[q].repo)'
                        /\ \A s \in Requests :
                             Creating(s)' \/ tx'[s].pc = "undo" =>
                               tx'[s].id # disk'[q].repo
      OBVIOUS
    <2>1. Reaping(q)
      BY <1>2, ReapersKnown
    <2>2. disk'[q] = disk[q] /\ disk[q].repo \in Ids \ {i}
      BY <1>1, <1>2, <1>3, <2>1 DEF Reaping
    <2>3. Deleting(disk[q].repo)' \/ ~Live(disk[q].repo)'
      BY <1>2, <1>4, <2>1, <2>2 DEF Reaping, Live, Deleting
    <2>4. \A s \in Requests : Creating(s)' \/ tx'[s].pc = "undo" =>
            tx'[s].id # disk'[q].repo
      BY <1>2, <2>1, <2>2 DEF Reaping, Creating
    <2> QED
      BY <1>2, <2>1, <2>2, <2>3, <2>4 DEF Reaping
  <1>10. \A j \in Ids : Live(j)' /\ ~Deleting(j)' => Found(j)'
    <2> SUFFICES ASSUME NEW j \in Ids, Live(j)', ~Deleting(j)'
                 PROVE  Found(j)'
      OBVIOUS
    <2>1. CASE j = i /\ Renames(t)
      <3>1. Moving(t, i)
        BY <1>1, <2>1 DEF Moving
      <3>2. IsHome(p, i)
        BY <1>1, <1>3, <3>1 DEF HomeAll, HomeInv, RowsHaveDirectories, Whole
      <3>3. \A s \in Requests : ~Moving(s, i)'
        BY <1>1, <1>5, <3>1 DEF HomeAll, HomeInv, Whole
      <3>4. IsHome(repo[i].path, i)'
        BY <1>2, <3>2 DEF IsHome
      <3> QED
        BY <2>1, <3>3, <3>4 DEF Found
    <2>2. CASE j = i /\ ~Renames(t)
      <3>1. Found(i)
        BY <1>1, <1>3 DEF HomeAll, RowsHaveDirectories, Whole, Found
      <3>2. repo'[i].path = repo[i].path
        BY <1>1, <1>2, <2>2
      <3>3. \A s \in Requests : Moving(s, i)' <=> Moving(s, i)
        BY <1>1, <1>5, <2>2 DEF Moving
      <3>4. \A s \in Requests : Moving(s, i) => tx'[s] = tx[s]
        BY <1>2, <2>2 DEF Moving
      <3>5. CASE \E s \in Requests : Moving(s, i) /\ IsHome(tx[s].to, i)
        BY <1>2, <2>2, <3>3, <3>4, <3>5 DEF Found, IsHome
      <3>6. CASE (\A s \in Requests : ~Moving(s, i)) /\ IsHome(repo[i].path, i)
        BY <1>2, <2>2, <3>2, <3>3, <3>6 DEF Found, IsHome
      <3> QED
        BY <3>1, <3>5, <3>6 DEF Found
    <2>3. CASE j # i
      <3>1. Live(j) /\ ~Deleting(j) /\ repo'[j] = repo[j]
        BY <1>2, <1>4, <2>3 DEF Live
      <3>2. \A s \in Requests : /\ Moving(s, j)' <=> Moving(s, j)
                                /\ Moving(s, j) => tx'[s].to = tx[s].to
        BY <1>1, <1>2, <1>5, <2>3 DEF Moving
      <3>3. \A q \in Paths : disk[q] # None /\ disk[q].repo = j =>
              disk'[q] # None /\ disk'[q].repo = j
        BY <1>2
      <3> QED
        BY <3>1, <3>2, <3>3, FoundStays
    <2> QED
      BY <2>1, <2>2, <2>3
  <1> QED
    BY <1>6, <1>7, <1>8, <1>9, <1>10, HomeParts

LEMMA DeleteRowHome ==
  ASSUME TypeOK, KeyInv, HomeAll, Whole, NEW t \in Requests, NEW i \in Ids,
         DeleteRow(t, i)
  PROVE  HomeAll'
  <1> DEFINE p == repo[i].path
  <1>1. /\ tx[t].pc = "idle" /\ Live(i) /\ p \in Paths /\ CanForUpdate(t, i)
    BY DEF DeleteRow, TypeOK, Row, Live
  <1>2. /\ tx'[t].pc = "deleted" /\ tx'[t].id = i /\ tx'[t].from = None
        /\ \A s \in Requests \ {t} : tx'[s] = tx[s]
        /\ reapers'[p] = reapers[p] + 1
        /\ \A q \in Paths \ {p} : reapers'[q] = reapers[q]
        /\ UNCHANGED <<repo, disk>>
    BY <1>1 DEF DeleteRow, Idle, TypeOK, Tx, db
  <1>3. ~Deleting(i)
    BY <1>1 DEF Deleting, CanForUpdate, ForUpdates
  <1>4. \A s \in Requests : ~Moving(s, i)
    BY <1>1 DEF Moving, CanForUpdate, ForUpdates, KeyShares
  <1>5. disk[p] # None /\ disk[p].repo = i
    BY <1>1, <1>3, <1>4 DEF HomeAll, RowsHaveDirectories, Whole, IsHome
  <1>6. ~(reapers[p] > 0)
    BY <1>1, <1>3, <1>5, ReapersKnown DEF Reaping
  <1>7. /\ Deleting(i)'
        /\ \A j \in Ids \ {i} : Deleting(j)' <=> Deleting(j)
    BY <1>1, <1>2 DEF Deleting
  <1>8. \A s \in Requests : \A j \in Ids :
          /\ Moving(s, j)' <=> Moving(s, j)
          /\ Moving(s, j) => tx'[s] = tx[s]
    BY <1>1, <1>2 DEF Moving, Renames
  <1>9. \A s \in Requests : tx'[s].pc \in {"built", "undo"} =>
          IsHome(tx[s].to, tx[s].id)'
    BY <1>2 DEF HomeAll, HomeInv, Whole, IsHome
  <1>10. \A s \in Requests : Moving(s, tx[s].id)' => tx'[s].from # tx'[s].to
    BY <1>2 DEF HomeAll, HomeInv, Whole, Moving, Renames
  <1>11. \A r, s \in Requests : \A j \in Ids :
           Moving(r, j)' /\ Moving(s, j)' => r = s
    BY <1>8 DEF HomeAll, HomeInv, Whole
  <1>12. \A q \in Paths : reapers'[q] > 0 =>
           /\ reapers'[q] = 1
           /\ disk'[q] # None
           /\ Deleting(disk[q].repo)' \/ ~Live(disk[q].repo)'
           /\ \A s \in Requests : Creating(s)' \/ tx'[s].pc = "undo" =>
                tx'[s].id # disk'[q].repo
    <2> SUFFICES ASSUME NEW q \in Paths, reapers'[q] > 0
                 PROVE  /\ reapers'[q] = 1
                        /\ disk'[q] # None
                        /\ Deleting(disk[q].repo)' \/ ~Live(disk[q].repo)'
                        /\ \A s \in Requests :
                             Creating(s)' \/ tx'[s].pc = "undo" =>
                               tx'[s].id # disk'[q].repo
      OBVIOUS
    <2>1. CASE q = p
      <3>1. reapers'[q] = 1
        BY <1>1, <1>2, <1>6, <2>1 DEF TypeOK
      <3>2. Deleting(disk[q].repo)'
        BY <1>2, <1>5, <2>1 DEF Deleting
      <3>3. \A s \in Requests : Creating(s)' \/ tx'[s].pc = "undo" =>
              tx'[s].id # i
        BY <1>1, <1>2 DEF KeyInv, IdsFresh, Creating
      <3> QED
        BY <1>2, <1>5, <2>1, <3>1, <3>2, <3>3
    <2>2. CASE q # p
      <3>1. Reaping(q)
        BY <1>2, <2>2, ReapersKnown
      <3>2. disk'[q] = disk[q] /\ reapers'[q] = reapers[q]
        BY <1>2, <2>2
      <3>3. Deleting(disk[q].repo)' \/ ~Live(disk[q].repo)'
        BY <1>1, <1>2, <3>1, <3>2 DEF Reaping, Live, Deleting
      <3>4. \A s \in Requests : Creating(s)' \/ tx'[s].pc = "undo" =>
              tx'[s].id # disk'[q].repo
        BY <1>2, <3>1, <3>2 DEF Reaping, Creating
      <3> QED
        BY <3>1, <3>2, <3>3, <3>4 DEF Reaping
    <2> QED
      BY <2>1, <2>2
  <1>13. \A j \in Ids : Live(j)' /\ ~Deleting(j)' => Found(j)'
    <2> SUFFICES ASSUME NEW j \in Ids, Live(j)', ~Deleting(j)'
                 PROVE  Found(j)'
      OBVIOUS
    <2>1. j # i /\ Live(j) /\ ~Deleting(j) /\ repo'[j] = repo[j]
      BY <1>2, <1>7 DEF Live
    <2>2. \A q \in Paths : disk[q] # None /\ disk[q].repo = j =>
            disk'[q] # None /\ disk'[q].repo = j
      BY <1>2
    <2> QED
      BY <1>8, <2>1, <2>2, FoundStays
  <1> QED
    BY <1>9, <1>10, <1>11, <1>12, <1>13, HomeParts

LEMMA DeleteCommitHome ==
  ASSUME TypeOK, KeyInv, HomeAll, Whole, NEW t \in Requests, DeleteCommit(t)
  PROVE  HomeAll'
  <1>0. PICK i \in Ids : i = tx[t].id
    BY DEF DeleteCommit, KeyInv, RequestsShaped
  <1>1. /\ tx[t].pc = "deleted" /\ tx[t].id = i /\ ~Renames(t)
    BY <1>0 DEF DeleteCommit, KeyInv, RequestsShaped
  <1>2. /\ tx'[t] = Idle
        /\ \A s \in Requests \ {t} : tx'[s] = tx[s]
        /\ repo'[i] = None
        /\ \A j \in Ids \ {i} : repo'[j] = repo[j]
        /\ UNCHANGED <<disk, reapers>>
        /\ Idle.pc = "idle" /\ Idle.from = None
    BY <1>1 DEF DeleteCommit, End, Idle, TypeOK, fs
  <1>3. \A j \in Ids \ {i} : Deleting(j)' <=> Deleting(j)
    BY <1>1, <1>2 DEF Deleting
  <1>4. \A s \in Requests : \A j \in Ids :
          /\ Moving(s, j)' <=> Moving(s, j)
          /\ Moving(s, j) => tx'[s] = tx[s]
    BY <1>1, <1>2 DEF Moving, Renames
  <1>5. \A s \in Requests : tx'[s].pc \in {"built", "undo"} =>
          IsHome(tx[s].to, tx[s].id)'
    BY <1>2 DEF HomeAll, HomeInv, Whole, DeleteCommit, IsHome
  <1>6. \A s \in Requests : Moving(s, tx[s].id)' => tx'[s].from # tx'[s].to
    BY <1>2 DEF HomeAll, HomeInv, Whole, DeleteCommit, Moving, Renames
  <1>7. \A r, s \in Requests : \A j \in Ids :
          Moving(r, j)' /\ Moving(s, j)' => r = s
    BY <1>4 DEF HomeAll, HomeInv, Whole
  <1>8. \A q \in Paths : reapers'[q] > 0 =>
           /\ reapers'[q] = 1
           /\ disk'[q] # None
           /\ Deleting(disk[q].repo)' \/ ~Live(disk[q].repo)'
           /\ \A s \in Requests : Creating(s)' \/ tx'[s].pc = "undo" =>
                tx'[s].id # disk'[q].repo
    <2> SUFFICES ASSUME NEW q \in Paths, reapers'[q] > 0
                 PROVE  /\ reapers'[q] = 1
                        /\ disk'[q] # None
                        /\ Deleting(disk[q].repo)' \/ ~Live(disk[q].repo)'
                        /\ \A s \in Requests :
                             Creating(s)' \/ tx'[s].pc = "undo" =>
                               tx'[s].id # disk'[q].repo
      OBVIOUS
    <2>1. Reaping(q) /\ disk'[q] = disk[q] /\ reapers'[q] = reapers[q]
      BY <1>2, ReapersKnown
    <2>2. Deleting(disk[q].repo)' \/ ~Live(disk[q].repo)'
      BY <1>1, <1>2, <2>1 DEF Reaping, Live, Deleting
    <2>3. \A s \in Requests : Creating(s)' \/ tx'[s].pc = "undo" =>
            tx'[s].id # disk'[q].repo
      BY <1>2, <2>1 DEF Reaping, Creating
    <2> QED
      BY <2>1, <2>2, <2>3 DEF Reaping
  <1>9. \A j \in Ids : Live(j)' /\ ~Deleting(j)' => Found(j)'
    <2> SUFFICES ASSUME NEW j \in Ids, Live(j)', ~Deleting(j)'
                 PROVE  Found(j)'
      OBVIOUS
    <2>1. j # i /\ Live(j) /\ ~Deleting(j) /\ repo'[j] = repo[j]
      BY <1>2, <1>3 DEF Live
    <2>2. \A q \in Paths : disk[q] # None /\ disk[q].repo = j =>
            disk'[q] # None /\ disk'[q].repo = j
      BY <1>2
    <2> QED
      BY <1>4, <2>1, <2>2, FoundStays
  <1> QED
    BY <1>5, <1>6, <1>7, <1>8, <1>9, HomeParts

LEMMA ReapHome ==
  ASSUME TypeOK, KeyInv, HomeAll, Whole, NEW p \in Paths, Reap(p)
  PROVE  HomeAll'
  <1>1. /\ Reaping(p)
        /\ disk'[p] = None /\ ~(reapers'[p] > 0)
        /\ \A q \in Paths \ {p} : disk'[q] = disk[q] /\ reapers'[q] = reapers[q]
        /\ UNCHANGED <<repo, tx>>
    <2>1. Reaping(p)
      BY ReapersKnown DEF Reap
    <2> QED
      BY <2>1 DEF Reap, Reaping, TypeOK, db
  <1>2. \A s \in Requests, j \in Ids : Moving(s, j)' <=> Moving(s, j)
    BY <1>1 DEF Moving, Renames
  <1>3. \A j \in Ids : Deleting(j)' <=> Deleting(j)
    BY <1>1 DEF Deleting
  <1>4. \A s \in Requests : tx'[s].pc \in {"built", "undo"} =>
          IsHome(tx[s].to, tx[s].id)'
    <2> SUFFICES ASSUME NEW s \in Requests, tx[s].pc \in {"built", "undo"}
                 PROVE  IsHome(tx[s].to, tx[s].id)'
      BY <1>1
    <2>1. IsHome(tx[s].to, tx[s].id) /\ tx[s].to \in Paths
      BY DEF HomeAll, HomeInv, Whole, KeyInv, RequestsShaped
    <2>2. tx[s].to # p
      BY <1>1, <2>1 DEF Reaping, IsHome, Creating
    <2> QED
      BY <1>1, <2>1, <2>2 DEF IsHome
  <1>5. \A s \in Requests : Moving(s, tx[s].id)' => tx'[s].from # tx'[s].to
    BY <1>1 DEF HomeAll, HomeInv, Whole, Reap, Moving, Renames
  <1>6. \A r, s \in Requests : \A j \in Ids :
          Moving(r, j)' /\ Moving(s, j)' => r = s
    BY <1>2 DEF HomeAll, HomeInv, Whole
  <1>7. \A q \in Paths : reapers'[q] > 0 =>
           /\ reapers'[q] = 1
           /\ disk'[q] # None
           /\ Deleting(disk[q].repo)' \/ ~Live(disk[q].repo)'
           /\ \A s \in Requests : Creating(s)' \/ tx'[s].pc = "undo" =>
                tx'[s].id # disk'[q].repo
    <2> SUFFICES ASSUME NEW q \in Paths \ {p}, reapers[q] > 0
                 PROVE  /\ reapers[q] = 1
                        /\ disk[q] # None
                        /\ Deleting(disk[q].repo)' \/ ~Live(disk[q].repo)'
                        /\ \A s \in Requests :
                             Creating(s)' \/ tx'[s].pc = "undo" =>
                               tx'[s].id # disk[q].repo
      BY <1>1
    <2>1. Reaping(q) /\ disk'[q] = disk[q]
      BY <1>1, ReapersKnown
    <2>2. Deleting(disk[q].repo)' \/ ~Live(disk[q].repo)'
      BY <1>1, <2>1 DEF Reaping, Live, Deleting
    <2>3. \A s \in Requests : Creating(s)' \/ tx'[s].pc = "undo" =>
            tx'[s].id # disk[q].repo
      BY <1>1, <2>1 DEF Reaping, Creating
    <2> QED
      BY <2>1, <2>2, <2>3 DEF Reaping
  <1>8. \A j \in Ids : Live(j)' /\ ~Deleting(j)' => Found(j)'
    <2> SUFFICES ASSUME NEW j \in Ids, Live(j)', ~Deleting(j)'
                 PROVE  Found(j)'
      OBVIOUS
    <2>1. Live(j) /\ ~Deleting(j) /\ repo'[j] = repo[j]
      BY <1>1, <1>3 DEF Live
    <2>2. \A q \in Paths : disk[q] # None /\ disk[q].repo = j =>
            disk'[q] # None /\ disk'[q].repo = j
      BY <1>1, <2>1 DEF Reaping
    <2>3. \A s \in Requests : tx'[s] = tx[s]
      BY <1>1
    <2> QED
      BY <1>2, <2>1, <2>2, <2>3, FoundStays
  <1> QED
    BY <1>4, <1>5, <1>6, <1>7, <1>8, HomeParts

LEMMA CrashHome ==
  ASSUME TypeOK, KeyInv, HomeAll, Whole, Whole', Crash
  PROVE  HomeAll'
  <1>1. /\ \A t \in Requests : tx'[t] = Idle
        /\ \A p \in Paths : reapers'[p] = 0
        /\ UNCHANGED <<repo, disk>>
        /\ Idle.pc = "idle" /\ Idle.from = None
    BY DEF Crash, Idle, db
  <1>2. \A t \in Requests : Harm(t) \subseteq {"litter"}
    <2> DEFINE all == UNION {Harm(t) : t \in Requests}
    <2>1. all \subseteq torn'
      <3> DEFINE cut == \/ \E t \in Requests : tx[t].pc \in {"built", "undo"}
                        \/ \E p \in Paths : reapers[p] > 0
      <3>1. torn' = torn \cup all \cup (IF cut THEN {"litter"} ELSE {})
        BY DEF Crash
      <3> HIDE DEF cut, all
      <3> QED
        BY <3>1
    <2>2. \A t \in Requests : Harm(t) \subseteq all
      OBVIOUS
    <2> HIDE DEF all
    <2> QED
      BY <2>1, <2>2 DEF Whole
  <1>3. \A t \in Requests : /\ tx[t].pc # "deleted"
                            /\ \A i \in Ids : ~Moving(t, i)
    BY <1>2 DEF Harm, Moving
  <1>4. \A t \in Requests : \A i \in Ids : ~Moving(t, i)'
    BY <1>1 DEF Moving, Renames
  <1>5. \A j \in Ids : Live(j)' /\ ~Deleting(j)' => Found(j)'
    <2> SUFFICES ASSUME NEW j \in Ids, Live(j)'
                 PROVE  Found(j)'
      OBVIOUS
    <2>1. Live(j) /\ ~Deleting(j)
      BY <1>1, <1>3 DEF Live, Deleting
    <2>2. IsHome(repo[j].path, j)
      BY <1>3, <2>1 DEF HomeAll, RowsHaveDirectories, Whole
    <2> QED
      BY <1>1, <1>4, <2>2 DEF Found, IsHome
  <1> QED
    BY <1>1, <1>4, <1>5, HomeParts DEF Moving, Renames, Creating

LEMMA HomeInit == Init => HomeAll
  BY DEF Init, Idle, HomeAll, HomeInv, RowsHaveDirectories, Live, Moving,
         Renames

\* What was torn stays torn.
LEMMA TornGrows == TypeOK /\ [Next]_vars => torn \subseteq torn'
  <1> SUFFICES ASSUME [Next]_vars
               PROVE  torn \subseteq torn'
    OBVIOUS
  <1>1. CASE UNCHANGED vars
    BY <1>1 DEF vars
  <1>2. ASSUME NEW t \in Requests, Begin(t)
        PROVE  torn \subseteq torn'
    BY <1>2 DEF Begin, CreateInsert, Touch, RenameRead, DeleteRow
  <1>3. ASSUME NEW t \in Requests, Step(t)
        PROVE  torn \subseteq torn'
    BY <1>3 DEF Step, CreateExists, CreateInit, CreateRefused, CreateUndo,
       CreateCommit, RenameLock, RenameFails, RenameMove, UpdateRow,
       UpdateTaken, DeadlockVictim, SyncRefused, SyncExport, UpdateCommit,
       DeleteCommit
  <1>4. CASE \/ \E t \in Requests : Abort(t)
             \/ \E p \in Paths : Reap(p) \/ RemoveHalf(p)
             \/ Crash
    BY <1>4 DEF Abort, Reap, RemoveHalf, Crash
  <1> QED
    BY <1>1, <1>2, <1>3, <1>4 DEF Next

\* No step loses what an open request or a pending removal is about to touch.
LEMMA HomeStep ==
    TypeOK /\ KeyInv /\ DirInv /\ NameAll /\ HomeAll /\ [Next]_vars => HomeAll'
  <1> SUFFICES ASSUME TypeOK, KeyInv, DirInv, NameAll, HomeAll, [Next]_vars,
                      Whole'
               PROVE  HomeAll'
    BY DEF HomeAll, HomeInv, RowsHaveDirectories, Whole
  <1>1. Whole /\ KeyInv'
    BY TornGrows, KeyStep DEF Whole
  <1>2. CASE UNCHANGED vars
    <2>1. SameHomes /\ \A s \in Requests : Quiet(s)
      BY <1>2 DEF vars, fs, SameHomes, Quiet, Moving, Renames, Creating
    <2> QED
      BY <1>1, <1>2, <2>1, HomeFrame DEF vars, db, fs
  <1>3. ASSUME NEW t \in Requests, Begin(t)
        PROVE  HomeAll'
    <2>1. ASSUME NEW i \in Ids, NEW p \in Paths,
                 NEW vis \in Visibility \cup {"KEEP"}, RenameRead(t, i, p, vis)
          PROVE  HomeAll'
      <3>1. SameHomes /\ UNCHANGED <<repo, reapers>>
        BY <2>1 DEF RenameRead, SameHomes, db, fs
      <3>2. /\ tx[t].pc = "idle" /\ tx'[t].pc = "lock"
            /\ \A s \in Requests \ {t} : tx'[s] = tx[s]
        BY <2>1 DEF RenameRead, TypeOK
      <3>3. \A s \in Requests : Quiet(s)
        BY <3>2 DEF Quiet, Moving, Renames, Creating
      <3> QED
        BY <1>1, <3>1, <3>3, HomeFrame
    <2>2. ASSUME NEW i \in Ids, NEW vis \in Visibility \cup {"KEEP"},
                 Touch(t, i, vis)
          PROVE  HomeAll'
      <3>1. SameHomes /\ UNCHANGED <<repo, reapers>>
        BY <2>2 DEF Touch, SameHomes, db, fs
      <3>2. /\ tx[t].pc = "idle" /\ tx'[t].pc = "sync" /\ tx'[t].from = None
            /\ \A s \in Requests \ {t} : tx'[s] = tx[s]
        BY <2>2 DEF Touch, TypeOK
      <3>3. \A s \in Requests : Quiet(s)
        BY <3>2 DEF Quiet, Moving, Renames, Creating
      <3> QED
        BY <1>1, <3>1, <3>3, HomeFrame
    <2> QED
      BY <1>1, <1>3, <2>1, <2>2, CreateInsertHome, DeleteRowHome DEF Begin
  <1>4. ASSUME NEW t \in Requests,
               \/ CreateExists(t) \/ RenameFails(t)
               \/ UpdateTaken(t) \/ DeadlockVictim(t) \/ SyncRefused(t)
               \/ RenameLock(t) /\ ~Live(tx[t].id)
               \/ Abort(t) /\ tx[t].pc # "built"
        PROVE  HomeAll'
    <2>1. End(t) /\ SameHomes /\ UNCHANGED <<repo, reapers>>
      BY <1>4 DEF CreateExists, RenameFails, UpdateTaken, DeadlockVictim,
                  SyncRefused, RenameLock, Abort, SameHomes, db, fs
    <2>2. Harm(t) = {} \/ Harm(t) \subseteq torn'
      BY <1>4 DEF CreateExists, RenameFails, UpdateTaken, DeadlockVictim,
                  SyncRefused, RenameLock, Abort, Harm
    <2>3. Harm(t) \subseteq {"stranded", "unsynced", "removed"}
      BY DEF Harm
    <2>4. Harm(t) = {}
      BY <2>2, <2>3 DEF Whole
    <2> QED
      BY <1>1, <2>1, <2>4, EndHome
  <1>5. ASSUME NEW t \in Requests,
               \/ CreateRefused(t) \/ SyncExport(t) \/ UpdateRow(t)
               \/ RenameLock(t) /\ Live(tx[t].id)
               \/ Abort(t) /\ tx[t].pc = "built"
        PROVE  HomeAll'
    <2>1. UNCHANGED <<repo, reapers>>
      BY <1>5 DEF CreateRefused, SyncExport, UpdateRow, RenameLock, Abort,
                  db, fs
    <2>2. SameHomes
      <3>1. CASE SyncExport(t)
        <4> DEFINE p == tx[t].to
                   synced == [disk[p] EXCEPT !.export = Exported(tx[t].vis)]
        <4>1. p \in Paths /\ Exported(tx[t].vis) \in BOOLEAN
          BY <3>1 DEF SyncExport, KeyInv, RequestsShaped, Updating, Exported
        <4>2. CASE disk[p] = None
          BY <3>1, <4>2 DEF SyncExport, SameHomes
        <4>3. CASE disk[p] # None
          <5>1. synced \in Dir /\ synced.repo = disk[p].repo
            BY <4>1, <4>3 DEF TypeOK, Dir
          <5>2. disk' = [disk EXCEPT ![p] = synced]
            BY <3>1, <4>3 DEF SyncExport
          <5>3. synced # None
            BY <5>1, NoneAssumption
          <5> HIDE DEF synced
          <5> QED
            BY <4>1, <4>3, <5>1, <5>2, <5>3 DEF SameHomes, TypeOK
        <4> QED
          BY <4>2, <4>3
      <3>2. CASE ~SyncExport(t)
        BY <1>5, <3>2 DEF CreateRefused, UpdateRow, RenameLock, Abort, fs,
                          SameHomes
      <3> QED
        BY <3>1, <3>2
    <2>3. /\ tx'[t].id = tx[t].id /\ tx'[t].from = tx[t].from
          /\ tx'[t].to = tx[t].to
          /\ \A s \in Requests \ {t} : tx'[s] = tx[s]
          /\ \/ tx[t].pc = "built" /\ tx'[t].pc = "undo"
             \/ tx[t].pc = "sync" /\ tx'[t].pc = "synced"
             \/ tx[t].pc = "update" /\ tx'[t].pc = "sync"
             \/ tx[t].pc = "lock" /\ tx'[t].pc = "move"
      BY <1>5 DEF CreateRefused, SyncExport, UpdateRow, RenameLock, Abort,
                  Goto, TypeOK, Tx
    <2>4. \A s \in Requests : Quiet(s)
      BY <2>3 DEF Quiet, Moving, Renames, Creating
    <2> QED
      BY <1>1, <2>1, <2>2, <2>4, HomeFrame
  <1>6. ASSUME NEW p \in Paths, RemoveHalf(p)
        PROVE  HomeAll'
    <2>1. SameHomes /\ UNCHANGED <<repo, reapers, tx>>
      BY <1>6, NoneAssumption DEF RemoveHalf, SameHomes, TypeOK, Dir, db
    <2>2. \A s \in Requests : Quiet(s)
      BY <2>1 DEF Quiet, Moving, Renames, Creating
    <2> QED
      BY <1>1, <2>1, <2>2, HomeFrame
  <1> QED
    BY <1>1, <1>2, <1>3, <1>4, <1>5, <1>6, CreateInitHome, CreateUndoHome,
       CreateCommitHome, RenameMoveHome, UpdateCommitHome, DeleteCommitHome,
       ReapHome, CrashHome DEF Next, Step

\* Until torn, each request finds the directory it is about to touch where it
\* was when the request last looked.
THEOREM HomeCorrect == Spec => []HomeAll
  <1> QED
    BY KeyInit, KeyStep, NameInit, NameStep, DirInit, DirStep, HomeInit,
       HomeStep, PTL DEF Spec

\* Unless a request was cut off between its disk and its database half, or met
\* another one's remains, the directory of every repository is at its path, or
\* where its one open rename put it, and holds that repository.
THEOREM DirectoriesStayWithRows == Spec => []RowsHaveDirectories
  <1>1. HomeAll => RowsHaveDirectories
    BY DEF HomeAll
  <1> QED
    BY <1>1, HomeCorrect, PTL

-----------------------------------------------------------------------------
(* A directory belongs to somebody as long as nothing was torn.             *)

\* A step that puts no directory anywhere, lets go of none that stays, and
\* deletes no repository.
LEMMA RowFrame ==
  ASSUME TypeOK, RowInv, torn = {},
         \A p \in Paths : disk'[p] # None =>
           /\ disk[p] # None /\ disk'[p].repo = disk[p].repo
           /\ reapers[p] > 0 => reapers'[p] > 0,
         \A i \in Ids : Live(i) /\ ~Deleting(i) => Live(i)' /\ ~Deleting(i)',
         \A t \in Requests :
           tx[t].pc \in {"built", "undo"} /\ disk'[tx[t].to] # None =>
             tx'[t].pc \in {"built", "undo"} /\ tx'[t].to = tx[t].to
  PROVE  RowInv'
  <1> SUFFICES ASSUME NEW p \in Paths, disk'[p] # None
               PROVE  Kept(p)'
    BY DEF RowInv
  <1> DEFINE i == disk[p].repo
  <1>1. i \in Ids /\ disk'[p].repo = i /\ Kept(p)
    BY DEF RowInv, TypeOK, Dir
  <1>2. CASE reapers[p] > 0
    BY <1>2 DEF Kept
  <1>3. CASE Live(i) /\ ~Deleting(i)
    <2>1. Live(i)' /\ ~Deleting(i)'
      BY <1>1, <1>3
    <2>2. Live(disk[p].repo)' /\ ~Deleting(disk[p].repo)'
      BY <1>1, <2>1 DEF Live, Deleting
    <2> QED
      BY <2>2 DEF Kept
  <1>4. CASE \E t \in Requests : tx[t].pc \in {"built", "undo"} /\ tx[t].to = p
    BY <1>4 DEF Kept
  <1> QED
    BY <1>1, <1>2, <1>3, <1>4 DEF Kept

LEMMA CreateInitRow ==
  ASSUME TypeOK, KeyInv, RowInv, torn = {}, NEW t \in Requests, CreateInit(t)
  PROVE  RowInv'
  <1>0. PICK p \in Paths : p = tx[t].to
    BY DEF CreateInit, KeyInv, RequestsShaped
  <1>1. /\ tx[t].pc = "init"
        /\ tx'[t].pc = "built" /\ tx'[t].to = p
        /\ \A s \in Requests \ {t} : tx'[s] = tx[s]
        /\ \A q \in Paths \ {p} : disk'[q] = disk[q]
        /\ UNCHANGED <<repo, reapers>>
    BY <1>0 DEF CreateInit, Goto, TypeOK, Tx, db
  <1>2. Kept(p)'
    BY <1>1 DEF Kept
  <1>3. \A j \in Ids : Deleting(j)' => Deleting(j)
    BY <1>1 DEF Deleting
  <1>4. ASSUME NEW q \in Paths \ {p}, disk'[q] # None
        PROVE  Kept(q)'
    <2>1. disk'[q] = disk[q] /\ disk[q].repo \in Ids /\ Kept(q)
      BY <1>1, <1>4 DEF RowInv, TypeOK, Dir
    <2>2. CASE reapers[q] > 0
      BY <1>1, <2>2 DEF Kept
    <2>3. CASE Live(disk[q].repo) /\ ~Deleting(disk[q].repo)
      BY <1>1, <1>3, <2>1, <2>3 DEF Kept, Live, Deleting
    <2>4. CASE \E s \in Requests : tx[s].pc \in {"built", "undo"} /\ tx[s].to = q
      <3>1. PICK s \in Requests : tx[s].pc \in {"built", "undo"} /\ tx[s].to = q
        BY <2>4
      <3>2. tx'[s] = tx[s]
        BY <1>1, <3>1
      <3> QED
        BY <3>1, <3>2 DEF Kept
    <2> QED
      BY <2>1, <2>2, <2>3, <2>4 DEF Kept
  <1> QED
    BY <1>2, <1>4 DEF RowInv

LEMMA CreateCommitRow ==
  ASSUME TypeOK, KeyInv, HomeAll, RowInv, torn = {}, NEW t \in Requests,
         CreateCommit(t)
  PROVE  RowInv'
  <1>0. PICK i \in Ids : i = tx[t].id
    BY DEF CreateCommit, KeyInv, RequestsShaped
  <1>1. /\ tx[t].pc = "built" /\ tx[t].id = i /\ IsHome(tx[t].to, i)
        /\ \A s \in Requests \ {t} : tx[s].id # i
    BY <1>0 DEF CreateCommit, KeyInv, IdsFresh, Creating, HomeAll, HomeInv
  <1>2. /\ tx'[t] = Idle /\ Idle.pc = "idle"
        /\ \A s \in Requests \ {t} : tx'[s] = tx[s]
        /\ \A j \in Ids \ {i} : repo'[j] = repo[j]
        /\ repo'[i] = [path |-> tx[t].to, vis |-> tx[t].vis]
        /\ UNCHANGED <<disk, reapers>>
    BY <1>1 DEF CreateCommit, End, Idle, TypeOK, fs
  <1>3. repo'[i] \in Row
    BY <1>1, <1>2, VisibilityAssumption DEF KeyInv, RequestsShaped, TypeOK, Tx,
                                            Row
  <1>4. Live(i)' /\ ~Deleting(i)'
    BY <1>1, <1>2, <1>3, NoneAssumption DEF Live, Deleting
  <1>5. \A j \in Ids : Deleting(j)' => Deleting(j)
    BY <1>2 DEF Deleting
  <1>6. ASSUME NEW q \in Paths, disk'[q] # None
        PROVE  Kept(q)'
    <2>1. disk'[q] = disk[q] /\ disk[q].repo \in Ids /\ Kept(q)
      BY <1>2, <1>6 DEF RowInv, TypeOK, Dir
    <2>2. CASE reapers[q] > 0
      BY <1>2, <2>2 DEF Kept
    <2>3. CASE Live(disk[q].repo) /\ ~Deleting(disk[q].repo)
      <3>1. CASE disk[q].repo = i
        BY <1>4, <2>1, <3>1 DEF Kept, Live, Deleting
      <3>2. CASE disk[q].repo # i
        BY <1>2, <1>5, <2>1, <2>3, <3>2 DEF Kept, Live, Deleting
      <3> QED
        BY <3>1, <3>2
    <2>4. CASE \E s \in Requests : tx[s].pc \in {"built", "undo"} /\ tx[s].to = q
      <3>1. PICK s \in Requests : tx[s].pc \in {"built", "undo"} /\ tx[s].to = q
        BY <2>4
      <3>2. CASE s = t
        <4>1. disk'[q].repo = i
          BY <1>1, <1>2, <3>1, <3>2 DEF IsHome
        <4> QED
          BY <1>4, <4>1 DEF Kept, Live, Deleting
      <3>3. CASE s # t
        BY <1>2, <3>1, <3>3 DEF Kept
      <3> QED
        BY <3>2, <3>3
    <2> QED
      BY <2>1, <2>2, <2>3, <2>4 DEF Kept
  <1> QED
    BY <1>6 DEF RowInv

LEMMA RenameMoveRow ==
  ASSUME TypeOK, KeyInv, RowInv, torn = {}, torn' = {}, NEW t \in Requests,
         RenameMove(t)
  PROVE  RowInv'
  <1>0. PICK i \in Ids : i = tx[t].id
    BY DEF RenameMove, KeyInv, RequestsShaped
  <1>a. PICK from \in Paths : from = tx[t].from
    BY DEF RenameMove, KeyInv, RequestsShaped
  <1>b. PICK to \in Paths : to = tx[t].to
    BY DEF RenameMove, KeyInv, RequestsShaped
  <1>1. /\ tx[t].pc = "move" /\ tx[t].id = i /\ Live(i)
        /\ disk[from] # None /\ disk[to] = None /\ disk[from].repo = i
    BY <1>0, <1>a, <1>b DEF RenameMove, KeyInv, RequestsShaped, LocksHold
  <1>2. ~Deleting(i)
    BY <1>1 DEF Deleting, KeyInv, LocksHold, KeyShares, ForUpdates
  <1>3. /\ tx'[t].pc = "update"
        /\ \A s \in Requests \ {t} : tx'[s] = tx[s]
        /\ disk'[to] = disk[from] /\ disk'[from] = None
        /\ \A q \in Paths \ {from, to} : disk'[q] = disk[q]
        /\ UNCHANGED <<repo, reapers>>
    BY <1>1, <1>a, <1>b DEF RenameMove, Goto, TypeOK, Tx, db
  <1>4. \A j \in Ids : Deleting(j)' => Deleting(j)
    BY <1>3 DEF Deleting
  <1>5. Kept(to)'
    BY <1>1, <1>2, <1>3, <1>4 DEF Kept, Live, Deleting
  <1>6. ASSUME NEW q \in Paths \ {from, to}, disk'[q] # None
        PROVE  Kept(q)'
    <2>1. disk'[q] = disk[q] /\ disk[q].repo \in Ids /\ Kept(q)
      BY <1>3, <1>6 DEF RowInv, TypeOK, Dir
    <2>2. CASE reapers[q] > 0
      BY <1>3, <2>2 DEF Kept
    <2>3. CASE Live(disk[q].repo) /\ ~Deleting(disk[q].repo)
      BY <1>3, <1>4, <2>1, <2>3 DEF Kept, Live, Deleting
    <2>4. CASE \E s \in Requests : tx[s].pc \in {"built", "undo"} /\ tx[s].to = q
      <3>1. PICK s \in Requests : tx[s].pc \in {"built", "undo"} /\ tx[s].to = q
        BY <2>4
      <3>2. tx'[s] = tx[s]
        BY <1>1, <1>3, <3>1
      <3> QED
        BY <3>1, <3>2 DEF Kept
    <2> QED
      BY <2>1, <2>2, <2>3, <2>4 DEF Kept
  <1>7. \A q \in Paths : disk'[q] # None => q = to \/ q \notin {from, to}
    BY <1>3
  <1> QED
    BY <1>5, <1>6, <1>7 DEF RowInv

LEMMA DeleteRowRow ==
  ASSUME TypeOK, KeyInv, DirInv, HomeAll, RowInv, torn = {},
         NEW t \in Requests, NEW i \in Ids, DeleteRow(t, i)
  PROVE  RowInv'
  <1>0. PICK p \in Paths : p = repo[i].path
    BY DEF DeleteRow, TypeOK, Row, Live
  <1>1. /\ tx[t].pc = "idle" /\ Live(i) /\ CanForUpdate(t, i)
        /\ tx'[t].pc = "deleted" /\ tx'[t].id = i
        /\ \A s \in Requests \ {t} : tx'[s] = tx[s]
        /\ reapers'[p] = reapers[p] + 1
        /\ \A q \in Paths \ {p} : reapers'[q] = reapers[q]
        /\ UNCHANGED <<repo, disk>>
    BY <1>0 DEF DeleteRow, Idle, TypeOK, Tx, db
  <1>2. ~Deleting(i) /\ \A s \in Requests : ~Moving(s, i)
    BY <1>1 DEF Deleting, Moving, CanForUpdate, ForUpdates, KeyShares
  <1>3. disk[p] # None /\ disk[p].repo = i
    BY <1>0, <1>1, <1>2 DEF HomeAll, RowsHaveDirectories, IsHome
  <1>4. \A j \in Ids \ {i} : Deleting(j)' => Deleting(j)
    BY <1>1 DEF Deleting
  <1>5. ASSUME NEW q \in Paths, disk'[q] # None
        PROVE  Kept(q)'
    <2>1. disk'[q] = disk[q] /\ disk[q].repo \in Ids /\ Kept(q)
      BY <1>1, <1>5 DEF RowInv, TypeOK, Dir
    <2>2. CASE q = p
      BY <1>1, <2>2 DEF Kept, TypeOK
    <2>3. CASE q # p
      <3>1. disk[q].repo # i /\ reapers'[q] = reapers[q]
        BY <1>1, <1>3, <1>5, <2>1, <2>3 DEF DirInv, OneDirectory
      <3>2. CASE reapers[q] > 0
        BY <3>1, <3>2 DEF Kept
      <3>3. CASE Live(disk[q].repo) /\ ~Deleting(disk[q].repo)
        BY <1>1, <1>4, <2>1, <3>1, <3>3 DEF Kept, Live, Deleting
      <3>4. CASE \E s \in Requests : tx[s].pc \in {"built", "undo"} /\ tx[s].to = q
        <4>1. PICK s \in Requests : tx[s].pc \in {"built", "undo"} /\ tx[s].to = q
          BY <3>4
        <4>2. tx'[s] = tx[s]
          BY <1>1, <4>1
        <4> QED
          BY <4>1, <4>2 DEF Kept
      <3> QED
        BY <2>1, <3>2, <3>3, <3>4 DEF Kept
    <2> QED
      BY <2>2, <2>3
  <1> QED
    BY <1>5 DEF RowInv

LEMMA CrashRow ==
  ASSUME TypeOK, RowInv, torn = {}, torn' = {}, Crash
  PROVE  RowInv'
  <1> DEFINE all == UNION {Harm(t) : t \in Requests}
             cut == \/ \E t \in Requests : tx[t].pc \in {"built", "undo"}
                    \/ \E p \in Paths : reapers[p] > 0
  <1>1. torn' = torn \cup all \cup (IF cut THEN {"litter"} ELSE {})
    BY DEF Crash
  <1>2. ~cut
    <2> HIDE DEF all, cut
    <2> QED
      BY <1>1
  <1>3. \A i \in Ids : ~Deleting(i)'
    BY DEF Crash, Deleting, Idle
  <1>4. ASSUME NEW p \in Paths, disk'[p] # None
        PROVE  Kept(p)'
    <2>1. disk'[p] = disk[p] /\ disk[p].repo \in Ids /\ Kept(p) /\ repo' = repo
      BY <1>4 DEF Crash, RowInv, TypeOK, Dir, db
    <2>2. Live(disk[p].repo)
      BY <1>2, <2>1 DEF Kept
    <2> QED
      BY <1>3, <2>1, <2>2 DEF Kept, Live, Deleting
  <1> QED
    BY <1>4 DEF RowInv

LEMMA RowInit == Init => RowInv
  BY DEF Init, RowInv

\* No step leaves a directory behind.
LEMMA RowStep ==
    TypeOK /\ KeyInv /\ DirInv /\ HomeAll /\ RowInv /\ [Next]_vars => RowInv'
  <1> SUFFICES ASSUME TypeOK, KeyInv, DirInv, HomeAll, RowInv, [Next]_vars,
                      torn' = {}
               PROVE  RowInv'
    BY DEF RowInv
  <1>1. torn = {}
    BY TornGrows
  <1>2. CASE UNCHANGED vars
    BY <1>1, <1>2, RowFrame DEF vars, db, fs, Live, Deleting
  <1>3. ASSUME NEW t \in Requests, Begin(t)
        PROVE  RowInv'
    <2>1. ASSUME ~(\E i \in Ids : DeleteRow(t, i))
          PROVE  RowInv'
      <3>1. /\ UNCHANGED <<repo, disk, reapers>>
            /\ tx[t].pc = "idle" /\ tx'[t].pc \in {"init", "lock", "sync"}
            /\ \A s \in Requests \ {t} : tx'[s] = tx[s]
        <4>1. CASE \E p \in Paths, vis \in Visibility : CreateInsert(t, p, vis)
          BY <4>1 DEF CreateInsert, TypeOK, fs
        <4>2. CASE \E i \in Ids, vis \in Visibility \cup {"KEEP"} :
                      Touch(t, i, vis)
          BY <4>2 DEF Touch, TypeOK, db, fs
        <4>3. CASE \E i \in Ids, vis \in Visibility \cup {"KEEP"}, p \in Paths :
                      RenameRead(t, i, p, vis)
          BY <4>3 DEF RenameRead, TypeOK, db, fs
        <4> QED
          BY <1>3, <2>1, <4>1, <4>2, <4>3 DEF Begin
      <3>2. \A i \in Ids : Live(i) /\ ~Deleting(i) => Live(i)' /\ ~Deleting(i)'
        BY <3>1 DEF Live, Deleting
      <3> QED
        BY <1>1, <3>1, <3>2, RowFrame
    <2> QED
      BY <1>1, <2>1, DeleteRowRow
  <1>4. ASSUME NEW t \in Requests,
               \/ CreateExists(t) \/ CreateUndo(t) \/ RenameFails(t)
               \/ UpdateTaken(t) \/ DeadlockVictim(t) \/ SyncRefused(t)
               \/ UpdateCommit(t)
               \/ RenameLock(t) /\ ~Live(tx[t].id)
               \/ Abort(t) /\ tx[t].pc # "built"
        PROVE  RowInv'
    <2>1. End(t) /\ UNCHANGED reapers
      BY <1>4 DEF CreateExists, CreateUndo, RenameFails, UpdateTaken,
                  DeadlockVictim, SyncRefused, UpdateCommit, RenameLock, Abort,
                  fs
    <2>2. /\ tx'[t].pc = "idle"
          /\ \A s \in Requests \ {t} : tx'[s] = tx[s]
      BY <2>1 DEF End, Idle, TypeOK
    <2>3. /\ \A p \in Paths : disk'[p] # None => disk'[p] = disk[p]
          /\ tx[t].pc \in {"built", "undo"} => disk'[tx[t].to] = None
      BY <1>4 DEF CreateExists, CreateUndo, RenameFails, UpdateTaken,
                  DeadlockVictim, SyncRefused, UpdateCommit, RenameLock, Abort,
                  fs, TypeOK, KeyInv, RequestsShaped
    <2>4. \A i \in Ids : Live(i) => Live(i)'
      <3>1. CASE UpdateCommit(t)
        <4>1. /\ tx[t].id \in Ids
              /\ [path |-> tx[t].to, vis |-> tx[t].vis] \in Row
          BY <3>1, VisibilityAssumption
             DEF UpdateCommit, KeyInv, RequestsShaped, Updating, TypeOK, Tx, Row
        <4> QED
          BY <3>1, <4>1, NoneAssumption DEF UpdateCommit, Live, TypeOK
      <3>2. CASE ~UpdateCommit(t)
        BY <1>4, <3>2 DEF CreateExists, CreateUndo, RenameFails, UpdateTaken,
                  DeadlockVictim, SyncRefused, RenameLock, Abort, db, Live
      <3> QED
        BY <3>1, <3>2
    <2>5. \A i \in Ids : Deleting(i)' => Deleting(i)
      BY <2>2 DEF Deleting
    <2>6. \A s \in Requests :
            tx[s].pc \in {"built", "undo"} /\ disk'[tx[s].to] # None =>
              tx'[s].pc \in {"built", "undo"} /\ tx'[s].to = tx[s].to
      BY <2>2, <2>3
    <2> QED
      BY <1>1, <2>1, <2>3, <2>4, <2>5, <2>6, RowFrame
  <1>5. ASSUME NEW t \in Requests,
               \/ CreateRefused(t) \/ SyncExport(t) \/ UpdateRow(t)
               \/ RenameLock(t) /\ Live(tx[t].id)
               \/ Abort(t) /\ tx[t].pc = "built"
        PROVE  RowInv'
    <2>1. UNCHANGED <<repo, reapers>>
      BY <1>5 DEF CreateRefused, SyncExport, UpdateRow, RenameLock, Abort,
                  db, fs
    <2>2. \A p \in Paths : disk'[p] # None =>
            disk[p] # None /\ disk'[p].repo = disk[p].repo
      <3>1. CASE SyncExport(t)
        BY <3>1 DEF SyncExport, TypeOK, Dir
      <3>2. CASE ~SyncExport(t)
        BY <1>5, <3>2 DEF CreateRefused, UpdateRow, RenameLock, Abort, fs
      <3> QED
        BY <3>1, <3>2
    <2>3. /\ tx'[t].to = tx[t].to
          /\ \A s \in Requests \ {t} : tx'[s] = tx[s]
          /\ tx'[t].pc # "deleted"
          /\ tx[t].pc = "built" => tx'[t].pc = "undo"
          /\ tx[t].pc # "undo"
      BY <1>5 DEF CreateRefused, SyncExport, UpdateRow, RenameLock, Abort,
                  Goto, TypeOK, Tx
    <2>4. \A i \in Ids : Live(i) /\ ~Deleting(i) => Live(i)' /\ ~Deleting(i)'
      BY <2>1, <2>3 DEF Live, Deleting
    <2> QED
      BY <1>1, <2>1, <2>2, <2>3, <2>4, RowFrame
  <1>6. ASSUME NEW t \in Requests, DeleteCommit(t)
        PROVE  RowInv'
    <2>0. PICK i \in Ids : i = tx[t].id
      BY <1>6 DEF DeleteCommit, KeyInv, RequestsShaped
    <2>1. /\ tx[t].pc = "deleted" /\ Deleting(i)
          /\ tx'[t].pc = "idle"
          /\ \A s \in Requests \ {t} : tx'[s] = tx[s]
          /\ \A j \in Ids \ {i} : repo'[j] = repo[j]
          /\ UNCHANGED <<disk, reapers>>
      BY <1>6, <2>0 DEF DeleteCommit, End, Idle, TypeOK, Deleting, fs
    <2>2. \A j \in Ids : Live(j) /\ ~Deleting(j) => Live(j)' /\ ~Deleting(j)'
      BY <2>1 DEF Live, Deleting
    <2> QED
      BY <1>1, <2>1, <2>2, RowFrame
  <1>7. ASSUME NEW p \in Paths, Reap(p) \/ RemoveHalf(p)
        PROVE  RowInv'
    <2>1. /\ UNCHANGED <<repo, tx>>
          /\ \A q \in Paths : disk'[q] # None =>
               /\ disk[q] # None /\ disk'[q].repo = disk[q].repo
               /\ reapers[q] > 0 => reapers'[q] > 0
      <3>1. CASE Reap(p)
        BY <3>1 DEF Reap, TypeOK, db
      <3>2. CASE RemoveHalf(p)
        BY <3>2 DEF RemoveHalf, TypeOK, Dir, db
      <3> QED
        BY <1>7, <3>1, <3>2
    <2> QED
      BY <1>1, <2>1, RowFrame DEF Live, Deleting
  <1> QED
    BY <1>1, <1>2, <1>3, <1>4, <1>5, <1>6, <1>7, CreateInitRow, CreateCommitRow,
       RenameMoveRow, CrashRow DEF Next, Step

\* Until torn, every directory is kept by its repository, by its creation or
\* by a removal that is to come.
THEOREM RowCorrect == Spec => []RowInv
  <1> QED
    BY KeyInit, KeyStep, NameInit, NameStep, DirInit, DirStep, HomeInit,
       HomeStep, RowInit, RowStep, PTL DEF Spec

\* Unless torn, every directory belongs to a repository, to a creation in
\* flight or to a goroutine that is going to remove it.
THEOREM NoNameIsBlocked == Spec => []DirectoriesHaveRows
  <1>1. RowInv => DirectoriesHaveRows
    BY DEF RowInv, Kept, DirectoriesHaveRows
  <1> QED
    BY <1>1, RowCorrect, PTL

-----------------------------------------------------------------------------
(* git-daemon serves what is not private as long as nothing was torn.       *)

\* The path an update is about to commit has the directory, unless a rename
\* has taken it elsewhere.
LEMMA UpdatingHome ==
  ASSUME TypeOK, KeyInv, HomeAll, Whole, NEW t \in Requests, NEW i \in Ids,
         Updating(t), tx[t].id = i, \A s \in Requests \ {t} : ~Moving(s, i)
  PROVE  IsHome(tx[t].to, i)
  <1>1. Live(i) /\ ~Deleting(i)
    <2>1. Live(i)
      BY DEF Updating, KeyInv, LocksHold
    <2>2. ForUpdates(t, i) \/ NoKeyUpdates(t, i)
      BY DEF Updating, ForUpdates, NoKeyUpdates
    <2>3. ASSUME NEW s \in Requests, tx[s].pc = "deleted", tx[s].id = i
          PROVE  FALSE
      <3>1. ForUpdates(s, i) /\ s # t
        BY <2>3 DEF ForUpdates, Updating
      <3> QED
        BY <2>2, <3>1 DEF KeyInv, LocksHold
    <2> QED
      BY <2>1, <2>3 DEF Deleting
  <1>2. CASE Renames(t)
    <2>1. Moving(t, i)
      BY <1>2 DEF Moving, Updating
    <2>2. PICK s \in Requests : Moving(s, i) /\ IsHome(tx[s].to, i)
      BY <1>1, <2>1 DEF HomeAll, RowsHaveDirectories, Whole
    <2> QED
      BY <2>2
  <1>3. CASE ~Renames(t)
    <2>1. tx[t].to = repo[i].path /\ \A s \in Requests : ~Moving(s, i)
      BY <1>3 DEF KeyInv, KeysPending, Moving
    <2> QED
      BY <1>1, <2>1 DEF HomeAll, RowsHaveDirectories, Whole
  <1> QED
    BY <1>2, <1>3

\* What is due at a path is due for the repository that is there.
LEMMA DueHome ==
  ASSUME TypeOK, KeyInv, HomeAll, Whole,
         NEW i \in Ids, NEW p \in Paths, NEW vis, Due(i, p, vis)
  PROVE  IsHome(p, i)
  <1>1. CASE \E t \in Requests : /\ tx[t].pc = "built" /\ tx[t].id = i
                                 /\ tx[t].to = p
    BY <1>1 DEF HomeAll, HomeInv, Whole
  <1>2. CASE \E t \in Requests : /\ tx[t].pc = "synced" /\ tx[t].id = i
                                 /\ \A s \in Requests \ {t} : ~Moving(s, i)
                                 /\ tx[t].to = p
    BY <1>2, UpdatingHome DEF Updating
  <1>3. CASE /\ Live(i) /\ ~Deleting(i)
             /\ \A t \in Requests : ~Touching(t, i)
             /\ repo[i].path = p
    BY <1>3 DEF HomeAll, RowsHaveDirectories, Whole, Touching
  <1> QED
    BY <1>1, <1>2, <1>3 DEF Due

\* A step that commits nothing and brings no request to the point of it.
LEMMA DueFrame ==
  ASSUME repo' = repo,
         \A s \in Requests :
           /\ tx'[s].pc \in {"built", "synced"} => tx'[s] = tx[s]
           /\ \A j \in Ids : /\ Moving(s, j) => Moving(s, j)'
                             /\ Touching(s, j) => Touching(s, j)',
         \A j \in Ids : Deleting(j) => Deleting(j)',
         NEW i \in Ids, NEW p, NEW vis, Due(i, p, vis)'
  PROVE  Due(i, p, vis)
  <1>1. CASE \E t \in Requests : /\ tx'[t].pc = "built" /\ tx'[t].id = i
                                 /\ tx'[t].to = p /\ tx'[t].vis = vis
    BY <1>1 DEF Due
  <1>2. CASE \E t \in Requests : /\ tx'[t].pc = "synced" /\ tx'[t].id = i
                                 /\ \A s \in Requests \ {t} : ~Moving(s, i)'
                                 /\ tx'[t].to = p /\ tx'[t].vis = vis
    <2>1. PICK t \in Requests : /\ tx'[t].pc = "synced" /\ tx'[t].id = i
                                /\ \A s \in Requests \ {t} : ~Moving(s, i)'
                                /\ tx'[t].to = p /\ tx'[t].vis = vis
      BY <1>2
    <2>2. tx'[t] = tx[t] /\ \A s \in Requests \ {t} : ~Moving(s, i)
      BY <2>1
    <2> QED
      BY <2>1, <2>2 DEF Due
  <1>3. CASE /\ Live(i)' /\ ~Deleting(i)'
             /\ \A t \in Requests : ~Touching(t, i)'
             /\ repo'[i] = [path |-> p, vis |-> vis]
    BY <1>3 DEF Due, Live
  <1> QED
    BY <1>1, <1>2, <1>3 DEF Due

\* A request that gives up without harm: what it was about to commit is what
\* its row says already.
LEMMA EndDue ==
  ASSUME TypeOK, KeyInv, repo' = repo, NEW t \in Requests, End(t),
         Harm(t) = {}, NEW i \in Ids, NEW p, NEW vis, Due(i, p, vis)'
  PROVE  Due(i, p, vis)
  <1>1. /\ tx'[t] = Idle /\ Idle.pc = "idle" /\ Idle.from = None
        /\ \A s \in Requests \ {t} : tx'[s] = tx[s]
    BY DEF End, Idle, TypeOK
  <1>2. tx[t].pc # "deleted" /\ \A j \in Ids : ~Moving(t, j)
    BY DEF Harm, Moving
  <1>3. /\ \A s \in Requests, j \in Ids : Moving(s, j)' <=> Moving(s, j)
        /\ \A j \in Ids : Deleting(j)' <=> Deleting(j)
    BY <1>1, <1>2 DEF Moving, Renames, Deleting
  <1>4. CASE tx[t].pc = "synced" /\ tx[t].id = i
    <2>1. ~Renames(t) /\ tx[t].to = repo[i].path /\ tx[t].vis = repo[i].vis
      BY <1>4 DEF Harm, KeyInv, KeysPending, Updating
    <2>2. \A s \in Requests \ {t} : tx[s].id = i =>
            tx[s].pc \notin {"built", "synced"}
      BY <1>4, <2>1 DEF KeyInv, LocksHold, IdsFresh, Creating, ForUpdates,
                        NoKeyUpdates
    <2>3. ASSUME NEW s \in Requests, tx'[s].pc \in {"built", "synced"},
                 tx'[s].id = i
          PROVE  FALSE
      BY <1>1, <2>2, <2>3
    <2>4. /\ repo'[i] = [path |-> p, vis |-> vis]
          /\ \A s \in Requests : ~Touching(s, i)'
      BY <2>3 DEF Due
    <2>5. /\ repo[i] = [path |-> p, vis |-> vis]
          /\ \A s \in Requests : ~Moving(s, i)
      BY <1>3, <2>4 DEF Touching
    <2> QED
      BY <1>4, <2>1, <2>5 DEF Due
  <1>5. CASE ~(tx[t].pc = "synced" /\ tx[t].id = i)
    <2>1. /\ \A s \in Requests : Touching(s, i) => Touching(s, i)'
          /\ \A s \in Requests : tx'[s].pc \in {"built", "synced"} =>
               tx'[s] = tx[s]
      BY <1>1, <1>2, <1>3, <1>5 DEF Touching
    <2>2. CASE \E s \in Requests : /\ tx'[s].pc = "built" /\ tx'[s].id = i
                                   /\ tx'[s].to = p /\ tx'[s].vis = vis
      BY <2>1, <2>2 DEF Due
    <2>3. CASE \E s \in Requests : /\ tx'[s].pc = "synced" /\ tx'[s].id = i
                                   /\ \A r \in Requests \ {s} : ~Moving(r, i)'
                                   /\ tx'[s].to = p /\ tx'[s].vis = vis
      <3>1. PICK s \in Requests : /\ tx'[s].pc = "synced" /\ tx'[s].id = i
                                  /\ \A r \in Requests \ {s} : ~Moving(r, i)'
                                  /\ tx'[s].to = p /\ tx'[s].vis = vis
        BY <2>3
      <3>2. tx'[s] = tx[s] /\ \A r \in Requests \ {s} : ~Moving(r, i)
        BY <1>3, <2>1, <3>1
      <3> QED
        BY <3>1, <3>2 DEF Due
    <2>4. CASE /\ Live(i)' /\ ~Deleting(i)'
               /\ \A s \in Requests : ~Touching(s, i)'
               /\ repo'[i] = [path |-> p, vis |-> vis]
      BY <1>3, <2>1, <2>4 DEF Due, Live
    <2> QED
      BY <2>2, <2>3, <2>4 DEF Due
  <1> QED
    BY <1>4, <1>5

LEMMA CreateUndoExport ==
  ASSUME TypeOK, KeyInv, HomeAll, Whole, NEW t \in Requests, CreateUndo(t),
         NEW i \in Ids, NEW p \in Paths, NEW vis, Due(i, p, vis)'
  PROVE  Due(i, p, vis) /\ disk'[p] = disk[p]
  <1>1. /\ tx[t].pc = "undo" /\ tx[t].id \in Ids /\ tx[t].to \in Paths
        /\ IsHome(tx[t].to, tx[t].id) /\ ~Live(tx[t].id)
        /\ \A s \in Requests \ {t} : tx[s].id # tx[t].id
    BY DEF CreateUndo, KeyInv, RequestsShaped, IdsFresh, HomeAll, HomeInv, Whole
  <1>2. Harm(t) = {} /\ End(t) /\ repo' = repo
    BY <1>1 DEF Harm, CreateUndo, db
  <1>3. Due(i, p, vis)
    BY <1>2, EndDue
  <1>4. IsHome(p, i)
    BY <1>3, DueHome
  <1>5. i # tx[t].id
    BY <1>1, <1>3 DEF Due
  <1>6. p # tx[t].to
    BY <1>1, <1>4, <1>5 DEF IsHome
  <1> QED
    BY <1>3, <1>6 DEF CreateUndo, TypeOK

LEMMA CreateInitExport ==
  ASSUME TypeOK, KeyInv, HomeAll, Whole, Whole', NEW t \in Requests,
         CreateInit(t), NEW i \in Ids, NEW p \in Paths, NEW vis,
         Due(i, p, vis)'
  PROVE  \/ Due(i, p, vis) /\ disk'[p] = disk[p]
         \/ disk'[p].export = Exported(vis)
  <1>0. PICK to \in Paths : to = tx[t].to
    BY DEF CreateInit, KeyInv, RequestsShaped
  <1>1. disk[to] = None
    BY <1>0 DEF CreateInit, Whole
  <1>2. /\ tx[t].pc = "init"
        /\ tx'[t].pc = "built" /\ tx'[t].to = to /\ tx'[t].vis = tx[t].vis
        /\ tx'[t].id = tx[t].id /\ tx'[t].from = tx[t].from
        /\ \A s \in Requests \ {t} : tx'[s] = tx[s]
        /\ disk'[to].export = Exported(tx[t].vis)
        /\ \A q \in Paths \ {to} : disk'[q] = disk[q]
        /\ repo' = repo
    BY <1>0 DEF CreateInit, Goto, TypeOK, Tx, db
  <1>3. CASE tx'[t].id = i /\ tx'[t].to = p /\ tx'[t].vis = vis
    BY <1>2, <1>3
  <1>4. CASE ~(tx'[t].id = i /\ tx'[t].to = p /\ tx'[t].vis = vis)
    <2>1. /\ \A s \in Requests, j \in Ids : Moving(s, j)' <=> Moving(s, j)
          /\ \A s \in Requests, j \in Ids : Touching(s, j)' <=> Touching(s, j)
          /\ \A j \in Ids : Deleting(j)' <=> Deleting(j)
      BY <1>2 DEF Moving, Renames, Touching, Deleting
    <2>2. Due(i, p, vis)
      <3>1. CASE \E s \in Requests : /\ tx'[s].pc = "built" /\ tx'[s].id = i
                                     /\ tx'[s].to = p /\ tx'[s].vis = vis
        BY <1>2, <1>4, <3>1 DEF Due
      <3>2. CASE \E s \in Requests : /\ tx'[s].pc = "synced" /\ tx'[s].id = i
                                     /\ \A r \in Requests \ {s} : ~Moving(r, i)'
                                     /\ tx'[s].to = p /\ tx'[s].vis = vis
        <4>1. PICK s \in Requests : /\ tx'[s].pc = "synced" /\ tx'[s].id = i
                                    /\ \A r \in Requests \ {s} : ~Moving(r, i)'
                                    /\ tx'[s].to = p /\ tx'[s].vis = vis
          BY <3>2
        <4>2. tx'[s] = tx[s] /\ \A r \in Requests \ {s} : ~Moving(r, i)
          BY <1>2, <2>1, <4>1
        <4> QED
          BY <4>1, <4>2 DEF Due
      <3>3. CASE /\ Live(i)' /\ ~Deleting(i)'
                 /\ \A s \in Requests : ~Touching(s, i)'
                 /\ repo'[i] = [path |-> p, vis |-> vis]
        BY <1>2, <2>1, <3>3 DEF Due, Live
      <3> QED
        BY <3>1, <3>2, <3>3 DEF Due
    <2>3. p # to
      BY <1>1, <2>2, DueHome DEF IsHome
    <2> QED
      BY <1>2, <2>2, <2>3
  <1> QED
    BY <1>3, <1>4

LEMMA RenameMoveExport ==
  ASSUME TypeOK, KeyInv, HomeAll, Whole, Whole', NEW t \in Requests,
         RenameMove(t), NEW i \in Ids, NEW p \in Paths, NEW vis,
         Due(i, p, vis)'
  PROVE  Due(i, p, vis) /\ disk'[p] = disk[p]
  <1>0. PICK k \in Ids : k = tx[t].id
    BY DEF RenameMove, KeyInv, RequestsShaped
  <1>a. PICK from \in Paths : from = tx[t].from
    BY DEF RenameMove, KeyInv, RequestsShaped
  <1>b. PICK to \in Paths : to = tx[t].to
    BY DEF RenameMove, KeyInv, RequestsShaped
  <1>1. /\ tx[t].pc = "move" /\ tx[t].id = k /\ Live(k)
        /\ disk[from] # None /\ disk[to] = None /\ disk[from].repo = k
    BY <1>0, <1>a, <1>b DEF RenameMove, KeyInv, RequestsShaped, LocksHold, Whole
  <1>2. /\ tx'[t].pc = "update" /\ tx'[t].id = k /\ tx'[t].from = from
        /\ \A s \in Requests \ {t} : tx'[s] = tx[s]
        /\ \A q \in Paths \ {from, to} : disk'[q] = disk[q]
        /\ repo' = repo
    BY <1>1, <1>a, <1>b DEF RenameMove, Goto, TypeOK, Tx, db
  <1>3. /\ \A s \in Requests, j \in Ids : Moving(s, j) => Moving(s, j)'
        /\ \A s \in Requests, j \in Ids : Touching(s, j) => Touching(s, j)'
        /\ \A j \in Ids : Deleting(j) => Deleting(j)'
    BY <1>1, <1>2 DEF Moving, Renames, Touching, Deleting
  <1>4. Due(i, p, vis)
    BY <1>2, <1>3, DueFrame
  <1>5. Moving(t, k)'
    BY <1>2, <1>a, NoneAssumption DEF Moving, Renames
  <1>6. i # k
    <2>1. \A s \in Requests : tx[s].pc = "built" => tx[s].id # k
      BY <1>1 DEF KeyInv, IdsFresh, Creating
    <2>2. CASE \E s \in Requests : tx'[s].pc = "built" /\ tx'[s].id = i
      BY <1>2, <2>1, <2>2
    <2>3. CASE \E s \in Requests : /\ tx'[s].pc = "synced"
                                   /\ \A r \in Requests \ {s} : ~Moving(r, i)'
      BY <1>2, <1>5, <2>3
    <2>4. CASE \A s \in Requests : ~Touching(s, i)'
      BY <1>5, <2>4 DEF Touching
    <2> QED
      BY <2>2, <2>3, <2>4 DEF Due
  <1>7. IsHome(p, i)
    BY <1>4, DueHome
  <1>8. p \notin {from, to}
    BY <1>1, <1>6, <1>7 DEF IsHome
  <1> QED
    BY <1>2, <1>4, <1>8

LEMMA SyncExportExport ==
  ASSUME TypeOK, KeyInv, HomeAll, Whole, NEW t \in Requests, SyncExport(t),
         NEW i \in Ids, NEW p \in Paths, NEW vis, Due(i, p, vis)'
  PROVE  \/ Due(i, p, vis) /\ disk'[p] = disk[p]
         \/ disk'[p].export = Exported(vis)
  <1>0. PICK k \in Ids : k = tx[t].id
    BY DEF SyncExport, KeyInv, RequestsShaped
  <1>a. PICK to \in Paths : to = tx[t].to
    BY DEF SyncExport, KeyInv, RequestsShaped, Updating
  <1>1. /\ tx[t].pc = "sync" /\ tx[t].id = k /\ Updating(t)
        /\ tx'[t].pc = "synced" /\ tx'[t].to = to /\ tx'[t].vis = tx[t].vis
        /\ tx'[t].id = k /\ tx'[t].from = tx[t].from
        /\ \A s \in Requests \ {t} : tx'[s] = tx[s]
        /\ \A q \in Paths \ {to} : disk'[q] = disk[q]
        /\ disk[to] # None => disk'[to].export = Exported(tx[t].vis)
        /\ repo' = repo
    BY <1>0, <1>a DEF SyncExport, Goto, TypeOK, Tx, Dir, Updating, db
  <1>2. /\ \A s \in Requests, j \in Ids : Moving(s, j)' <=> Moving(s, j)
        /\ \A s \in Requests, j \in Ids : Touching(s, j) => Touching(s, j)'
        /\ \A j \in Ids : Deleting(j)' <=> Deleting(j)
    BY <1>1 DEF Moving, Renames, Touching, Deleting
  <1>3. CASE \E s \in Requests : /\ tx'[s].pc = "built" /\ tx'[s].id = i
                                 /\ tx'[s].to = p /\ tx'[s].vis = vis
    <2>1. PICK s \in Requests \ {t} : /\ tx[s].pc = "built" /\ tx[s].id = i
                                      /\ tx[s].to = p /\ tx[s].vis = vis
      BY <1>1, <1>3
    <2>2. Due(i, p, vis)
      BY <2>1 DEF Due
    <2>3. p # to
      BY <1>1, <1>a, <2>1 DEF KeyInv, KeysPending, Creating
    <2> QED
      BY <1>1, <2>2, <2>3
  <1>4. CASE \E s \in Requests : /\ tx'[s].pc = "synced" /\ tx'[s].id = i
                                 /\ \A r \in Requests \ {s} : ~Moving(r, i)'
                                 /\ tx'[s].to = p /\ tx'[s].vis = vis
    <2>1. PICK s \in Requests : /\ tx'[s].pc = "synced" /\ tx'[s].id = i
                                /\ \A r \in Requests \ {s} : ~Moving(r, i)'
                                /\ tx'[s].to = p /\ tx'[s].vis = vis
      BY <1>4
    <2>2. \A r \in Requests \ {s} : ~Moving(r, i)
      BY <1>2, <2>1
    <2>3. CASE s = t
      <3>1. IsHome(tx[t].to, i)
        BY <1>1, <2>1, <2>2, <2>3, UpdatingHome
      <3> QED
        BY <1>1, <1>a, <2>1, <2>3, <3>1 DEF IsHome
    <2>4. CASE s # t
      <3>1. tx'[s] = tx[s]
        BY <1>1, <2>4
      <3>2. Due(i, p, vis)
        BY <2>1, <2>2, <3>1 DEF Due
      <3>3. Updating(s)
        BY <2>1, <3>1 DEF Updating
      <3>4. p # to
        BY <1>1, <1>a, <2>1, <2>4, <3>1, <3>3 DEF KeyInv, KeysPending
      <3> QED
        BY <1>1, <3>2, <3>4
    <2> QED
      BY <2>3, <2>4
  <1>5. CASE /\ Live(i)' /\ ~Deleting(i)'
             /\ \A s \in Requests : ~Touching(s, i)'
             /\ repo'[i] = [path |-> p, vis |-> vis]
    <2>1. Due(i, p, vis)
      BY <1>1, <1>2, <1>5 DEF Due, Live
    <2>2. i # k
      BY <1>1, <1>5 DEF Touching
    <2>3. p # to
      BY <1>0, <1>1, <1>a, <1>5, <2>2 DEF KeyInv, KeysPending, Live
    <2> QED
      BY <1>1, <2>1, <2>3
  <1> QED
    BY <1>3, <1>4, <1>5 DEF Due

\* A commit makes the row say what was due already.
LEMMA CommitDue ==
  ASSUME TypeOK, KeyInv, HomeAll, Whole, NEW t \in Requests,
         CreateCommit(t) \/ UpdateCommit(t) \/ DeleteCommit(t),
         NEW i \in Ids, NEW p \in Paths, NEW vis, Due(i, p, vis)'
  PROVE  Due(i, p, vis)
  <1>0. PICK k \in Ids : k = tx[t].id
    BY DEF CreateCommit, UpdateCommit, DeleteCommit, KeyInv, RequestsShaped
  <1>1. /\ tx'[t] = Idle /\ Idle.pc = "idle" /\ Idle.from = None
        /\ \A s \in Requests \ {t} : tx'[s] = tx[s]
        /\ \A j \in Ids \ {k} : repo'[j] = repo[j]
    BY <1>0 DEF CreateCommit, UpdateCommit, DeleteCommit, End, Idle, TypeOK
  <1>2. \A s \in Requests \ {t}, j \in Ids :
          /\ Moving(s, j)' <=> Moving(s, j)
          /\ Touching(s, j)' <=> Touching(s, j)
    BY <1>1 DEF Moving, Renames, Touching
  <1>3. CASE \E s \in Requests : /\ tx'[s].pc = "built" /\ tx'[s].id = i
                                 /\ tx'[s].to = p /\ tx'[s].vis = vis
    BY <1>1, <1>3 DEF Due
  <1>4. CASE \E s \in Requests : /\ tx'[s].pc = "synced" /\ tx'[s].id = i
                                 /\ \A r \in Requests \ {s} : ~Moving(r, i)'
                                 /\ tx'[s].to = p /\ tx'[s].vis = vis
    <2>1. PICK s \in Requests : /\ tx'[s].pc = "synced" /\ tx'[s].id = i
                                /\ \A r \in Requests \ {s} : ~Moving(r, i)'
                                /\ tx'[s].to = p /\ tx'[s].vis = vis
      BY <1>4
    <2>2. s # t /\ tx'[s] = tx[s]
      BY <1>1, <2>1
    <2>3. \A r \in Requests \ {s, t} : ~Moving(r, i)
      BY <1>2, <2>1
    <2>4. ~Moving(t, i)
      BY <2>1, <2>2, <1>0 DEF Moving, KeyInv, LocksHold, ForUpdates, NoKeyUpdates,
         CreateCommit, UpdateCommit, DeleteCommit
    <2> QED
      BY <2>1, <2>2, <2>3, <2>4 DEF Due
  <1>5. CASE /\ Live(i)' /\ ~Deleting(i)'
             /\ \A s \in Requests : ~Touching(s, i)'
             /\ repo'[i] = [path |-> p, vis |-> vis]
    <2>1. CASE i # k
      <3>1. \A s \in Requests : ~Touching(s, i)
        BY <1>0, <1>2, <1>5, <2>1 DEF Touching, Moving
      <3>2. ~Deleting(i)
        BY <1>0, <1>1, <1>5, <2>1 DEF Deleting
      <3> QED
        BY <1>1, <1>5, <2>1, <3>1, <3>2 DEF Due, Live
    <2>2. CASE i = k /\ CreateCommit(t)
      <3>1. repo'[i] = [path |-> tx[t].to, vis |-> tx[t].vis]
        BY <1>0, <2>2 DEF CreateCommit, TypeOK
      <3>2. tx[t].to = p /\ tx[t].vis = vis
        BY <1>5, <3>1
      <3> QED
        BY <1>0, <2>2, <3>2 DEF Due, CreateCommit
    <2>3. CASE i = k /\ UpdateCommit(t)
      <3>1. repo'[i] = [path |-> tx[t].to, vis |-> tx[t].vis]
        BY <1>0, <2>3 DEF UpdateCommit, TypeOK
      <3>2. tx[t].to = p /\ tx[t].vis = vis
        BY <1>5, <3>1
      <3>3. \A s \in Requests \ {t} : ~Moving(s, i)
        BY <1>2, <1>5 DEF Touching
      <3> QED
        BY <1>0, <2>3, <3>2, <3>3 DEF Due, UpdateCommit
    <2>4. CASE i = k /\ DeleteCommit(t)
      BY <1>0, <1>5, <2>4 DEF DeleteCommit, Live, TypeOK
    <2> QED
      BY <2>1, <2>2, <2>3, <2>4
  <1> QED
    BY <1>3, <1>4, <1>5 DEF Due

LEMMA CrashDue ==
  ASSUME TypeOK, KeyInv, HomeAll, Whole, Whole', Crash,
         NEW i \in Ids, NEW p \in Paths, NEW vis, Due(i, p, vis)'
  PROVE  Due(i, p, vis)
  <1>1. /\ \A t \in Requests : tx'[t] = Idle
        /\ repo' = repo
        /\ Idle.pc = "idle" /\ Idle.from = None
    BY DEF Crash, Idle, db
  <1>2. \A t \in Requests : Harm(t) = {}
    <2> DEFINE all == UNION {Harm(t) : t \in Requests}
               cut == \/ \E t \in Requests : tx[t].pc \in {"built", "undo"}
                      \/ \E q \in Paths : reapers[q] > 0
    <2>1. torn' = torn \cup all \cup (IF cut THEN {"litter"} ELSE {})
      BY DEF Crash
    <2>2. all \subseteq torn'
      <3> HIDE DEF cut, all
      <3> QED
        BY <2>1
    <2>3. \A t \in Requests : Harm(t) \subseteq all
      OBVIOUS
    <2>4. \A t \in Requests : Harm(t) \subseteq {"litter"}
      <3> HIDE DEF all
      <3> QED
        BY <2>2, <2>3 DEF Whole
    <2>5. \A t \in Requests : Harm(t) \subseteq {"stranded", "unsynced", "removed"}
      BY DEF Harm
    <2> QED
      BY <2>4, <2>5
  <1>3. /\ \A t \in Requests : ~Moving(t, i)
        /\ ~Deleting(i)
    BY <1>2 DEF Harm, Moving, Deleting
  <1>4. Live(i) /\ repo[i] = [path |-> p, vis |-> vis]
    BY <1>1 DEF Due, Live
  <1>5. CASE \E t \in Requests : tx[t].pc = "synced" /\ tx[t].id = i
    <2>1. PICK t \in Requests : tx[t].pc = "synced" /\ tx[t].id = i
      BY <1>5
    <2>2. ~Renames(t) /\ tx[t].to = repo[i].path /\ tx[t].vis = repo[i].vis
      BY <1>2, <2>1 DEF Harm, KeyInv, KeysPending, Updating
    <2> QED
      BY <1>3, <1>4, <2>1, <2>2 DEF Due
  <1>6. CASE ~\E t \in Requests : tx[t].pc = "synced" /\ tx[t].id = i
    BY <1>3, <1>4, <1>6 DEF Due, Touching
  <1> QED
    BY <1>5, <1>6

\* A goroutine removes no directory that is due to be served, or not to be.
LEMMA ReapExport ==
  ASSUME TypeOK, KeyInv, HomeAll, Whole, NEW q \in Paths, Reap(q),
         NEW i \in Ids, NEW p \in Paths, NEW vis, Due(i, p, vis)
  PROVE  disk'[p] = disk[p]
  <1>1. IsHome(p, i)
    BY DueHome
  <1>2. Reaping(q)
    BY ReapersKnown DEF Reap
  <1>3. CASE \E t \in Requests : tx[t].pc = "built" /\ tx[t].id = i
    <2>1. disk[q].repo # i
      BY <1>2, <1>3 DEF Reaping, Creating
    <2> QED
      BY <1>1, <2>1 DEF Reap, IsHome, TypeOK
  <1>4. CASE Live(i) /\ ~Deleting(i)
    <2>1. disk[q].repo # i
      BY <1>2, <1>4 DEF Reaping
    <2> QED
      BY <1>1, <2>1 DEF Reap, IsHome, TypeOK
  <1>5. CASE \E t \in Requests : tx[t].pc = "synced" /\ tx[t].id = i
    <2>1. PICK t \in Requests : tx[t].pc = "synced" /\ tx[t].id = i
      BY <1>5
    <2>2. Live(i) /\ (ForUpdates(t, i) \/ NoKeyUpdates(t, i))
      BY <2>1 DEF KeyInv, LocksHold, ForUpdates, NoKeyUpdates
    <2>3. ASSUME NEW s \in Requests, tx[s].pc = "deleted", tx[s].id = i
          PROVE  FALSE
      <3>1. ForUpdates(s, i) /\ s # t
        BY <2>1, <2>3 DEF ForUpdates
      <3> QED
        BY <2>2, <3>1 DEF KeyInv, LocksHold
    <2>4. ~Deleting(i)
      BY <2>3 DEF Deleting
    <2> QED
      BY <1>4, <2>2, <2>4
  <1> QED
    BY <1>3, <1>4, <1>5 DEF Due

LEMMA ExportInit == Init => ExportInv
  BY DEF Init, Idle, ExportInv, Due, Live

\* No step makes a directory served otherwise than who decides it wants.
LEMMA ExportStep ==
    TypeOK /\ KeyInv /\ HomeAll /\ ExportInv /\ [Next]_vars => ExportInv'
  <1>0. TypeOK /\ [Next]_vars /\ Whole' => Whole
    BY TornGrows DEF Whole
  <1> SUFFICES ASSUME TypeOK, KeyInv, HomeAll, ExportInv, [Next]_vars, Whole',
                      NEW i \in Ids, NEW p \in Paths, NEW vis \in Visibility,
                      Due(i, p, vis)'
               PROVE  \/ Due(i, p, vis) /\ disk'[p].export = disk[p].export
                      \/ disk'[p].export = Exported(vis)
    BY <1>0 DEF ExportInv, Whole
  <1>1. Whole
    BY <1>0
  <1>2. ASSUME UNCHANGED <<repo, disk>>,
               \A s \in Requests :
                 /\ tx'[s].pc \in {"built", "synced"} => tx'[s] = tx[s]
                 /\ \A j \in Ids : /\ Moving(s, j) => Moving(s, j)'
                                   /\ Touching(s, j) => Touching(s, j)',
               \A j \in Ids : Deleting(j) => Deleting(j)'
        PROVE  Due(i, p, vis) /\ disk'[p].export = disk[p].export
    BY <1>2, DueFrame
  <1>3. CASE UNCHANGED vars
    <2>1. UNCHANGED <<repo, disk, tx>>
      BY <1>3 DEF vars, db, fs
    <2> QED
      BY <1>2, <2>1 DEF Moving, Renames, Touching, Deleting
  <1>4. ASSUME NEW t \in Requests, Begin(t)
        PROVE  Due(i, p, vis) /\ disk'[p].export = disk[p].export
    <2>1. /\ UNCHANGED <<repo, disk>>
          /\ tx[t].pc = "idle" /\ tx'[t].pc \in {"init", "lock", "sync", "deleted"}
          /\ \A s \in Requests \ {t} : tx'[s] = tx[s]
      <3>1. CASE \E q \in Paths, v \in Visibility : CreateInsert(t, q, v)
        BY <3>1 DEF CreateInsert, TypeOK, fs
      <3>2. CASE \E j \in Ids, v \in Visibility \cup {"KEEP"} : Touch(t, j, v)
        BY <3>2 DEF Touch, TypeOK, db, fs
      <3>3. CASE \E j \in Ids, v \in Visibility \cup {"KEEP"}, q \in Paths :
                    RenameRead(t, j, q, v)
        BY <3>3 DEF RenameRead, TypeOK, db, fs
      <3>4. CASE \E j \in Ids : DeleteRow(t, j)
        BY <3>4 DEF DeleteRow, Idle, TypeOK, db
      <3> QED
        BY <1>4, <3>1, <3>2, <3>3, <3>4 DEF Begin
    <2> QED
      BY <1>2, <2>1 DEF Moving, Renames, Touching, Deleting
  <1>5. ASSUME NEW t \in Requests,
               \/ CreateExists(t) \/ RenameFails(t)
               \/ UpdateTaken(t) \/ DeadlockVictim(t) \/ SyncRefused(t)
               \/ RenameLock(t) /\ ~Live(tx[t].id)
               \/ Abort(t) /\ tx[t].pc # "built"
        PROVE  Due(i, p, vis) /\ disk'[p].export = disk[p].export
    <2>1. End(t) /\ UNCHANGED <<repo, disk>>
      BY <1>5 DEF CreateExists, RenameFails, UpdateTaken, DeadlockVictim,
                  SyncRefused, RenameLock, Abort, db, fs
    <2>2. Harm(t) = {} \/ Harm(t) \subseteq torn'
      BY <1>5 DEF CreateExists, RenameFails, UpdateTaken, DeadlockVictim,
                  SyncRefused, RenameLock, Abort, Harm
    <2>3. Harm(t) \subseteq {"stranded", "unsynced", "removed"}
      BY DEF Harm
    <2>4. Harm(t) = {}
      BY <2>2, <2>3 DEF Whole
    <2> QED
      BY <2>1, <2>4, EndDue
  <1>6. ASSUME NEW t \in Requests,
               \/ CreateRefused(t) \/ UpdateRow(t)
               \/ RenameLock(t) /\ Live(tx[t].id)
               \/ Abort(t) /\ tx[t].pc = "built"
        PROVE  Due(i, p, vis) /\ disk'[p].export = disk[p].export
    <2>1. UNCHANGED <<repo, disk>>
      BY <1>6 DEF CreateRefused, UpdateRow, RenameLock, Abort, db, fs
    <2>2. /\ tx'[t].id = tx[t].id /\ tx'[t].from = tx[t].from
          /\ \A s \in Requests \ {t} : tx'[s] = tx[s]
          /\ \/ tx[t].pc = "built" /\ tx'[t].pc = "undo"
             \/ tx[t].pc = "update" /\ tx'[t].pc = "sync"
             \/ tx[t].pc = "lock" /\ tx'[t].pc = "move"
      BY <1>6 DEF CreateRefused, UpdateRow, RenameLock, Abort, Goto, TypeOK, Tx
    <2> QED
      BY <1>2, <2>1, <2>2 DEF Moving, Renames, Touching, Deleting
  <1>7. ASSUME NEW t \in Requests,
               CreateCommit(t) \/ UpdateCommit(t) \/ DeleteCommit(t)
        PROVE  Due(i, p, vis) /\ disk'[p].export = disk[p].export
    <2>1. disk' = disk
      BY <1>7 DEF CreateCommit, UpdateCommit, DeleteCommit, fs
    <2> QED
      BY <1>1, <1>7, <2>1, CommitDue
  <1>8. ASSUME NEW q \in Paths, Reap(q) \/ RemoveHalf(q)
        PROVE  Due(i, p, vis) /\ disk'[p].export = disk[p].export
    <2>1. UNCHANGED <<repo, tx>>
      BY <1>8 DEF Reap, RemoveHalf, db
    <2>2. Due(i, p, vis)
      BY <2>1, DueFrame DEF Moving, Renames, Touching, Deleting
    <2>3. CASE Reap(q)
      BY <1>1, <2>2, <2>3, ReapExport
    <2>4. CASE RemoveHalf(q)
      BY <2>2, <2>4 DEF RemoveHalf, TypeOK, Dir
    <2> QED
      BY <1>8, <2>3, <2>4
  <1>9. CASE Crash
    BY <1>1, <1>9, CrashDue DEF Crash
  <1> QED
    BY <1>1, <1>3, <1>4, <1>5, <1>6, <1>7, <1>8, <1>9, CreateInitExport,
       CreateUndoExport, RenameMoveExport, SyncExportExport DEF Next, Step

\* Until torn, a directory is served as its creation, its update in hand or else
\* its row says.
THEOREM ExportCorrect == Spec => []ExportInv
  <1> QED
    BY KeyInit, KeyStep, NameInit, NameStep, DirInit, DirStep, HomeInit,
       HomeStep, ExportInit, ExportStep, PTL DEF Spec

\* Unless torn, the directory of a repository no request is working on may be
\* served by git-daemon exactly when its row does not say it is private.
THEOREM ExportsFollowVisibility == Spec => []ExportFollowsVisibility
  <1>1. TypeOK /\ ExportInv => ExportFollowsVisibility
    <2> SUFFICES ASSUME TypeOK, ExportInv, Whole, NEW i \in Ids, Live(i),
                        \A t \in Requests : tx[t].id # i
                 PROVE  disk[repo[i].path].export = Exported(repo[i].vis)
      BY DEF ExportFollowsVisibility, Whole
    <2>1. repo[i].path \in Paths /\ repo[i].vis \in Visibility
          /\ repo[i] = [path |-> repo[i].path, vis |-> repo[i].vis]
      BY DEF TypeOK, Row, Live
    <2>2. Due(i, repo[i].path, repo[i].vis)
      BY <2>1 DEF Due, Touching, Moving, Deleting
    <2> QED
      BY <2>1, <2>2 DEF ExportInv, Whole
  <1> QED
    BY <1>1, TypeCorrect, ExportCorrect, PTL
=============================================================================
