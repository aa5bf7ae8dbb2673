-------------------------- MODULE RepoStoreProofs --------------------------
EXTENDS RepoStore, TLAPS

\* An idle request is a request.
LEMMA IdleTx == Idle \in Tx
  BY DEF Idle, Tx

\* Before the first request no key is in use or pending.
LEMMA KeyInit == Init => TypeOK /\ KeyInv
  <1>1. Init => TypeOK
    BY IdleTx DEF Init, TypeOK
  <1>2. Init => KeyInv
    BY NoneAssumption DEF Init, KeyInv, LocksHold, RequestsShaped, IdsFresh,
       KeysPending, KeysUnique, Live, Creating, Updating, Renames, ForUpdates,
       KeyShares, NoKeyUpdates, Idle
  <1> QED
    BY <1>1, <1>2

\* A request that gives up, nothing committed.
LEMMA EndKey ==
  ASSUME TypeOK, KeyInv, NEW t \in Requests, End(t), UNCHANGED <<repo, used>>
  PROVE  KeyInv' /\ tx' \in [Requests -> Tx]
  <1> USE DEF End, Live, Renames
  <1>1. tx' \in [Requests -> Tx] /\ tx'[t] = Idle
        /\ \A s \in Requests \ {t} : tx'[s] = tx[s]
    BY IdleTx DEF TypeOK
  <1>2. Idle.pc = "idle" /\ Idle.from = None /\ Idle.id = None
    BY DEF Idle
  <1>3. LocksHold'
    BY <1>1, <1>2 DEF KeyInv, LocksHold, ForUpdates, KeyShares, NoKeyUpdates, TypeOK
  <1>4. RequestsShaped'
    BY <1>1, <1>2 DEF KeyInv, RequestsShaped, Updating
  <1>5. IdsFresh'
    <2>1. \A s \in Requests \ {t} : Creating(s)' \/ tx'[s].pc = "undo" =>
             /\ tx'[s].id # None
             /\ repo'[tx'[s].id] = None
             /\ \A r \in Requests \ {s} : tx'[r].id # tx'[s].id
      BY <1>1, <1>2, NoneAssumption
         DEF KeyInv, IdsFresh, Creating, RequestsShaped
    <2>2. \A s \in Requests : tx'[s].id \in used' \cup {None}
      BY <1>1, <1>2 DEF KeyInv, IdsFresh
    <2> QED
      BY <1>1, <1>2, <2>1, <2>2 DEF KeyInv, IdsFresh, Creating
  <1>6. KeysPending'
    BY <1>1, <1>2 DEF KeyInv, KeysPending, Creating, Updating, InUse
  <1>7. KeysUnique'
    BY DEF KeyInv, KeysUnique
  <1> QED
    BY <1>1, <1>3, <1>4, <1>5, <1>6, <1>7 DEF KeyInv

\* A request that goes on to its next statement with the same locks and keys.
LEMMA GotoKey ==
  ASSUME TypeOK, KeyInv, NEW t \in Requests, NEW pc, Goto(t, pc),
         UNCHANGED <<repo, used>>,
         \/ tx[t].pc = "init" /\ pc = "built"
         \/ tx[t].pc = "built" /\ pc = "undo"
         \/ tx[t].pc = "move" /\ pc = "update"
         \/ tx[t].pc = "sync" /\ pc = "synced"
  PROVE  KeyInv' /\ tx' \in [Requests -> Tx]
  <1> USE DEF Goto, Live, Renames
  <1>1. tx' \in [Requests -> Tx]
    BY DEF TypeOK, Tx
  <1>2. /\ tx'[t].pc = pc /\ tx'[t].id = tx[t].id /\ tx'[t].from = tx[t].from
        /\ tx'[t].to = tx[t].to /\ tx'[t].vis = tx[t].vis
        /\ \A s \in Requests \ {t} : tx'[s] = tx[s]
    BY DEF TypeOK, Tx
  <1> HIDE DEF Goto
  <1>3. LocksHold'
    <2>1. \A s \in Requests, i \in Ids :
             /\ ForUpdates(s, i)' => ForUpdates(s, i)
             /\ KeyShares(s, i)' => KeyShares(s, i)
             /\ NoKeyUpdates(s, i)' => NoKeyUpdates(s, i)
      BY <1>2 DEF ForUpdates, KeyShares, NoKeyUpdates
    <2>2. \A s \in Requests :
            tx'[s].pc \in {"move", "update", "sync", "synced", "deleted"} =>
              tx'[s].id \in Ids /\ repo'[tx'[s].id] # None
      BY <1>2 DEF KeyInv, LocksHold
    <2> QED
      BY <2>1, <2>2 DEF KeyInv, LocksHold
  <1>4. RequestsShaped'
    BY <1>2 DEF KeyInv, RequestsShaped, Updating
  <1>5. IdsFresh'
    <2>1. \A s \in Requests : tx'[s].id = tx[s].id
      BY <1>2
    <2>2. \A s \in Requests : Creating(s)' \/ tx'[s].pc = "undo" =>
                              Creating(s) \/ tx[s].pc = "undo"
      BY <1>2 DEF Creating
    <2> QED
      BY <2>1, <2>2 DEF KeyInv, IdsFresh
  <1>6. KeysPending'
    <2>1. \A s \in Requests : /\ tx'[s].id = tx[s].id
                              /\ tx'[s].to = tx[s].to
                              /\ tx'[s].from = tx[s].from
      BY <1>2
    <2>2. \A s \in Requests : /\ Creating(s)' => Creating(s)
                              /\ Updating(s)' => Updating(s)
      BY <1>2 DEF Creating, Updating
    <2> QED
      BY <2>1, <2>2 DEF KeyInv, KeysPending, InUse
  <1>7. KeysUnique'
    BY DEF KeyInv, KeysUnique
  <1> QED
    BY <1>1, <1>3, <1>4, <1>5, <1>6, <1>7 DEF KeyInv

LEMMA CreateInsertKey ==
  ASSUME TypeOK, KeyInv, NEW t \in Requests, NEW p \in Paths,
         NEW vis \in Visibility, CreateInsert(t, p, vis)
  PROVE  TypeOK' /\ KeyInv'
  <1> USE DEF Live, Renames
  <1>1. PICK i \in Ids \ used :
          /\ used' = used \cup {i}
          /\ tx' = [tx EXCEPT ![t] = [pc |-> "init", id |-> i, from |-> None,
                                     to |-> p, vis |-> vis]]
    BY DEF CreateInsert
  <1>2. /\ tx'[t] = [pc |-> "init", id |-> i, from |-> None,
                     to |-> p, vis |-> vis]
        /\ \A s \in Requests \ {t} : tx'[s] = tx[s]
        /\ tx' \in [Requests -> Tx]
    BY <1>1 DEF TypeOK, Tx
  <1>3. /\ tx[t].pc = "idle" /\ ~InUse(p) /\ ~Claimed(t, p)
        /\ UNCHANGED <<repo, redirect, disk, reapers, held, torn>>
    BY DEF CreateInsert, fs
  <1>4. TypeOK'
    BY <1>1, <1>2, <1>3 DEF TypeOK
  <1>5. \A s \in Requests : tx[s].id # i
    BY <1>1, NoneAssumption DEF KeyInv, IdsFresh
  <1>6. vis # "KEEP"
    BY VisibilityAssumption
  <1>7. LocksHold'
    <2>1. \A s \in Requests, j \in Ids :
             /\ ForUpdates(s, j)' => s # t /\ ForUpdates(s, j)
             /\ KeyShares(s, j)' => s # t /\ KeyShares(s, j)
             /\ NoKeyUpdates(s, j)' => s # t /\ NoKeyUpdates(s, j)
      BY <1>2 DEF ForUpdates, KeyShares, NoKeyUpdates
    <2>2. \A s \in Requests :
            tx'[s].pc \in {"move", "update", "sync", "synced", "deleted"} =>
              tx'[s].id \in Ids /\ repo'[tx'[s].id] # None
      BY <1>2, <1>3 DEF KeyInv, LocksHold
    <2> QED
      BY <2>1, <2>2 DEF KeyInv, LocksHold
  <1>8. RequestsShaped'
    BY <1>2, <1>6 DEF KeyInv, RequestsShaped, Updating
  <1>9. IdsFresh'
    BY <1>1, <1>2, <1>3, <1>5 DEF KeyInv, IdsFresh, Creating
  <1>10. KeysPending'
    <2>1. \A s \in Requests \ {t} :
            Creating(s) \/ Updating(s) => tx[s].to # p
      BY <1>3 DEF Claimed, Claims, Creating, Updating
    <2>2. KeysPending /\ KeysUnique
      BY DEF KeyInv
    <2>3. \A q \in Paths : InUse(q)' = InUse(q)
      BY <1>3 DEF InUse
    <2>4. \A s \in Requests \ {t} :
            /\ Creating(s)' = Creating(s)
            /\ Updating(s)' = Updating(s)
      BY <1>2 DEF Creating, Updating
    <2>5. ~Updating(t)'
      BY <1>2 DEF Updating
    <2> QED
      BY <1>2, <1>3, <2>1, <2>2, <2>4, <2>5 DEF KeysPending, InUse
  <1>11. KeysUnique'
    BY <1>3 DEF KeyInv, KeysUnique
  <1> QED
    BY <1>4, <1>7, <1>8, <1>9, <1>10, <1>11 DEF KeyInv

LEMMA CreateCommitKey ==
  ASSUME TypeOK, KeyInv, NEW t \in Requests, CreateCommit(t)
  PROVE  TypeOK' /\ KeyInv'
  <1> USE DEF Live, Renames
  <1> DEFINE i == tx[t].id
             p == tx[t].to
  <1>1. /\ tx[t].pc = "built" /\ Creating(t)
        /\ i \in Ids /\ p \in Paths /\ tx[t].vis \in Visibility
        /\ repo[i] = None
        /\ \A s \in Requests \ {t} : tx[s].id # i
        /\ ~InUse(p)
    BY DEF CreateCommit, KeyInv, RequestsShaped, IdsFresh, KeysPending,
           Creating, TypeOK, Tx
  <1>2. /\ tx'[t] = Idle
        /\ \A s \in Requests \ {t} : tx'[s] = tx[s]
        /\ tx' \in [Requests -> Tx]
    BY IdleTx DEF CreateCommit, End, TypeOK
  <1>3. /\ repo'[i] = [path |-> p, vis |-> tx[t].vis]
        /\ \A j \in Ids \ {i} : repo'[j] = repo[j]
        /\ repo' \in [Ids -> Row \cup {None}]
        /\ repo'[i] # None
        /\ used' = used
    BY <1>1, NoneAssumption DEF CreateCommit, TypeOK, Row
  <1>4. TypeOK'
    BY <1>1, <1>2, <1>3 DEF CreateCommit, TypeOK, Entry, fs
  <1>5. Idle.pc = "idle" /\ Idle.from = None /\ Idle.id = None
    BY DEF Idle
  <1>6. LocksHold'
    <2>1. \A s \in Requests, j \in Ids :
             /\ ForUpdates(s, j)' => ForUpdates(s, j)
             /\ KeyShares(s, j)' => KeyShares(s, j)
             /\ NoKeyUpdates(s, j)' => NoKeyUpdates(s, j)
      BY <1>2, <1>5 DEF ForUpdates, KeyShares, NoKeyUpdates
    <2>2. \A s \in Requests :
            tx'[s].pc \in {"move", "update", "sync", "synced", "deleted"} =>
              tx'[s].id \in Ids /\ repo'[tx'[s].id] # None
      BY <1>2, <1>3, <1>5 DEF KeyInv, LocksHold
    <2> QED
      BY <2>1, <2>2 DEF KeyInv, LocksHold
  <1>7. RequestsShaped'
    BY <1>2, <1>5 DEF KeyInv, RequestsShaped, Updating
  <1>8. IdsFresh'
    <2>1. i \in used
      BY <1>1, NoneAssumption DEF KeyInv, IdsFresh
    <2>2. \A s \in Requests \ {t} : Creating(s) \/ tx[s].pc = "undo" =>
             /\ tx[s].id # None /\ tx[s].id \in Ids \ {i}
             /\ repo[tx[s].id] = None
             /\ \A r \in Requests \ {s} : tx'[r].id # tx[s].id
      BY <1>1, <1>2, <1>5, NoneAssumption
         DEF KeyInv, IdsFresh, RequestsShaped, Creating
    <2> QED
      BY <1>2, <1>3, <1>5, <2>1, <2>2 DEF KeyInv, IdsFresh, Creating
  <1>9. KeysPending'
    <2>1. \A s \in Requests \ {t} :
            Creating(s) \/ Updating(s) => tx[s].to # p
      BY <1>1 DEF KeyInv, KeysPending
    <2>2. \A s \in Requests \ {t} :
            /\ Creating(s)' = Creating(s)
            /\ Updating(s)' = Updating(s)
      BY <1>2 DEF Creating, Updating
    <2>3. ~Updating(t)' /\ ~Creating(t)'
      BY <1>2, <1>5 DEF Updating, Creating
    <2>4. \A s \in Requests \ {t} : Updating(s) => tx[s].id \in Ids \ {i}
      BY <1>1 DEF KeyInv, RequestsShaped
    <2>5. \A j \in Ids : repo'[j] # None =>
            \/ j = i /\ repo'[j].path = p
            \/ j # i /\ repo'[j] = repo[j]
      BY <1>3
    <2> QED
      BY <1>2, <1>3, <2>1, <2>2, <2>3, <2>4, <2>5
         DEF KeyInv, KeysPending, InUse
  <1>10. KeysUnique'
    BY <1>1, <1>3 DEF KeyInv, KeysUnique, InUse
  <1> QED
    BY <1>4, <1>6, <1>7, <1>8, <1>9, <1>10 DEF KeyInv

LEMMA RenameReadKey ==
  ASSUME TypeOK, KeyInv, NEW t \in Requests, NEW i \in Ids, NEW p \in Paths,
         NEW vis \in Visibility \cup {"KEEP"}, RenameRead(t, i, p, vis)
  PROVE  TypeOK' /\ KeyInv'
  <1> USE DEF Live, Renames
  <1>1. tx[t].pc = "idle" /\ repo[i] # None /\ repo[i].path \in Paths
    BY DEF RenameRead, TypeOK, Row
  <1>2. /\ tx'[t] = [pc |-> "lock", id |-> i, from |-> repo[i].path,
                     to |-> p, vis |-> vis]
        /\ \A s \in Requests \ {t} : tx'[s] = tx[s]
        /\ tx' \in [Requests -> Tx]
    BY <1>1 DEF RenameRead, TypeOK, Tx
  <1>3. UNCHANGED <<repo, redirect, used, disk, reapers, held, torn>>
    BY DEF RenameRead, db, fs
  <1>4. TypeOK'
    BY <1>2, <1>3 DEF TypeOK
  <1>5. LocksHold'
    <2>1. \A s \in Requests, j \in Ids :
             /\ ForUpdates(s, j)' => ForUpdates(s, j)
             /\ KeyShares(s, j)' => KeyShares(s, j)
             /\ NoKeyUpdates(s, j)' => NoKeyUpdates(s, j)
      BY <1>2 DEF ForUpdates, KeyShares, NoKeyUpdates
    <2>2. \A s \in Requests :
            tx'[s].pc \in {"move", "update", "sync", "synced", "deleted"} =>
              tx'[s].id \in Ids /\ repo'[tx'[s].id] # None
      BY <1>2, <1>3 DEF KeyInv, LocksHold
    <2> QED
      BY <2>1, <2>2 DEF KeyInv, LocksHold
  <1>6. RequestsShaped'
    BY <1>1, <1>2 DEF KeyInv, RequestsShaped, Updating
  <1>7. IdsFresh'
    <2>1. i \in used
      BY <1>1 DEF KeyInv, IdsFresh
    <2>2. \A s \in Requests \ {t} :
            Creating(s) \/ tx[s].pc = "undo" => tx[s].id # i
      BY <1>1 DEF KeyInv, IdsFresh
    <2> QED
      BY <1>2, <1>3, <2>1, <2>2 DEF KeyInv, IdsFresh, Creating
  <1>8. KeysPending'
    BY <1>2, <1>3 DEF KeyInv, KeysPending, Creating, Updating, InUse
  <1>9. KeysUnique'
    BY <1>3 DEF KeyInv, KeysUnique
  <1> QED
    BY <1>4, <1>5, <1>6, <1>7, <1>8, <1>9 DEF KeyInv

LEMMA RenameLockKey ==
  ASSUME TypeOK, KeyInv, NEW t \in Requests, RenameLock(t)
  PROVE  TypeOK' /\ KeyInv'
  <1> USE DEF Live, Renames
  <1>1. UNCHANGED <<repo, redirect, used, disk, reapers, held, torn>>
    BY DEF RenameLock, db, fs
  <1>2. CASE ~Live(tx[t].id)
    BY <1>1, <1>2, EndKey DEF RenameLock, TypeOK
  <1>3. CASE Live(tx[t].id)
    <2>1. /\ tx[t].pc = "lock" /\ tx[t].id \in Ids
          /\ CanKeyShare(t, tx[t].id)
      BY DEF RenameLock, KeyInv, RequestsShaped
    <2>2. /\ tx' \in [Requests -> Tx]
          /\ tx'[t].pc = "move" /\ tx'[t].id = tx[t].id
          /\ tx'[t].from = tx[t].from /\ tx'[t].to = tx[t].to
          /\ tx'[t].vis = tx[t].vis
          /\ \A s \in Requests \ {t} : tx'[s] = tx[s]
      BY <1>3 DEF RenameLock, Goto, TypeOK, Tx
    <2>3. TypeOK'
      BY <1>1, <2>2 DEF TypeOK
    <2>4. LocksHold'
      <3>1. \A s \in Requests, i \in Ids :
               /\ ForUpdates(s, i)' => s # t /\ ForUpdates(s, i)
               /\ KeyShares(s, i)' => KeyShares(s, i) \/ (s = t /\ i = tx[t].id)
               /\ NoKeyUpdates(s, i)' => s # t /\ NoKeyUpdates(s, i)
        BY <2>2 DEF ForUpdates, KeyShares, NoKeyUpdates
      <3>2. \A s \in Requests :
              tx'[s].pc \in {"move", "update", "sync", "synced", "deleted"} =>
                tx'[s].id \in Ids /\ repo'[tx'[s].id] # None
        BY <1>1, <1>3, <2>1, <2>2 DEF KeyInv, LocksHold
      <3> QED
        BY <2>1, <3>1, <3>2 DEF KeyInv, LocksHold, CanKeyShare
    <2>5. RequestsShaped'
      BY <2>1, <2>2 DEF KeyInv, RequestsShaped, Updating
    <2>6. IdsFresh'
      BY <1>1, <2>1, <2>2 DEF KeyInv, IdsFresh, Creating
    <2>7. KeysPending'
      BY <1>1, <2>1, <2>2 DEF KeyInv, KeysPending, Creating, Updating, InUse
    <2>8. KeysUnique'
      BY <1>1 DEF KeyInv, KeysUnique
    <2> QED
      BY <2>3, <2>4, <2>5, <2>6, <2>7, <2>8 DEF KeyInv
  <1> QED
    BY <1>2, <1>3

LEMMA UpdateRowKey ==
  ASSUME TypeOK, KeyInv, NEW t \in Requests, UpdateRow(t)
  PROVE  TypeOK' /\ KeyInv'
  <1> USE DEF Live, Renames
  <1> DEFINE i == tx[t].id
  <1>1. /\ tx[t].pc = "update" /\ i \in Ids /\ repo[i] # None
        /\ tx[t].from \in Paths /\ tx[t].from # None /\ tx[t].to \in Paths
        /\ repo[i].vis \in Visibility
        /\ CanForUpdate(t, i) /\ ~Claimed(t, tx[t].to)
        /\ \A j \in Ids \ {i} : repo[j] # None => repo[j].path # tx[t].to
    BY NoneAssumption DEF UpdateRow, KeyInv, LocksHold, RequestsShaped,
                          TypeOK, Row
  <1>2. /\ tx' \in [Requests -> Tx]
        /\ tx'[t].pc = "sync" /\ tx'[t].id = i
        /\ tx'[t].from = tx[t].from /\ tx'[t].to = tx[t].to
        /\ tx'[t].vis # "KEEP"
        /\ \A s \in Requests \ {t} : tx'[s] = tx[s]
    <2> DEFINE v == IF tx[t].vis = "KEEP" THEN repo[i].vis ELSE tx[t].vis
    <2>1. tx[t] \in Tx
      BY DEF TypeOK
    <2>2. v \in Visibility /\ v # "KEEP"
      BY <1>1, <2>1, VisibilityAssumption DEF Tx
    <2>3. tx' = [tx EXCEPT ![t] = [tx[t] EXCEPT !.pc = "sync", !.vis = v]]
      BY DEF UpdateRow
    <2> HIDE DEF v
    <2>4. PICK new : new = [tx[t] EXCEPT !.pc = "sync", !.vis = v]
      OBVIOUS
    <2>5. /\ new.pc = "sync" /\ new.id = i /\ new.vis = v
          /\ new.from = tx[t].from /\ new.to = tx[t].to
      BY <2>1, <2>4 DEF Tx
    <2>6. new \in Tx
      BY <2>1, <2>2, <2>4 DEF Tx
    <2>7. tx' = [tx EXCEPT ![t] = new]
      BY <2>3, <2>4
    <2>8. tx' \in [Requests -> Tx] /\ tx'[t] = new
          /\ \A s \in Requests \ {t} : tx'[s] = tx[s]
      BY <2>7, <2>6 DEF TypeOK
    <2> QED
      BY <2>2, <2>8, <2>5
  <1>3. UNCHANGED <<repo, redirect, used, disk, reapers, held, torn>>
    BY DEF UpdateRow, db, fs
  <1>4. TypeOK'
    BY <1>2, <1>3 DEF TypeOK
  <1>5. LocksHold'
    <2>1. \A s \in Requests, j \in Ids :
             /\ ForUpdates(s, j)' => ForUpdates(s, j) \/ (s = t /\ j = i)
             /\ KeyShares(s, j)' => s # t /\ KeyShares(s, j)
             /\ NoKeyUpdates(s, j)' => s # t /\ NoKeyUpdates(s, j)
      BY <1>1, <1>2 DEF ForUpdates, KeyShares, NoKeyUpdates
    <2>2. \A s \in Requests :
            tx'[s].pc \in {"move", "update", "sync", "synced", "deleted"} =>
              tx'[s].id \in Ids /\ repo'[tx'[s].id] # None
      BY <1>1, <1>2, <1>3 DEF KeyInv, LocksHold
    <2> QED
      BY <1>1, <2>1, <2>2 DEF KeyInv, LocksHold, CanForUpdate
  <1>6. RequestsShaped'
    BY <1>1, <1>2 DEF KeyInv, RequestsShaped, Updating
  <1>7. IdsFresh'
    BY <1>1, <1>2, <1>3 DEF KeyInv, IdsFresh, Creating
  <1>8. KeysPending'
    <2>1. \A s \in Requests \ {t} :
            Creating(s) \/ Updating(s) => tx[s].to # tx[t].to
      BY <1>1 DEF Claimed, Claims, Creating, Updating
    <2>2. /\ ~Creating(t)' /\ Updating(t)'
          /\ \A s \in Requests \ {t} : /\ Creating(s)' = Creating(s)
                                      /\ Updating(s)' = Updating(s)
      BY <1>2 DEF Creating, Updating
    <2> QED
      BY <1>1, <1>2, <1>3, <2>1, <2>2 DEF KeyInv, KeysPending, InUse
  <1>9. KeysUnique'
    BY <1>3 DEF KeyInv, KeysUnique
  <1> QED
    BY <1>4, <1>5, <1>6, <1>7, <1>8, <1>9 DEF KeyInv

LEMMA TouchKey ==
  ASSUME TypeOK, KeyInv, NEW t \in Requests, NEW i \in Ids,
         NEW vis \in Visibility \cup {"KEEP"}, Touch(t, i, vis)
  PROVE  TypeOK' /\ KeyInv'
  <1> USE DEF Live, Renames
  <1>1. /\ tx[t].pc = "idle" /\ repo[i] # None /\ repo[i].path \in Paths
        /\ repo[i].vis \in Visibility /\ CanNoKeyUpdate(t, i)
    BY DEF Touch, TypeOK, Row
  <1>2. /\ tx' \in [Requests -> Tx]
        /\ tx'[t].pc = "sync" /\ tx'[t].id = i
        /\ tx'[t].from = None /\ tx'[t].to = repo[i].path
        /\ tx'[t].vis # "KEEP"
        /\ \A s \in Requests \ {t} : tx'[s] = tx[s]
    BY <1>1, VisibilityAssumption DEF Touch, TypeOK, Tx
  <1>3. UNCHANGED <<repo, redirect, used, disk, reapers, held, torn>>
    BY DEF Touch, db, fs
  <1>4. TypeOK'
    BY <1>2, <1>3 DEF TypeOK
  <1>5. LocksHold'
    <2>1. \A s \in Requests, j \in Ids :
             /\ ForUpdates(s, j)' => s # t /\ ForUpdates(s, j)
             /\ KeyShares(s, j)' => s # t /\ KeyShares(s, j)
             /\ NoKeyUpdates(s, j)' => NoKeyUpdates(s, j) \/ (s = t /\ j = i)
      BY <1>2 DEF ForUpdates, KeyShares, NoKeyUpdates
    <2>2. \A s \in Requests :
            tx'[s].pc \in {"move", "update", "sync", "synced", "deleted"} =>
              tx'[s].id \in Ids /\ repo'[tx'[s].id] # None
      BY <1>1, <1>2, <1>3 DEF KeyInv, LocksHold
    <2> QED
      BY <1>1, <2>1, <2>2 DEF KeyInv, LocksHold, CanNoKeyUpdate
  <1>6. RequestsShaped'
    BY <1>1, <1>2 DEF KeyInv, RequestsShaped, Updating
  <1>7. IdsFresh'
    <2>1. i \in used
      BY <1>1 DEF KeyInv, IdsFresh
    <2>2. \A s \in Requests \ {t} :
            Creating(s) \/ tx[s].pc = "undo" => tx[s].id # i
      BY <1>1 DEF KeyInv, IdsFresh
    <2> QED
      BY <1>2, <1>3, <2>1, <2>2 DEF KeyInv, IdsFresh, Creating
  <1>8. KeysPending'
    <2>1. \A s \in Requests \ {t} : Creating(s) => tx[s].to # repo[i].path
      BY <1>1 DEF KeyInv, KeysPending, InUse
    <2>2. \A s \in Requests \ {t} : Updating(s) => tx[s].to # repo[i].path
      <3> SUFFICES ASSUME NEW s \in Requests \ {t}, Updating(s)
                   PROVE  tx[s].to # repo[i].path
        OBVIOUS
      <3>1. tx[s].id # i
        BY <1>1 DEF CanNoKeyUpdate, ForUpdates, NoKeyUpdates, Updating
      <3> QED
        BY <1>1, <3>1 DEF KeyInv, KeysPending
    <2>3. /\ ~Creating(t)' /\ Updating(t)'
          /\ \A s \in Requests \ {t} : /\ Creating(s)' = Creating(s)
                                      /\ Updating(s)' = Updating(s)
      BY <1>2 DEF Creating, Updating
    <2>4. \A j \in Ids \ {i} : repo[j] # None => repo[j].path # repo[i].path
      BY <1>1 DEF KeyInv, KeysUnique
    <2> QED
      BY <1>1, <1>2, <1>3, <2>1, <2>2, <2>3, <2>4
         DEF KeyInv, KeysPending, InUse
  <1>9. KeysUnique'
    BY <1>3 DEF KeyInv, KeysUnique
  <1> QED
    BY <1>4, <1>5, <1>6, <1>7, <1>8, <1>9 DEF KeyInv

LEMMA UpdateCommitKey ==
  ASSUME TypeOK, KeyInv, NEW t \in Requests, UpdateCommit(t)
  PROVE  TypeOK' /\ KeyInv'
  <1> USE DEF Live, Renames
  <1> DEFINE i == tx[t].id
             p == tx[t].to
  <1>1. /\ tx[t].pc = "synced" /\ Updating(t)
        /\ i \in Ids /\ p \in Paths /\ tx[t].vis \in Visibility
        /\ tx[t].from \in Paths \cup {None}
        /\ repo[i] # None
    BY DEF UpdateCommit, KeyInv, LocksHold, RequestsShaped, Updating,
           TypeOK, Tx
  <1>2. /\ tx'[t] = Idle
        /\ \A s \in Requests \ {t} : tx'[s] = tx[s]
        /\ tx' \in [Requests -> Tx]
    BY IdleTx DEF UpdateCommit, End, TypeOK
  <1>3. /\ repo'[i] = [path |-> p, vis |-> tx[t].vis]
        /\ \A j \in Ids \ {i} : repo'[j] = repo[j]
        /\ repo' \in [Ids -> Row \cup {None}]
        /\ repo'[i] # None
        /\ used' = used
    BY <1>1, NoneAssumption DEF UpdateCommit, TypeOK, Row
  <1>4. TypeOK'
    <2>1. redirect' \subseteq Entry /\ held' \subseteq Entry
      BY <1>1 DEF UpdateCommit, TypeOK, Entry
    <2> QED
      BY <1>2, <1>3, <2>1 DEF UpdateCommit, TypeOK, fs
  <1>5. Idle.pc = "idle" /\ Idle.from = None /\ Idle.id = None
    BY DEF Idle
  <1>6. LocksHold'
    <2>1. \A s \in Requests, j \in Ids :
             /\ ForUpdates(s, j)' => ForUpdates(s, j)
             /\ KeyShares(s, j)' => KeyShares(s, j)
             /\ NoKeyUpdates(s, j)' => NoKeyUpdates(s, j)
      BY <1>2, <1>5 DEF ForUpdates, KeyShares, NoKeyUpdates
    <2>2. \A s \in Requests :
            tx'[s].pc \in {"move", "update", "sync", "synced", "deleted"} =>
              tx'[s].id \in Ids /\ repo'[tx'[s].id] # None
      BY <1>2, <1>3, <1>5 DEF KeyInv, LocksHold
    <2> QED
      BY <2>1, <2>2 DEF KeyInv, LocksHold
  <1>7. RequestsShaped'
    BY <1>2, <1>5 DEF KeyInv, RequestsShaped, Updating
  <1>8. IdsFresh'
    <2>1. i \in used
      BY <1>1 DEF KeyInv, IdsFresh
    <2>2. \A s \in Requests \ {t} : Creating(s) \/ tx[s].pc = "undo" =>
             /\ tx[s].id # None /\ tx[s].id \in Ids \ {i}
             /\ repo[tx[s].id] = None
             /\ \A r \in Requests \ {s} : tx'[r].id # tx[s].id
      BY <1>1, <1>2, <1>5, NoneAssumption
         DEF KeyInv, IdsFresh, RequestsShaped, Creating
    <2> QED
      BY <1>2, <1>3, <1>5, <2>1, <2>2 DEF KeyInv, IdsFresh, Creating
  <1>9. KeysPending'
    <2>1. \A s \in Requests \ {t} :
            Creating(s) \/ Updating(s) => tx[s].to # p
      BY <1>1 DEF KeyInv, KeysPending
    <2>2. \A s \in Requests \ {t} :
            /\ Creating(s)' = Creating(s)
            /\ Updating(s)' = Updating(s)
      BY <1>2 DEF Creating, Updating
    <2>3. ~Updating(t)' /\ ~Creating(t)'
      BY <1>2, <1>5 DEF Updating, Creating
    <2>4. \A s \in Requests \ {t} : Updating(s) => tx[s].id \in Ids \ {i}
      BY <1>1 DEF KeyInv, LocksHold, RequestsShaped, Updating, ForUpdates,
                  NoKeyUpdates
    <2>5. \A j \in Ids : repo'[j] # None =>
            \/ j = i /\ repo'[j].path = p
            \/ j # i /\ repo'[j] = repo[j]
      BY <1>3
    <2> QED
      BY <1>2, <1>3, <2>1, <2>2, <2>3, <2>4, <2>5
         DEF KeyInv, KeysPending, InUse
  <1>10. KeysUnique'
    BY <1>1, <1>3 DEF KeyInv, KeysUnique, KeysPending
  <1> QED
    BY <1>4, <1>6, <1>7, <1>8, <1>9, <1>10 DEF KeyInv

LEMMA DeleteRowKey ==
  ASSUME TypeOK, KeyInv, NEW t \in Requests, NEW i \in Ids, DeleteRow(t, i)
  PROVE  TypeOK' /\ KeyInv'
  <1> USE DEF Live, Renames
  <1>1. /\ tx[t].pc = "idle" /\ repo[i] # None /\ repo[i].path \in Paths
        /\ CanForUpdate(t, i)
    BY DEF DeleteRow, TypeOK, Row
  <1>2. /\ tx' \in [Requests -> Tx]
        /\ tx'[t].pc = "deleted" /\ tx'[t].id = i /\ tx'[t].from = None
        /\ \A s \in Requests \ {t} : tx'[s] = tx[s]
    BY <1>1 DEF DeleteRow, TypeOK, Tx, Idle
  <1>3. UNCHANGED <<repo, redirect, used, disk, held, torn>>
    BY DEF DeleteRow, db
  <1>4. TypeOK'
    <2>1. reapers' \in [Paths -> Nat]
      BY <1>1 DEF DeleteRow, TypeOK
    <2> QED
      BY <1>2, <1>3, <2>1 DEF TypeOK
  <1>5. LocksHold'
    <2>1. \A s \in Requests, j \in Ids :
             /\ ForUpdates(s, j)' => ForUpdates(s, j) \/ (s = t /\ j = i)
             /\ KeyShares(s, j)' => s # t /\ KeyShares(s, j)
             /\ NoKeyUpdates(s, j)' => s # t /\ NoKeyUpdates(s, j)
      BY <1>2 DEF ForUpdates, KeyShares, NoKeyUpdates
    <2>2. \A s \in Requests :
            tx'[s].pc \in {"move", "update", "sync", "synced", "deleted"} =>
              tx'[s].id \in Ids /\ repo'[tx'[s].id] # None
      BY <1>1, <1>2, <1>3 DEF KeyInv, LocksHold
    <2> QED
      BY <1>1, <2>1, <2>2 DEF KeyInv, LocksHold, CanForUpdate
  <1>6. RequestsShaped'
    BY <1>1, <1>2 DEF KeyInv, RequestsShaped, Updating
  <1>7. IdsFresh'
    <2>1. i \in used
      BY <1>1 DEF KeyInv, IdsFresh
    <2>2. \A s \in Requests \ {t} :
            Creating(s) \/ tx[s].pc = "undo" => tx[s].id # i
      BY <1>1 DEF KeyInv, IdsFresh
    <2> QED
      BY <1>2, <1>3, <2>1, <2>2 DEF KeyInv, IdsFresh, Creating
  <1>8. KeysPending'
    BY <1>2, <1>3 DEF KeyInv, KeysPending, Creating, Updating, InUse
  <1>9. KeysUnique'
    BY <1>3 DEF KeyInv, KeysUnique
  <1> QED
    BY <1>4, <1>5, <1>6, <1>7, <1>8, <1>9 DEF KeyInv

LEMMA DeleteCommitKey ==
  ASSUME TypeOK, KeyInv, NEW t \in Requests, DeleteCommit(t)
  PROVE  TypeOK' /\ KeyInv'
  <1> USE DEF Live, Renames
  <1> DEFINE i == tx[t].id
  <1>1. /\ tx[t].pc = "deleted" /\ i \in Ids /\ repo[i] # None
        /\ ForUpdates(t, i)
    BY DEF DeleteCommit, KeyInv, LocksHold, ForUpdates
  <1>2. /\ tx'[t] = Idle
        /\ \A s \in Requests \ {t} : tx'[s] = tx[s]
        /\ tx' \in [Requests -> Tx]
    BY IdleTx DEF DeleteCommit, End, TypeOK
  <1>3. /\ repo'[i] = None
        /\ \A j \in Ids \ {i} : repo'[j] = repo[j]
        /\ repo' \in [Ids -> Row \cup {None}]
        /\ used' = used
    BY <1>1 DEF DeleteCommit, TypeOK
  <1>4. TypeOK'
    BY <1>2, <1>3 DEF DeleteCommit, TypeOK, fs
  <1>5. Idle.pc = "idle" /\ Idle.from = None /\ Idle.id = None
    BY DEF Idle
  <1>6. LocksHold'
    <2>1. \A s \in Requests, j \in Ids :
             /\ ForUpdates(s, j)' => ForUpdates(s, j)
             /\ KeyShares(s, j)' => KeyShares(s, j)
             /\ NoKeyUpdates(s, j)' => NoKeyUpdates(s, j)
      BY <1>2, <1>5 DEF ForUpdates, KeyShares, NoKeyUpdates
    <2>2. \A s \in Requests \ {t} :
            tx[s].pc \in {"move", "update", "sync", "synced", "deleted"} =>
              tx[s].id \in Ids \ {i} /\ repo[tx[s].id] # None
      BY <1>1 DEF KeyInv, LocksHold, ForUpdates, KeyShares, NoKeyUpdates
    <2> QED
      BY <1>2, <1>3, <1>5, <2>1, <2>2 DEF KeyInv, LocksHold
  <1>7. RequestsShaped'
    BY <1>2, <1>5 DEF KeyInv, RequestsShaped, Updating
  <1>8. IdsFresh'
    <2>1. \A s \in Requests \ {t} : Creating(s) \/ tx[s].pc = "undo" =>
             /\ tx[s].id # None /\ tx[s].id \in Ids \ {i}
             /\ repo[tx[s].id] = None
             /\ \A r \in Requests \ {s} : tx'[r].id # tx[s].id
      BY <1>1, <1>2, <1>5, NoneAssumption
         DEF KeyInv, IdsFresh, RequestsShaped, Creating
    <2> QED
      BY <1>2, <1>3, <1>5, <2>1 DEF KeyInv, IdsFresh, Creating
  <1>9. KeysPending'
    <2>1. \A s \in Requests \ {t} :
            /\ Creating(s)' = Creating(s)
            /\ Updating(s)' = Updating(s)
      BY <1>2 DEF Creating, Updating
    <2>2. ~Updating(t)' /\ ~Creating(t)'
      BY <1>2, <1>5 DEF Updating, Creating
    <2>3. \A s \in Requests \ {t} : Updating(s) => tx[s].id \in Ids \ {i}
      BY <1>1 DEF KeyInv, LocksHold, RequestsShaped, Updating, ForUpdates,
                  NoKeyUpdates
    <2>4. \A j \in Ids : repo'[j] # None => repo'[j] = repo[j]
      BY <1>3
    <2> QED
      BY <1>2, <1>3, <2>1, <2>2, <2>3, <2>4 DEF KeyInv, KeysPending, InUse
  <1>10. KeysUnique'
    BY <1>3 DEF KeyInv, KeysUnique
  <1> QED
    BY <1>4, <1>6, <1>7, <1>8, <1>9, <1>10 DEF KeyInv

LEMMA HarmType == \A t \in Requests : Harm(t) \subseteq Damage
  BY DEF Harm, Damage

LEMMA CrashKey ==
  ASSUME TypeOK, KeyInv, Crash
  PROVE  TypeOK' /\ KeyInv'
  <1> USE DEF Live, Renames
  <1>1. tx' = [t \in Requests |-> Idle] /\ tx' \in [Requests -> Tx]
    BY IdleTx DEF Crash
  <1>2. UNCHANGED <<repo, redirect, used, disk, held>>
    BY DEF Crash, db
  <1>3. Idle.pc = "idle" /\ Idle.from = None /\ Idle.id = None
    BY DEF Idle
  <1>4. reapers' \in [Paths -> Nat] /\ torn' \subseteq Damage
    <2>1. reapers' \in [Paths -> Nat]
      BY DEF Crash
    <2>2. \A t \in Requests : Harm(t) \subseteq Damage
      BY HarmType
    <2> DEFINE all == UNION {Harm(t) : t \in Requests}
    <2>3. all \subseteq Damage
      BY <2>2
    <2>4. {"litter"} \subseteq Damage /\ torn \subseteq Damage
      BY DEF Damage, TypeOK
    <2>5. torn' = torn \cup all \/ torn' = torn \cup all \cup {"litter"}
      <3> DEFINE cut == \/ \E t \in Requests : tx[t].pc \in {"built", "undo"}
                        \/ \E p \in Paths : reapers[p] > 0
      <3>1. torn' = torn \cup all \cup (IF cut THEN {"litter"} ELSE {})
        BY DEF Crash
      <3> HIDE DEF cut, all
      <3> QED
        BY <3>1
    <2> HIDE DEF all
    <2> QED
      BY <2>1, <2>3, <2>4, <2>5
  <1>5. TypeOK'
    BY <1>1, <1>2, <1>4 DEF TypeOK
  <1>6. LocksHold'
    BY <1>1, <1>3 DEF LocksHold, ForUpdates, KeyShares, NoKeyUpdates
  <1>7. RequestsShaped'
    BY <1>1, <1>3 DEF RequestsShaped, Updating
  <1>8. IdsFresh'
    BY <1>1, <1>2, <1>3 DEF KeyInv, IdsFresh, Creating
  <1>9. KeysPending' /\ KeysUnique'
    BY <1>1, <1>2, <1>3 DEF KeyInv, KeysPending, KeysUnique, Creating, Updating
  <1> QED
    BY <1>5, <1>6, <1>7, <1>8, <1>9 DEF KeyInv

\* What is left of the disk in any step is directories.
LEMMA DiskType ==
  ASSUME TypeOK, KeyInv, NEW t \in Requests,
         CreateInit(t) \/ RenameMove(t) \/ SyncExport(t)
  PROVE  disk' \in [Paths -> Dir \cup {None}] /\ torn' \subseteq Damage
  <1>1. CASE CreateInit(t)
    <2>1. [repo |-> tx[t].id, export |-> Exported(tx[t].vis), head |-> TRUE]
            \in Dir
      BY <1>1 DEF CreateInit, KeyInv, RequestsShaped, Exported, Dir
    <2> QED
      BY <1>1, <2>1 DEF CreateInit, TypeOK, Damage
  <1>2. CASE RenameMove(t)
    BY <1>2 DEF RenameMove, KeyInv, RequestsShaped, TypeOK, Damage
  <1>3. CASE SyncExport(t)
    <2>1. tx[t].to \in Paths /\ Exported(tx[t].vis) \in BOOLEAN
      BY <1>3 DEF SyncExport, KeyInv, RequestsShaped, Updating, Exported
    <2>2. disk[tx[t].to] # None =>
            [disk[tx[t].to] EXCEPT !.export = Exported(tx[t].vis)] \in Dir
      BY <2>1 DEF TypeOK, Dir
    <2> QED
      BY <1>3, <2>1, <2>2 DEF SyncExport, TypeOK
  <1> QED
    BY <1>1, <1>2, <1>3

\* Every step keeps the types, the locks, the ids and the unique keys.
THEOREM KeyStep == TypeOK /\ KeyInv /\ [Next]_vars => TypeOK' /\ KeyInv'
  <1> SUFFICES ASSUME TypeOK, KeyInv, [Next]_vars
               PROVE  TypeOK' /\ KeyInv'
    OBVIOUS
  <1>1. CASE UNCHANGED vars
    BY <1>1 DEF vars, db, fs, TypeOK, KeyInv, LocksHold, RequestsShaped,
       IdsFresh, KeysPending, KeysUnique, Live, Creating, Updating, Renames,
       ForUpdates, KeyShares, NoKeyUpdates, InUse
  <1>2. CASE \E t \in Requests : Begin(t)
    BY <1>2, CreateInsertKey, TouchKey, RenameReadKey, DeleteRowKey DEF Begin
  <1>3. ASSUME NEW t \in Requests,
               \/ CreateExists(t) \/ CreateUndo(t) \/ RenameFails(t)
               \/ UpdateTaken(t) \/ DeadlockVictim(t) \/ SyncRefused(t)
        PROVE  TypeOK' /\ KeyInv'
    <2>1. End(t) /\ UNCHANGED <<repo, redirect, used, reapers, held>>
      BY <1>3 DEF CreateExists, CreateUndo, RenameFails, UpdateTaken,
                  DeadlockVictim, SyncRefused, db, fs
    <2>2. disk' \in [Paths -> Dir \cup {None}]
      BY <1>3 DEF CreateExists, CreateUndo, RenameFails, UpdateTaken,
                  DeadlockVictim, SyncRefused, fs, TypeOK
    <2>3. torn' \subseteq Damage
      BY <1>3, HarmType DEF CreateExists, CreateUndo, RenameFails, UpdateTaken,
                            DeadlockVictim, SyncRefused, TypeOK
    <2> QED
      BY <2>1, <2>2, <2>3, EndKey DEF TypeOK
  <1>4. ASSUME NEW t \in Requests,
               \/ CreateInit(t) \/ CreateRefused(t) \/ RenameMove(t)
               \/ SyncExport(t)
        PROVE  TypeOK' /\ KeyInv'
    <2>1. UNCHANGED <<repo, redirect, used, reapers, held>>
      BY <1>4 DEF CreateInit, CreateRefused, RenameMove, SyncExport, db, fs
    <2>2. KeyInv' /\ tx' \in [Requests -> Tx]
      BY <1>4, <2>1, GotoKey
         DEF CreateInit, CreateRefused, RenameMove, SyncExport
    <2>3. disk' \in [Paths -> Dir \cup {None}] /\ torn' \subseteq Damage
      BY <1>4, DiskType DEF CreateRefused, fs, TypeOK
    <2> QED
      BY <2>1, <2>2, <2>3 DEF TypeOK
  <1>5. ASSUME NEW t \in Requests, Abort(t)
        PROVE  TypeOK' /\ KeyInv'
    <2>1. UNCHANGED <<repo, redirect, used, disk, reapers, held>>
      BY <1>5 DEF Abort, db, fs
    <2>2. torn' \subseteq Damage
      BY <1>5, HarmType DEF Abort, TypeOK
    <2>3. KeyInv' /\ tx' \in [Requests -> Tx]
      BY <1>5, <2>1, EndKey, GotoKey DEF Abort
    <2> QED
      BY <2>1, <2>2, <2>3 DEF TypeOK
  <1>6. ASSUME NEW p \in Paths, Reap(p) \/ RemoveHalf(p)
        PROVE  TypeOK' /\ KeyInv'
    <2>1. UNCHANGED <<repo, redirect, used, tx, held, torn>>
      BY <1>6 DEF Reap, RemoveHalf, db
    <2>2. disk' \in [Paths -> Dir \cup {None}]
      <3>1. disk[p] # None => [disk[p] EXCEPT !.head = FALSE] \in Dir
        BY DEF TypeOK, Dir
      <3> QED
        BY <1>6, <3>1 DEF Reap, RemoveHalf, TypeOK
    <2>3. reapers' \in [Paths -> Nat]
      BY <1>6 DEF Reap, RemoveHalf, TypeOK
    <2>4. KeyInv'
      BY <2>1 DEF KeyInv, LocksHold, RequestsShaped,
         IdsFresh, KeysPending, KeysUnique, Live, Creating, Updating, Renames,
         ForUpdates, KeyShares, NoKeyUpdates, InUse
    <2> QED
      BY <2>1, <2>2, <2>3, <2>4 DEF TypeOK
  <1> QED
    BY <1>1, <1>2, <1>3, <1>4, <1>5, <1>6, CreateCommitKey, RenameLockKey,
       UpdateRowKey, UpdateCommitKey, DeleteCommitKey, CrashKey
       DEF Next, Step

\* The variables stay within their types.
THEOREM TypeCorrect == Spec => []TypeOK
  <1> QED
    BY KeyInit, KeyStep, PTL DEF Spec

\* KeyInv is inductive.
THEOREM KeyCorrect == Spec => []KeyInv
  <1> QED
    BY KeyInit, KeyStep, PTL DEF Spec

\* No two repositories ever have one path: the locks and pending keys of
\* PostgreSQL are enough for createRepository and updateRepository, which
\* check nothing themselves.
THEOREM KeysStayUnique == Spec => []KeysUnique
  <1>1. KeyInv => KeysUnique
    BY DEF KeyInv
  <1> QED
    BY <1>1, KeyCorrect, PTL

-----------------------------------------------------------------------------
(* Names and redirects.                                                     *)

NameAll == NameInv /\ NamesKept /\ RedirectsTruthful

\* A step that commits nothing and starts or moves no rename.
LEMMA NameFrame ==
  ASSUME NameAll, UNCHANGED <<repo, redirect, held>>, torn \subseteq torn',
         \A s \in Requests :
           /\ tx'[s].from # None =>
                /\ tx'[s].id = tx[s].id
                /\ tx'[s].from = tx[s].from
                /\ tx'[s].to = tx[s].to
           /\ Moving(s, tx[s].id)' => Moving(s, tx[s].id)
  PROVE  NameAll'
  <1> USE DEF NameAll, Live, Renames
  <1>1. NameInv'
    <2>1. \A s \in Requests : Renames(s)' /\ Live(tx[s].id)' =>
             /\ [path |-> tx'[s].from, repo |-> tx'[s].id] \in held'
             /\ Owner(tx'[s].to) = Owner(tx'[s].from)
      BY DEF NameInv
    <2>2. "stale" \notin torn' =>
            \A s \in Requests : Moving(s, tx[s].id)' =>
              tx'[s].from = repo'[tx'[s].id].path
      BY DEF NameInv, Moving
    <2> QED
      BY <2>1, <2>2 DEF NameInv
  <1>2. NamesKept' /\ RedirectsTruthful'
    BY DEF NamesKept, RedirectInPlace, RedirectsTruthful
  <1> QED
    BY <1>1, <1>2

LEMMA RenameReadName ==
  ASSUME TypeOK, KeyInv, NameAll, NEW t \in Requests, NEW i \in Ids,
         NEW p \in Paths, NEW vis \in Visibility \cup {"KEEP"},
         RenameRead(t, i, p, vis)
  PROVE  NameAll'
  <1> USE DEF NameAll, Live, Renames
  <1>1. /\ tx'[t] = [pc |-> "lock", id |-> i, from |-> repo[i].path,
                     to |-> p, vis |-> vis]
        /\ \A s \in Requests \ {t} : tx'[s] = tx[s]
        /\ UNCHANGED <<repo, redirect, held, torn>>
        /\ repo[i] # None /\ Owner(repo[i].path) = Owner(p)
    BY DEF RenameRead, TypeOK, db
  <1>2. \A s \in Requests : Renames(s)' /\ Live(tx[s].id)' =>
           /\ [path |-> tx'[s].from, repo |-> tx'[s].id] \in held'
           /\ Owner(tx'[s].to) = Owner(tx'[s].from)
    BY <1>1 DEF NameInv
  <1>3. \A s \in Requests : Moving(s, tx[s].id)' =>
           s # t /\ Moving(s, tx[s].id)
    BY <1>1 DEF Moving
  <1>4. NameInv'
    BY <1>1, <1>2, <1>3 DEF NameInv
  <1> QED
    BY <1>1, <1>4 DEF NamesKept, RedirectInPlace, RedirectsTruthful

LEMMA RenameMoveName ==
  ASSUME TypeOK, KeyInv, NameAll, NEW t \in Requests, RenameMove(t)
  PROVE  NameAll'
  <1> USE DEF NameAll, Live, Renames
  <1>1. /\ tx'[t].from = tx[t].from /\ tx'[t].to = tx[t].to
        /\ tx'[t].id = tx[t].id /\ tx'[t].pc = "update"
        /\ \A s \in Requests \ {t} : tx'[s] = tx[s]
        /\ UNCHANGED <<repo, redirect, held>>
        /\ torn \subseteq torn'
        /\ tx[t].from # repo[tx[t].id].path => "stale" \in torn'
    BY DEF RenameMove, Goto, TypeOK, Tx, db
  <1>2. \A s \in Requests : Renames(s)' /\ Live(tx[s].id)' =>
           /\ [path |-> tx'[s].from, repo |-> tx'[s].id] \in held'
           /\ Owner(tx'[s].to) = Owner(tx'[s].from)
    BY <1>1 DEF NameInv
  <1>3. "stale" \notin torn' =>
          \A s \in Requests : Moving(s, tx[s].id)' =>
            tx'[s].from = repo'[tx'[s].id].path
    BY <1>1 DEF NameInv, Moving
  <1>4. NameInv'
    BY <1>1, <1>2, <1>3 DEF NameInv
  <1> QED
    BY <1>1, <1>4 DEF NamesKept, RedirectInPlace, RedirectsTruthful

LEMMA CreateCommitName ==
  ASSUME TypeOK, KeyInv, NameAll, NEW t \in Requests, CreateCommit(t)
  PROVE  NameAll'
  <1> USE DEF NameAll, Live, Renames
  <1> DEFINE i == tx[t].id
             new == [path |-> tx[t].to, repo |-> i]
  <1>1. /\ i \in Ids /\ repo[i] = None
        /\ \A s \in Requests \ {t} : tx[s].id # i
    BY DEF CreateCommit, KeyInv, RequestsShaped, IdsFresh, Creating
  <1>2. /\ tx'[t] = Idle /\ \A s \in Requests \ {t} : tx'[s] = tx[s]
        /\ repo'[i].path = tx[t].to /\ repo'[i] # None
        /\ \A j \in Ids \ {i} : repo'[j] = repo[j]
        /\ UNCHANGED <<redirect, torn>>
        /\ held' = held \cup {new}
    <2>1. [path |-> tx[t].to, vis |-> tx[t].vis] \in Row
      BY DEF CreateCommit, KeyInv, RequestsShaped, TypeOK, Tx, Row
    <2> QED
      BY <1>1, <2>1, NoneAssumption DEF CreateCommit, End, TypeOK
  <1>3. Idle.from = None
    BY DEF Idle
  <1>4. \A h \in held : h.repo \in Ids \ {i}
    BY <1>1 DEF NameInv, TypeOK, Entry
  <1>5. \A s \in Requests : Renames(s)' => s # t /\ tx[s].from # None
    BY <1>2, <1>3
  <1>6. NameInv'
    <2>1. \A h \in held' : Live(h.repo)'
      BY <1>2, <1>4 DEF NameInv
    <2>2. \A j \in Ids : Live(j)' =>
            [path |-> repo'[j].path, repo |-> j] \in held'
      BY <1>2 DEF NameInv
    <2>3. \A h \in held' : Owner(h.path) = Owner(repo'[h.repo].path)
      BY <1>2, <1>4 DEF NameInv
    <2>4. \A s \in Requests : Renames(s)' /\ Live(tx[s].id)' =>
             /\ [path |-> tx'[s].from, repo |-> tx'[s].id] \in held'
             /\ Owner(tx'[s].to) = Owner(tx'[s].from)
      BY <1>1, <1>2, <1>5 DEF NameInv, KeyInv, RequestsShaped
    <2>5. "stale" \notin torn' =>
            \A s \in Requests : Moving(s, tx[s].id)' =>
              tx'[s].from = repo'[tx'[s].id].path
      BY <1>1, <1>2, <1>5 DEF NameInv, Moving, KeyInv, RequestsShaped
    <2> QED
      BY <2>1, <2>2, <2>3, <2>4, <2>5 DEF NameInv
  <1>7. NamesKept'
    BY <1>2, <1>4 DEF NamesKept, RedirectInPlace
  <1>8. RedirectsTruthful'
    BY <1>2, <1>4 DEF RedirectsTruthful
  <1> QED
    BY <1>6, <1>7, <1>8

LEMMA UpdateCommitName ==
  ASSUME TypeOK, KeyInv, NameAll, NEW t \in Requests, UpdateCommit(t)
  PROVE  NameAll'
  <1> USE DEF NameAll, Live, Renames
  <1> DEFINE i == tx[t].id
             new == [path |-> tx[t].to, repo |-> i]
             old == [path |-> tx[t].from, repo |-> i]
  <1>1. /\ tx[t].pc = "synced" /\ Updating(t) /\ i \in Ids /\ repo[i] # None
        /\ tx[t].to \in Paths /\ tx[t].vis \in Visibility
    BY DEF UpdateCommit, KeyInv, RequestsShaped, LocksHold, Updating,
           TypeOK, Tx
  <1>2. /\ tx'[t] = Idle /\ \A s \in Requests \ {t} : tx'[s] = tx[s]
        /\ repo'[i].path = tx[t].to /\ repo'[i] # None
        /\ \A j \in Ids \ {i} : repo'[j] = repo[j]
        /\ torn' = torn
        /\ held' = held \cup {new}
        /\ redirect' = redirect \cup (IF Renames(t) THEN {old} ELSE {})
    <2>1. [path |-> tx[t].to, vis |-> tx[t].vis] \in Row
      BY <1>1 DEF Row
    <2> QED
      BY <1>1, <2>1, NoneAssumption DEF UpdateCommit, End, TypeOK
  <1>3. Idle.from = None
    BY DEF Idle
  <1>4. \A h \in held : h.repo \in Ids /\ repo[h.repo] # None
    BY DEF NameInv, TypeOK, Entry
  <1>5. \A s \in Requests : Renames(s)' => s # t /\ tx[s].from # None
    BY <1>2, <1>3
  <1>6. IF Renames(t)
        THEN /\ old \in held /\ Moving(t, i)
             /\ Owner(tx[t].to) = Owner(tx[t].from)
             /\ "stale" \notin torn => tx[t].from = repo[i].path
        ELSE tx[t].to = repo[i].path
    BY <1>1 DEF NameInv, Moving, KeyInv, KeysPending
  <1>7. Owner(tx[t].to) = Owner(repo[i].path)
    BY <1>1, <1>6 DEF NameInv
  <1>8. NameInv'
    <2>1. \A h \in held' : Live(h.repo)'
      BY <1>2, <1>4
    <2>2. \A j \in Ids : Live(j)' =>
            [path |-> repo'[j].path, repo |-> j] \in held'
      BY <1>2 DEF NameInv
    <2>3. \A h \in held' : Owner(h.path) = Owner(repo'[h.repo].path)
      BY <1>2, <1>4, <1>7 DEF NameInv
    <2>4. \A s \in Requests : Renames(s)' /\ Live(tx[s].id)' =>
             /\ [path |-> tx'[s].from, repo |-> tx'[s].id] \in held'
             /\ Owner(tx'[s].to) = Owner(tx'[s].from)
      <3> SUFFICES ASSUME NEW s \in Requests, Renames(s)', Live(tx[s].id)'
                   PROVE  /\ [path |-> tx'[s].from, repo |-> tx'[s].id] \in held'
                          /\ Owner(tx'[s].to) = Owner(tx'[s].from)
        OBVIOUS
      <3>1. s # t /\ tx'[s] = tx[s] /\ Renames(s)
        BY <1>2, <1>5
      <3>2. tx[s].id \in Ids
        BY <3>1 DEF KeyInv, RequestsShaped
      <3>3. Live(tx[s].id)
        BY <1>1, <1>2, <3>1, <3>2
      <3> QED
        BY <1>2, <3>1, <3>3 DEF NameInv
    <2>5. "stale" \notin torn' =>
            \A s \in Requests : Moving(s, tx[s].id)' =>
              tx'[s].from = repo'[tx'[s].id].path
      <3> SUFFICES ASSUME "stale" \notin torn',
                          NEW s \in Requests, Moving(s, tx[s].id)'
                   PROVE  tx'[s].from = repo'[tx'[s].id].path
        OBVIOUS
      <3>1. s # t /\ tx'[s] = tx[s] /\ Moving(s, tx[s].id)
        BY <1>2, <1>5 DEF Moving
      <3>2. tx[s].id \in Ids /\ tx[s].from = repo[tx[s].id].path
        BY <1>2, <3>1 DEF Moving, NameInv, KeyInv, RequestsShaped
      <3>3. CASE tx[s].id = i /\ Renames(t)
        BY <1>1, <3>1, <3>3
           DEF Moving, KeyInv, LocksHold, ForUpdates, KeyShares
      <3>4. CASE tx[s].id = i /\ ~Renames(t)
        BY <1>2, <1>6, <3>1, <3>2, <3>4
      <3>5. CASE tx[s].id # i
        BY <1>2, <3>1, <3>2, <3>5
      <3> QED
        BY <3>3, <3>4, <3>5
    <2> QED
      BY <2>1, <2>2, <2>3, <2>4, <2>5 DEF NameInv
  <1>9. NamesKept'
    <2> SUFFICES ASSUME "stale" \notin torn', NEW h \in held'
                 PROVE  h \in redirect' \/ repo'[h.repo].path = h.path
      BY DEF NamesKept, RedirectInPlace
    <2>1. CASE h = new
      BY <1>2, <2>1
    <2>2. CASE h \in held /\ h.repo # i
      BY <1>2, <1>4, <2>2 DEF NamesKept, RedirectInPlace
    <2>3. CASE h \in held /\ h.repo = i
      <3>1. h \in redirect \/ repo[i].path = h.path
        BY <1>2, <2>3 DEF NamesKept, RedirectInPlace
      <3>2. h = [path |-> h.path, repo |-> i]
        BY <2>3 DEF TypeOK, Entry
      <3> QED
        BY <1>2, <1>6, <2>3, <3>1, <3>2
    <2> QED
      BY <1>2, <2>1, <2>2, <2>3
  <1>10. RedirectsTruthful'
    BY <1>2, <1>6, <1>8 DEF RedirectsTruthful, NameInv
  <1> QED
    BY <1>8, <1>9, <1>10

LEMMA DeleteCommitName ==
  ASSUME TypeOK, KeyInv, NameAll, NEW t \in Requests, DeleteCommit(t)
  PROVE  NameAll'
  <1> USE DEF NameAll, Live, Renames
  <1> DEFINE i == tx[t].id
  <1>1. tx[t].pc = "deleted" /\ i \in Ids /\ ForUpdates(t, i)
    BY DEF DeleteCommit, KeyInv, LocksHold, ForUpdates
  <1>2. /\ tx'[t] = Idle /\ \A s \in Requests \ {t} : tx'[s] = tx[s]
        /\ repo'[i] = None
        /\ \A j \in Ids \ {i} : repo'[j] = repo[j]
        /\ torn' = torn
        /\ held' = {h \in held : h.repo # i}
        /\ redirect' = {d \in redirect : d.repo # i}
    BY <1>1 DEF DeleteCommit, End, TypeOK
  <1>3. Idle.from = None
    BY DEF Idle
  <1>4. \A h \in held : h.repo \in Ids /\ repo[h.repo] # None
    BY DEF NameInv, TypeOK, Entry
  <1>5. \A s \in Requests : Renames(s)' => s # t /\ tx[s].from # None
    BY <1>2, <1>3
  <1>6. NameInv'
    <2>1. \A h \in held' : Live(h.repo)'
      BY <1>2, <1>4
    <2>2. \A j \in Ids : Live(j)' =>
            [path |-> repo'[j].path, repo |-> j] \in held'
      BY <1>2 DEF NameInv
    <2>3. \A h \in held' : Owner(h.path) = Owner(repo'[h.repo].path)
      BY <1>2, <1>4 DEF NameInv
    <2>4. \A s \in Requests : Renames(s)' /\ Live(tx[s].id)' =>
             /\ [path |-> tx'[s].from, repo |-> tx'[s].id] \in held'
             /\ Owner(tx'[s].to) = Owner(tx'[s].from)
      <3> SUFFICES ASSUME NEW s \in Requests, Renames(s)', Live(tx[s].id)'
                   PROVE  /\ [path |-> tx'[s].from, repo |-> tx'[s].id] \in held'
                          /\ Owner(tx'[s].to) = Owner(tx'[s].from)
        OBVIOUS
      <3>1. tx'[s] = tx[s] /\ Renames(s) /\ tx[s].id \in Ids
        BY <1>2, <1>5 DEF KeyInv, RequestsShaped
      <3>2. tx[s].id # i /\ Live(tx[s].id)
        BY <1>2, <3>1
      <3> QED
        BY <1>2, <3>1, <3>2 DEF NameInv
    <2>5. "stale" \notin torn' =>
            \A s \in Requests : Moving(s, tx[s].id)' =>
              tx'[s].from = repo'[tx'[s].id].path
      <3> SUFFICES ASSUME "stale" \notin torn',
                          NEW s \in Requests, Moving(s, tx[s].id)'
                   PROVE  tx'[s].from = repo'[tx'[s].id].path
        OBVIOUS
      <3>1. s # t /\ tx'[s] = tx[s] /\ Moving(s, tx[s].id)
        BY <1>2, <1>5 DEF Moving
      <3>2. tx[s].id \in Ids /\ tx[s].from = repo[tx[s].id].path
        BY <1>2, <3>1 DEF Moving, NameInv, KeyInv, RequestsShaped
      <3>3. tx[s].id # i
        BY <1>1, <3>1 DEF Moving, KeyInv, LocksHold, ForUpdates, KeyShares
      <3> QED
        BY <1>2, <3>1, <3>2, <3>3
    <2> QED
      BY <2>1, <2>2, <2>3, <2>4, <2>5 DEF NameInv
  <1>7. NamesKept'
    BY <1>2, <1>4 DEF NamesKept, RedirectInPlace
  <1>8. RedirectsTruthful'
    BY <1>2, <1>4 DEF RedirectsTruthful
  <1> QED
    BY <1>6, <1>7, <1>8

LEMMA NameInit == Init => NameAll
  BY DEF Init, Idle, NameAll, NameInv, NamesKept, RedirectInPlace,
         RedirectsTruthful, Live, Renames, Moving

\* No step makes history, redirects and renames in flight disagree.
LEMMA NameStep == TypeOK /\ KeyInv /\ NameAll /\ [Next]_vars => NameAll'
  <1> SUFFICES ASSUME TypeOK, KeyInv, NameAll, [Next]_vars
               PROVE  NameAll'
    OBVIOUS
  <1>1. CASE UNCHANGED vars
    BY <1>1, NameFrame DEF vars, db, Moving, Renames
  <1>2. ASSUME NEW t \in Requests, Begin(t)
        PROVE  NameAll'
    <2>1. ASSUME NEW p \in Paths, NEW vis \in Visibility, CreateInsert(t, p, vis)
          PROVE  NameAll'
      BY <2>1, NameFrame DEF CreateInsert, Moving, Renames, TypeOK
    <2>2. ASSUME NEW i \in Ids, NEW vis \in Visibility \cup {"KEEP"},
                 Touch(t, i, vis)
          PROVE  NameAll'
      BY <2>2, NameFrame DEF Touch, db, Moving, Renames, TypeOK
    <2>3. ASSUME NEW i \in Ids, DeleteRow(t, i)
          PROVE  NameAll'
      BY <2>3, NameFrame DEF DeleteRow, db, Idle, Moving, Renames, TypeOK
    <2> QED
      BY <1>2, <2>1, <2>2, <2>3, RenameReadName DEF Begin
  <1>3. ASSUME NEW t \in Requests,
               \/ CreateExists(t) \/ CreateUndo(t) \/ RenameFails(t)
               \/ UpdateTaken(t) \/ DeadlockVictim(t) \/ SyncRefused(t)
               \/ RenameLock(t) /\ ~Live(tx[t].id)
               \/ Abort(t) /\ tx[t].pc # "built"
        PROVE  NameAll'
    <2>1. /\ End(t) /\ UNCHANGED <<repo, redirect, held>>
          /\ torn \subseteq torn'
      BY <1>3 DEF CreateExists, CreateUndo, RenameFails, UpdateTaken,
                  DeadlockVictim, SyncRefused, RenameLock, Abort, db, fs
    <2> QED
      BY <2>1, NameFrame DEF End, Idle, Moving, Renames, TypeOK
  <1>4. ASSUME NEW t \in Requests,
               \/ CreateInit(t) \/ CreateRefused(t) \/ SyncExport(t)
               \/ RenameLock(t) /\ Live(tx[t].id)
               \/ Abort(t) /\ tx[t].pc = "built"
               \/ UpdateRow(t)
        PROVE  NameAll'
    <2>1. UNCHANGED <<repo, redirect, held>> /\ torn \subseteq torn'
      BY <1>4 DEF CreateInit, CreateRefused, SyncExport, RenameLock, Abort,
                  UpdateRow, db
    <2>2. /\ \A s \in Requests \ {t} : tx'[s] = tx[s]
          /\ tx'[t].id = tx[t].id /\ tx'[t].from = tx[t].from
          /\ tx'[t].to = tx[t].to
          /\ tx'[t].pc \in {"update", "sync", "synced"} =>
               tx[t].pc \in {"update", "sync", "synced"}
      BY <1>4 DEF CreateInit, CreateRefused, SyncExport, RenameLock, Abort,
                  UpdateRow, Goto, TypeOK, Tx
    <2> QED
      BY <2>1, <2>2, NameFrame DEF Moving, Renames
  <1>5. CASE \E p \in Paths : Reap(p) \/ RemoveHalf(p)
    BY <1>5, NameFrame DEF Reap, RemoveHalf, db, Moving, Renames
  <1>6. CASE Crash
    BY <1>6, NameFrame DEF Crash, db, Idle, Moving, Renames
  <1> QED
    BY <1>1, <1>2, <1>3, <1>4, <1>5, <1>6, RenameMoveName, CreateCommitName,
       UpdateCommitName, DeleteCommitName DEF Next, Step

\* History, redirects and the renames in flight always tell one story.
THEOREM NameCorrect == Spec => []NameAll
  <1> QED
    BY KeyInit, KeyStep, NameInit, NameStep, PTL DEF Spec

\* Unless a rename moved a directory from a path its repository no longer had,
\* every path a live repository was ever committed under is its path or a
\* redirect to it: any number of creations, renames, deletions, aborts and
\* crashes, in any order, loses none.
THEOREM NamesAreKept == Spec => []NamesKept
  <1>1. NameAll => NamesKept
    BY DEF NameAll
  <1> QED
    BY <1>1, NameCorrect, PTL

\* Every redirect leads from a path its target did have to a live repository
\* of the same owner, stale renames included.
THEOREM RedirectsStayTruthful == Spec => []RedirectsTruthful
  <1>1. NameAll => RedirectsTruthful
    BY DEF NameAll
  <1> QED
    BY <1>1, NameCorrect, PTL

-----------------------------------------------------------------------------
(* The name service.                                                        *)

\* Only three actions change a committed row.
LEMMA OnlyCommits ==
  ASSUME [Next]_vars
  PROVE  \/ UNCHANGED <<repo, redirect>>
         \/ \E t \in Requests :
              CreateCommit(t) \/ UpdateCommit(t) \/ DeleteCommit(t)
  <1>1. CASE UNCHANGED vars
    BY <1>1 DEF vars, db
  <1>2. ASSUME NEW t \in Requests, Begin(t)
        PROVE  UNCHANGED <<repo, redirect>>
    BY <1>2 DEF Begin, CreateInsert, Touch, RenameRead, DeleteRow, db
  <1>3. ASSUME NEW t \in Requests, Step(t)
        PROVE  \/ UNCHANGED <<repo, redirect>>
               \/ CreateCommit(t) \/ UpdateCommit(t) \/ DeleteCommit(t)
    BY <1>3 DEF Step, CreateExists, CreateInit, CreateRefused, CreateUndo,
       RenameLock, RenameFails, RenameMove, UpdateRow, UpdateTaken,
       DeadlockVictim, SyncRefused, SyncExport, db
  <1>4. CASE \/ \E t \in Requests : Abort(t)
             \/ \E p \in Paths : Reap(p) \/ RemoveHalf(p)
             \/ Crash
    BY <1>4 DEF Abort, Reap, RemoveHalf, Crash, db
  <1> QED
    BY <1>1, <1>2, <1>3, <1>4 DEF Next

LEMMA CreateCommitNames ==
  ASSUME TypeOK, KeyInv, NEW t \in Requests, CreateCommit(t)
  PROVE  NS!Register(tx[t].id, tx[t].to)
  <1> DEFINE i == tx[t].id
             p == tx[t].to
  <1>1. /\ i \in Ids /\ p \in Paths /\ repo[i] = None /\ ~InUse(p)
        /\ [path |-> p, vis |-> tx[t].vis] \in Row
    BY DEF CreateCommit, KeyInv, RequestsShaped, IdsFresh, KeysPending,
           Creating, Live, TypeOK, Tx, Row
  <1>2. repo' = [repo EXCEPT ![i] = [path |-> p, vis |-> tx[t].vis]]
        /\ redirect' = redirect
    BY DEF CreateCommit
  <1>3. repo'[i].path = p /\ repo'[i] # None
        /\ \A j \in Ids \ {i} : repo'[j] = repo[j]
    BY <1>1, <1>2, NoneAssumption DEF TypeOK
  <1>4. Cur' = [Cur EXCEPT ![i] = p]
    <2>1. \A j \in Ids : Cur'[j] = IF j = i THEN p ELSE Cur[j]
      BY <1>3 DEF Cur, Live
    <2>2. /\ Cur' = [j \in Ids |-> Cur'[j]]
          /\ [Cur EXCEPT ![i] = p] = [j \in Ids |-> IF j = i THEN p ELSE Cur[j]]
      BY <1>1 DEF Cur
    <2> QED
      BY <2>1, <2>2
  <1>5. Cur[i] = None
    BY <1>1 DEF Cur, Live
  <1>6. \A j \in Ids : Cur[j] # p
    BY <1>1, NoneAssumption DEF Cur, InUse
  <1> QED
    BY <1>2, <1>4, <1>5, <1>6 DEF NS!Register, NS!Free

LEMMA UpdateCommitNames ==
  ASSUME TypeOK, KeyInv, NameAll, NEW t \in Requests, UpdateCommit(t)
  PROVE  \/ UNCHANGED <<Cur, redirect>>
         \/ NS!Rename(tx[t].id, tx[t].to)
         \/ "stale" \in torn'
  <1> DEFINE i == tx[t].id
             p == tx[t].to
  <1>1. /\ i \in Ids /\ p \in Paths /\ repo[i] # None /\ Updating(t)
        /\ repo[i].path \in Paths
        /\ [path |-> p, vis |-> tx[t].vis] \in Row
        /\ \A j \in Ids \ {i} : Live(j) => repo[j].path # p
    BY DEF UpdateCommit, KeyInv, RequestsShaped, LocksHold, KeysPending,
           Updating, Live, TypeOK, Tx, Row
  <1>2. /\ repo'[i].path = p /\ repo'[i] # None
        /\ \A j \in Ids \ {i} : repo'[j] = repo[j]
    BY <1>1, NoneAssumption DEF UpdateCommit, TypeOK
  <1>3. Cur' = [Cur EXCEPT ![i] = p]
    BY <1>1, <1>2 DEF Cur, Live
  <1>4. Cur[i] = repo[i].path /\ Cur \in [Ids -> Paths \cup {None}]
    BY <1>1 DEF Cur, Live, TypeOK, Row
  <1>5. CASE ~Renames(t)
    <2>1. p = repo[i].path
      BY <1>1, <1>5 DEF KeyInv, KeysPending
    <2>2. Cur' = Cur
      BY <1>1, <1>3, <1>4, <2>1
    <2> QED
      BY <1>5, <2>2 DEF UpdateCommit
  <1>6. CASE Renames(t) /\ "stale" \notin torn'
    <2>1. tx[t].from = repo[i].path
      BY <1>6 DEF UpdateCommit, NameAll, NameInv, Moving
    <2>2. redirect' = redirect \cup {[path |-> Cur[i], repo |-> i]}
      BY <1>4, <1>6, <2>1 DEF UpdateCommit
    <2>3. \A j \in Ids \ {i} : Cur[j] # p
      BY <1>1, NoneAssumption DEF Cur
    <2>4. Cur[i] # None
      BY <1>1, <1>4, NoneAssumption
    <2> QED
      BY <1>3, <2>2, <2>3, <2>4 DEF NS!Rename
  <1> QED
    BY <1>5, <1>6

LEMMA DeleteCommitNames ==
  ASSUME TypeOK, KeyInv, NEW t \in Requests, DeleteCommit(t)
  PROVE  NS!Forget(tx[t].id)
  <1> DEFINE i == tx[t].id
  <1>1. i \in Ids /\ repo[i] # None /\ repo[i].path \in Paths
    BY DEF DeleteCommit, KeyInv, LocksHold, Live, TypeOK, Row
  <1>2. repo'[i] = None /\ \A j \in Ids \ {i} : repo'[j] = repo[j]
    BY <1>1 DEF DeleteCommit, TypeOK
  <1>3. Cur' = [Cur EXCEPT ![i] = None]
    BY <1>1, <1>2 DEF Cur, Live
  <1>4. Cur[i] # None
    BY <1>1, NoneAssumption DEF Cur, Live
  <1> QED
    BY <1>3, <1>4 DEF DeleteCommit, NS!Forget

\* The committed rows and redirects implement the name service as long as no
\* rename has worked on a path its repository no longer had.
THEOREM NamesImplemented == Spec => ImplementsNames
  <1>1. Init => NS!Init
    BY DEF Init, NS!Init, Cur, Live
  <1>2. TypeOK /\ KeyInv /\ NameAll /\ [Next]_vars
          => [NS!Next \/ "stale" \in torn']_<<Cur, redirect>>
    <2> SUFFICES ASSUME TypeOK, KeyInv, NameAll, [Next]_vars
                 PROVE  \/ NS!Next
                        \/ "stale" \in torn'
                        \/ UNCHANGED <<Cur, redirect>>
      OBVIOUS
    <2>1. CASE UNCHANGED <<repo, redirect>>
      BY <2>1 DEF Cur, Live
    <2>2. ASSUME NEW t \in Requests,
                 CreateCommit(t) \/ UpdateCommit(t) \/ DeleteCommit(t)
          PROVE  \/ NS!Next
                 \/ "stale" \in torn'
                 \/ UNCHANGED <<Cur, redirect>>
      <3>1. tx[t].id \in Ids
        BY <2>2 DEF CreateCommit, UpdateCommit, DeleteCommit, KeyInv,
                    RequestsShaped
      <3>2. CreateCommit(t) \/ UpdateCommit(t) => tx[t].to \in Paths
        BY DEF CreateCommit, UpdateCommit, KeyInv, RequestsShaped, Updating
      <3> QED
        BY <2>2, <3>1, <3>2, CreateCommitNames, UpdateCommitNames,
           DeleteCommitNames DEF NS!Next
    <2> QED
      BY <2>1, <2>2, OnlyCommits
  <1> QED
    BY <1>1, <1>2, KeyInit, KeyStep, NameInit, NameStep, PTL
       DEF Spec, ImplementsNames

LEMMA NamesTyped ==
  ASSUME TypeOK
  PROVE  /\ Cur \in [Ids -> Paths \cup {None}]
         /\ \A d \in redirect : d.repo \in Ids
  BY DEF TypeOK, Row, Entry, Cur, Live

\* Whatever the name service does, a path that led to a repository goes on
\* leading to it, unless another one takes the path.
LEMMA NamesLead ==
  ASSUME TypeOK, NS!Next
  PROVE  NS!KeepsLeading
  <1> SUFFICES ASSUME NEW p \in Paths, NEW i \in NS!Leads(p),
                      ~(Cur'[i] = None),
                      \A j \in Ids \ {i} : Cur'[j] # p
               PROVE  i \in NS!Leads(p)'
    BY DEF NS!KeepsLeading
  <1>1. Cur \in [Ids -> Paths \cup {None}] /\ p # None
    BY NamesTyped, NoneAssumption
  <1>2. i \in Ids
    BY NamesTyped DEF NS!Leads
  <1>3. \/ Cur[i] = p
        \/ (\A j \in Ids : Cur[j] # p) /\ \E d \in redirect :
                                             d.path = p /\ d.repo = i
    BY DEF NS!Leads, NS!Free
  <1>4. Cur'[i] = p \/ \E d \in redirect' : d.path = p /\ d.repo = i
    <2>1. ASSUME NEW k \in Ids, NS!Forget(k)
          PROVE  Cur'[i] = p \/ \E d \in redirect' : d.path = p /\ d.repo = i
      <3>1. k # i
        BY <1>1, <2>1 DEF NS!Forget
      <3>2. Cur'[i] = Cur[i]
        BY <1>1, <1>2, <2>1, <3>1 DEF NS!Forget
      <3>3. \A d \in redirect : d.repo = i => d \in redirect'
        BY <2>1, <3>1 DEF NS!Forget
      <3> QED
        BY <1>3, <3>2, <3>3
    <2>2. ASSUME NEW k \in Ids, NEW q \in Paths, NS!Register(k, q)
          PROVE  Cur'[i] = p \/ \E d \in redirect' : d.path = p /\ d.repo = i
      BY <1>1, <1>2, <1>3, <2>2 DEF NS!Register
    <2>3. ASSUME NEW k \in Ids, NEW q \in Paths, NS!Rename(k, q)
          PROVE  Cur'[i] = p \/ \E d \in redirect' : d.path = p /\ d.repo = i
      <3>1. redirect' = redirect \cup {[path |-> Cur[k], repo |-> k]}
        BY <2>3 DEF NS!Rename
      <3>2. CASE k = i /\ Cur[i] = p
        <4>1. [path |-> p, repo |-> i] \in redirect'
          BY <3>1, <3>2
        <4> QED
          BY <4>1
      <3>3. CASE k # i /\ Cur[i] = p
        BY <1>1, <1>2, <2>3, <3>3 DEF NS!Rename
      <3>4. CASE Cur[i] # p
        BY <1>3, <3>1, <3>4
      <3> QED
        BY <3>2, <3>3, <3>4
    <2> QED
      BY <2>1, <2>2, <2>3 DEF NS!Next
  <1>5. CASE Cur'[i] = p
    BY <1>2, <1>5 DEF NS!Leads, NS!Free
  <1>6. CASE Cur'[i] # p
    <2>1. \A j \in Ids : Cur'[j] # p
      BY <1>6
    <2> QED
      BY <1>4, <1>6, <2>1 DEF NS!Leads, NS!Free
  <1> QED
    BY <1>5, <1>6

\* A path that leads to a repository leads to it until it is deleted or
\* another repository is there, unless a rename was stale.
THEOREM LinksAreKept == Spec => LinksKept
  <1>1. TypeOK /\ [NS!Next \/ "stale" \in torn']_<<Cur, redirect>>
          => [NS!KeepsLeading \/ "stale" \in torn']_<<Cur, redirect>>
    BY NamesLead
  <1> QED
    BY <1>1, TypeCorrect, NamesImplemented, PTL DEF LinksKept, ImplementsNames
=============================================================================
