---------------------------- MODULE NameService ----------------------------
(***************************************************************************)
(* What renaming promises the users of repository names: a path leads to    *)
(* the repository that has it or, when none has it, to those that gave it   *)
(* up.  settings_rename.html: "A redirect from the old URL to the new one   *)
(* will be in place until you create another repository with the same       *)
(* name."  RepoStore implements this specification.                         *)
(***************************************************************************)
CONSTANTS Paths, Ids, None

VARIABLES
    cur,    \* the path each repository has, or None
    alias   \* [path, repo]: paths given up in a rename

names == <<cur, alias>>

Free(p) == \A i \in Ids : cur[i] # p

Init ==
    /\ cur = [i \in Ids |-> None]
    /\ alias = {}

Register(i, p) ==
    /\ cur[i] = None
    /\ Free(p)
    /\ cur' = [cur EXCEPT ![i] = p]
    /\ UNCHANGED alias

Rename(i, p) ==
    /\ cur[i] # None
    /\ \A j \in Ids \ {i} : cur[j] # p
    /\ cur' = [cur EXCEPT ![i] = p]
    /\ alias' = alias \cup {[path |-> cur[i], repo |-> i]}

Forget(i) ==
    /\ cur[i] # None
    /\ cur' = [cur EXCEPT ![i] = None]
    /\ alias' = {d \in alias : d.repo # i}

Next ==
    \E i \in Ids :
        Forget(i) \/ \E p \in Paths : Register(i, p) \/ Rename(i, p)

Spec == Init /\ [][Next]_names

Leads(p) ==
    IF Free(p) THEN {d.repo : d \in {e \in alias : e.path = p}}
               ELSE {i \in Ids : cur[i] = p}

\* A path that leads to a repository goes on leading to it until the
\* repository is deleted or another one is at that path.
KeepsLeading ==
    \A p \in Paths : \A i \in Leads(p) :
        \/ i \in Leads(p)'
        \/ cur'[i] = None
        \/ \E j \in Ids \ {i} : cur'[j] = p
=============================================================================
