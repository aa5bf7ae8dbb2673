---------------------------- MODULE MCRepoStore ----------------------------
(* RepoStore on small instances. *)
EXTENDS RepoStore, TLC

CONSTANTS
    DamageBound  \* bound: kinds of damage in one behaviour

\* The members of these sets are interchangeable: nothing compares them.
Symmetry ==
    Permutations(Users) \cup Permutations(Names) \cup Permutations(Ids)
        \cup Permutations(Requests)

Bounded == Cardinality(torn) <= DamageBound
=============================================================================
