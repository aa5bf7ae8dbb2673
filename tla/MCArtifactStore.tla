-------------------------- MODULE MCArtifactStore --------------------------
(* ArtifactStore on small sets, for TLC.                                    *)
EXTENDS ArtifactStore, TLC

CONSTANT DamageBound

\* Behaviours are followed until they have met this many kinds of damage and no more.
Bounded == Cardinality(torn) <= DamageBound

Symmetry ==
    Permutations(Repos) \cup Permutations(Names)
    \cup Permutations(Contents) \cup Permutations(Requests)
=============================================================================
