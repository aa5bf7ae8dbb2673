------------------------------ MODULE MCAccess ------------------------------
(* Access with one owner, one guest and two repositories, for TLC.          *)
EXTENDS Access, TLC

CONSTANTS alice, bob, i1, i2

\* Nothing compares two names, or two ids.
Symmetry == Permutations(Names) \cup Permutations({i1, i2})
=============================================================================
