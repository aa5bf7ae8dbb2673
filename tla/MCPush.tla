------------------------------- MODULE MCPush -------------------------------
(* Push on small sets, for TLC.                                             *)
EXTENDS Push, TLC

CONSTANTS c1, c2, c3, m1, m2, m3, main, dev, tag

AnyRef == [enabled |-> TRUE, refs |-> {}]
OnlyTag == [enabled |-> TRUE, refs |-> {tag}]
Disabled == [enabled |-> FALSE, refs |-> {}]

\* c1 has one manifest, c2 more than Limit allows, those of c3 are disabled or
\* limited to tags.
ManyManifests == c1 :> {m1} @@ c2 :> {m1, m2, m3} @@ c3 :> {m1, m2}
ManyRules ==
    c1 :> (m1 :> AnyRef)
    @@ c2 :> (m1 :> AnyRef @@ m2 :> AnyRef @@ m3 :> AnyRef)
    @@ c3 :> (m1 :> OnlyTag @@ m2 :> Disabled)

OneManifest == c1 :> {m1}
NoRules == c1 :> (m1 :> AnyRef)

AllAsks == [vis : Visibility \cup {None}, skip : BOOLEAN]
NoAsks == {[vis |-> None, skip |-> FALSE]}

Symmetry == Permutations(Pushes) \cup Permutations(Repos) \cup Permutations(Names)
=============================================================================
