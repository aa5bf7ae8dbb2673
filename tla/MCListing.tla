----------------------------- MODULE MCListing -----------------------------
(* Listing on five entries, for TLC.                                        *)
EXTENDS Listing

Five == 1 .. 5

\* Commit 4 merges 3 into 2; 5 follows it.
Merge ==
    [c \in Five |-> IF c <= 2 THEN 1 .. c
                    ELSE IF c = 3 THEN {1, 3} ELSE 1 .. c]

EveryKind == Newest \cup Oldest \cup ByName \cup ByStamp \cup {"log"}
=============================================================================
