-------------------------- MODULE ArtifactService --------------------------
(***************************************************************************)
(* What the artifacts promise those who download them: an artifact that is  *)
(* offered keeps its content until its deletion is asked for, and another   *)
(* content comes under its name only once it is gone.  ArtifactStore        *)
(* implements this specification.                                           *)
(***************************************************************************)
CONSTANTS
    Artifacts,  \* a repository and a filename
    Contents,
    None

VARIABLES
    offer,  \* what a download of each artifact gets, or None
    doomed  \* artifacts a request has deleted and not committed

Init ==
    /\ offer = [a \in Artifacts |-> None]
    /\ doomed = {}

Publish(a, c) ==
    /\ offer[a] = None
    /\ a \notin doomed
    /\ offer' = [offer EXCEPT ![a] = c]
    /\ UNCHANGED doomed

\* The deletion of some artifacts is asked for; of all a repository has at once.
Ask(A) ==
    /\ doomed' = doomed \cup A
    /\ UNCHANGED offer

Without(A) == [a \in Artifacts |-> IF a \in A THEN None ELSE offer[a]]

\* Artifacts go before their deletion is committed, or with it.
Withdraw(A) ==
    /\ A \subseteq doomed
    /\ offer' = Without(A)
    /\ UNCHANGED doomed
Delete(A) ==
    /\ A \subseteq doomed
    /\ offer' = Without(A)
    /\ doomed' = doomed \ A

\* A deletion is rolled back.
Spare(A) ==
    /\ doomed' = doomed \ A
    /\ UNCHANGED offer

Next ==
    \/ \E a \in Artifacts, c \in Contents : Publish(a, c)
    \/ \E A \in SUBSET Artifacts :
          Ask(A) \/ Withdraw(A) \/ Delete(A) \/ Spare(A)

Spec == Init /\ [][Next]_<<offer, doomed>>

\* What was offered stays as it is, or its deletion was asked for and it goes.
KeepsOffering ==
    \A a \in Artifacts : offer[a] # None =>
        \/ offer'[a] = offer[a]
        \/ offer'[a] = None /\ a \in doomed
=============================================================================
