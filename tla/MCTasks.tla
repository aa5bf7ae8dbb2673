------------------------------ MODULE MCTasks ------------------------------
(* Tasks with one user, two paths and two repositories, for TLC.            *)
EXTENDS Tasks
=============================================================================
