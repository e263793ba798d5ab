-------------------------- MODULE MCTaskController --------------------------
(* Two tasks, then a record without one, read by two processes in turn.    *)
EXTENDS TaskController
MCIdOf == [i \in Instance |-> i]
=============================================================================
