-------------------------------- MODULE Dag --------------------------------
(***************************************************************************)
(* What the standalone mode promises (README.md:140-143): a pipeline whose  *)
(* tasks do not form an acyclic graph, or with a reference to something     *)
(* that does not exist, is refused before anything runs; of any other      *)
(* pipeline a task runs once all the tasks it refers to have run, and the  *)
(* pipeline is complete when every task has.                               *)
(***************************************************************************)
EXTENDS Naturals

CONSTANTS
  Task,     \* tasks of the pipeline
  Nowhere   \* a reference to something that does not exist

VARIABLES
  refers,     \* what each task refers to
  malformed,  \* whether the file breaks another rule of its format
  done,       \* tasks that have run
  outcome     \* how the pipeline ended, if it did

vars == <<refers, malformed, done, outcome>>

(* Each of some tasks refers to one of them.                               *)
Cyclic ==
  \E S \in SUBSET Task : S # {} /\ \A t \in S : refers[t] \cap S # {}

Sound ==
  /\ ~malformed
  /\ \A t \in Task : Nowhere \notin refers[t]
  /\ ~Cyclic

Init ==
  /\ refers \in [Task -> SUBSET (Task \cup {Nowhere})]
  /\ malformed \in BOOLEAN
  /\ done = {}
  /\ outcome = "none"

Refuse ==
  /\ outcome = "none"
  /\ ~Sound
  /\ outcome' = "refused"
  /\ UNCHANGED <<refers, malformed, done>>

Run(t) ==
  /\ outcome = "none"
  /\ Sound
  /\ t \notin done
  /\ refers[t] \subseteq done
  /\ done' = done \cup {t}
  /\ UNCHANGED <<refers, malformed, outcome>>

Complete ==
  /\ outcome = "none"
  /\ Sound
  /\ done = Task
  /\ outcome' = "completed"
  /\ UNCHANGED <<refers, malformed, done>>

(* A task failed or the program was interrupted.                           *)
Stop ==
  /\ outcome = "none"
  /\ Sound
  /\ outcome' = "stopped"
  /\ UNCHANGED <<refers, malformed, done>>

Next == Refuse \/ Complete \/ Stop \/ \E t \in Task : Run(t)

Spec == Init /\ [][Next]_vars
=============================================================================
