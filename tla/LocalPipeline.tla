--------------------------- MODULE LocalPipeline ---------------------------
(***************************************************************************)
(* LocalTaskController.run with topsort and the local storage: a pipeline  *)
(* file is checked, its tasks are put in order by Kahn's algorithm and run *)
(* one after the other, each through a ticket, reads of its inputs, a job   *)
(* and a write of its output.  The storage tries several times, and an      *)
(* interruption of the program (IO.stop cancels the coroutine once) that    *)
(* comes while it does is just one more failed attempt.                    *)
(***************************************************************************)
EXTENDS PipelineFile

CONSTANTS
  Size,      \* tasks are 1 .. Size, in the order of the file
  Files,     \* the files considered
  Attempts,  \* read_retries + 1, write_retries + 1
  MaxLate    \* bound: writes given up on that still matter

ASSUME PipelineAssumption ==
  /\ Size \in Nat
  /\ \A f \in Files : /\ DOMAIN f.tasks = 1 .. Size
                       /\ \A i \in DOMAIN f.specified : f.specified[i] # "none"
  /\ Attempts \in Nat \ {0}
  /\ MaxLate \in Nat

VARIABLES
  file,       \* the file, see PipelineFile
  phase,      \* where `run` is
  inDegree,   \* topsort: in_degree
  queue,      \* topsort: queue
  result,     \* topsort: result, later the list `run` iterates over
  index,      \* the task under way is result[index]
  stage,      \* where it is
  todo,       \* the objects it still has to read or write
  attempt,    \* which attempt at the first of them is under way
  lost,       \* the worker gave up on its ticket
  gone,       \* the worker has ended
  resources,  \* tasks whose artifact is in `resources`
  stored,     \* the objects written: pairs of a task and a part
  torn,       \* those emptied again
  late,       \* those that a write given up on may still open
  cancelled   \* the coroutine was canceled

sortVars == <<inDegree, queue, result>>
taskVars == <<stage, todo, attempt, lost, gone>>
vars == <<file, phase, inDegree, queue, result, index, stage, todo, attempt,
          lost, gone, resources, stored, torn, late, cancelled>>
storeVars == <<stored, torn, late>>

Task == 1 .. Size

Refers == [t \in Task |-> References(file, file.tasks[t])]

(* Some tasks in the order of the file.                                    *)
InOrder(S) ==
  { s \in [1 .. Cardinality(S) -> S] :
      ToSet(s) = S /\ \A i, j \in DOMAIN s : i < j => s[i] < s[j] }

Ended == {"completed", "refused", "raised", "stopped"}

Init ==
  /\ file \in Files
  /\ phase = "parsing"
  /\ inDegree = [t \in Task |-> 0]
  /\ queue = <<>>
  /\ result = <<>>
  /\ index = 1
  /\ stage = "none"
  /\ todo = <<>>
  /\ attempt = 0
  /\ lost = FALSE
  /\ gone = FALSE
  /\ resources = {}
  /\ stored = {}
  /\ torn = {}
  /\ late = {}
  /\ cancelled = FALSE

-----------------------------------------------------------------------------
(* topsort                                                                 *)

(* Deviation of Degree: repeated links count.                              *)
DegreeOfLinks(t) == Cardinality(LinkFields(file, file.tasks[t]))

(* A task another one links to twice is counted once (seen_deps).          *)
Degree(t) == Cardinality(Refers[t])

(* parse_pipeline and the loop over the references, then the first queue.  *)
(* A file that is no mapping raises something else than a ValueError, which *)
(* leaves `run`.                                                           *)
Parse ==
  /\ phase = "parsing"
  /\ IF ~file.readable THEN phase' = "raised" /\ UNCHANGED sortVars
     ELSE IF ParseFails(file) \/ \E t \in Task : Nowhere \in Refers[t]
     THEN phase' = "refused" /\ UNCHANGED sortVars
     ELSE /\ phase' = "sorting"
          /\ inDegree' = [t \in Task |-> Degree(t)]
          /\ queue' \in InOrder({ t \in Task : Refers[t] = {} })
          /\ UNCHANGED result
  /\ UNCHANGED <<file, index, taskVars, resources, storeVars, cancelled>>


(* The tasks that refer to it have one less to wait for; those that wait    *)
(* for none are queued.                                                    *)
Pop ==
  /\ phase = "sorting"
  /\ queue # <<>>
  /\ LET t == Head(queue)
         degree == [u \in Task |-> IF t \in Refers[u] THEN inDegree[u] - 1
                                                     ELSE inDegree[u]]
         ready == { u \in Task : t \in Refers[u] /\ degree[u] = 0 }
     IN  /\ result' = Append(result, t)
         /\ inDegree' = degree
         /\ \E added \in InOrder(ready) : queue' = Tail(queue) \o added
  /\ UNCHANGED <<file, phase, index, taskVars, resources, storeVars, cancelled>>

(* Deviation of Sorted: the loop waits for a result of every task.         *)
SortedWaits ==
  /\ phase = "sorting"
  /\ Len(result) = Size
  /\ phase' = "running"
  /\ UNCHANGED <<file, sortVars, index, taskVars, resources, storeVars, cancelled>>

(* Fewer results than tasks mean a cycle.                                  *)
Sorted ==
  /\ phase = "sorting"
  /\ queue = <<>>
  /\ phase' = IF Len(result) = Size THEN "running" ELSE "refused"
  /\ UNCHANGED <<file, sortVars, index, taskVars, resources, storeVars, cancelled>>

-----------------------------------------------------------------------------
(* The tasks, one after the other                                          *)

Running == phase = "running"
Current == result[index]
CurrentTask == file.tasks[Current]

Continue(s, objects, a) ==
  /\ stage' = s
  /\ todo' = objects
  /\ attempt' = a
  /\ UNCHANGED phase

(* An exception leaves the loop: logged if it is an Exception, passed on if *)
(* it is a CancelledError.                                                 *)
Abort ==
  /\ phase' = "stopped"
  /\ stage' = "none"
  /\ todo' = <<>>
  /\ attempt' = 0

(* `await self._ticket()`                                                  *)
QueueTicket ==
  /\ Running
  /\ stage = "none"
  /\ index =< Len(result)
  /\ Continue("ticket", <<>>, 0)
  /\ UNCHANGED <<file, sortVars, index, lost, gone, resources, storeVars, cancelled>>

(* The fields are resolved in `resources` (ReadsWhatWasSaved: they are      *)
(* there), and the service begins to read.                                 *)
Resolve ==
  /\ Running
  /\ stage = "ticket"
  /\ IF RequestFails(file, CurrentTask) THEN Abort
     ELSE Continue("reading", ReadsOf(CurrentTask), 1)
  /\ UNCHANGED <<file, sortVars, index, lost, gone, resources, storeVars, cancelled>>

(* A second passed and the ticket holds no job.                            *)
LoseTicket ==
  /\ Running
  /\ stage = "reading"
  /\ ~gone
  /\ lost' = TRUE
  /\ UNCHANGED <<file, phase, sortVars, index, stage, todo, attempt, gone, resources,
                 storeVars, cancelled>>

(* The job at hand raises, or cache_all after one that has run: the worker  *)
(* ends, and nobody answers who waits for a job.                           *)
WorkerEnds ==
  /\ Running
  /\ ~gone
  /\ \/ stage = "waiting" /\ ~lost
     \/ stage \in {"writing", "leaving"}
     \/ resources # {}
  /\ gone' = TRUE
  /\ UNCHANGED <<file, phase, sortVars, index, stage, todo, attempt, lost, resources,
                 storeVars, cancelled>>

(* What the next object to read is called if a task of this pipeline saved *)
(* it; other objects may exist or not.                                     *)
Linked == CurrentTask.inputs[Head(todo)[1]].kind = "link"
Source ==
  <<CHOOSE t \in Task : t \in Referred(file, CurrentTask.inputs[Head(todo)[1]]),
    Head(todo)[2]>>

(* The next object is read.                                                *)
Read ==
  /\ Running
  /\ stage = "reading"
  /\ todo # <<>>
  /\ Linked => Source \in stored
  /\ Continue("reading", Tail(todo), 1)
  /\ UNCHANGED <<file, sortVars, index, lost, gone, resources, storeVars, cancelled>>

(* It holds nothing that can be decoded, which is not tried again.         *)
ReadDamaged ==
  /\ Running
  /\ stage = "reading"
  /\ todo # <<>>
  /\ Linked => Source \in torn
  /\ Abort
  /\ UNCHANGED <<file, sortVars, index, lost, gone, resources, storeVars, cancelled>>

(* get_frames does without metadata that the last attempt did not find.    *)
ReadWithout ==
  /\ Running
  /\ stage = "reading"
  /\ todo # <<>>
  /\ Head(todo)[2] = "meta"
  /\ attempt = Attempts
  /\ Linked => Source \notin stored \cup torn
  /\ Continue("reading", Tail(todo), 1)
  /\ UNCHANGED <<file, sortVars, index, lost, gone, resources, storeVars, cancelled>>

(* The inputs are read, the job is in the ticket.                          *)
UseTicket ==
  /\ Running
  /\ stage = "reading"
  /\ todo = <<>>
  /\ Continue("waiting", <<>>, 0)
  /\ UNCHANGED <<file, sortVars, index, lost, gone, resources, storeVars, cancelled>>

ReceiveResult ==
  /\ Running
  /\ stage = "waiting"
  /\ ~lost /\ ~gone
  /\ Continue("writing", SavedParts(CurrentTask), 1)
  /\ UNCHANGED <<file, sortVars, index, lost, gone, resources, storeVars, cancelled>>

(* Deviation of Write: the output is saved once its first part is.         *)
WriteFirst ==
  /\ Running
  /\ stage = "writing"
  /\ stored' = stored \cup {<<Current, Head(todo)>>}
  /\ Continue("leaving", <<>>, 0)
  /\ UNCHANGED <<file, sortVars, index, lost, gone, resources, torn, late, cancelled>>

(* The next part of the output is written.                                 *)
Write ==
  /\ Running
  /\ stage = "writing"
  /\ stored' = stored \cup {<<Current, Head(todo)>>}
  /\ IF Len(todo) = 1 THEN Continue("leaving", <<>>, 0)
                       ELSE Continue("writing", Tail(todo), 1)
  /\ UNCHANGED <<file, sortVars, index, lost, gone, resources, torn, late, cancelled>>

(* The attempt failed, was timed out or interrupted: the storage tries      *)
(* again, or the task has failed.  The thread of a write given up on may    *)
(* still be about to open the file.                                        *)
AttemptFails ==
  /\ stage \in {"reading", "writing"}
  /\ todo # <<>>
  /\ \/ attempt < Attempts /\ Continue(stage, todo, attempt + 1)
     \/ attempt = Attempts /\ Abort
  /\ \/ UNCHANGED late
     \/ /\ stage = "writing"
        /\ Cardinality(late \cup torn) < MaxLate
        /\ late' = late \cup {<<Current, Head(todo)>>}
  /\ UNCHANGED <<stored, torn>>

StorageFails ==
  /\ Running
  /\ AttemptFails
  /\ UNCHANGED <<file, sortVars, index, lost, gone, resources, cancelled>>

(* open(path, "wb") empties the file, whatever it holds by now.            *)
LateOpen(o) ==
  /\ o \in late
  /\ late' = late \ {o}
  /\ stored' = stored \ {o}
  /\ torn' = torn \cup (stored \cap {o})
  /\ UNCHANGED <<file, phase, sortVars, index, taskVars, resources, cancelled>>

(* The pipe is closed, the artifact recorded, the next task is next.       *)
FinishTask ==
  /\ Running
  /\ stage = "leaving"
  /\ Continue("none", <<>>, 0)
  /\ index' = index + 1
  /\ lost' = FALSE
  /\ resources' = resources \cup {Current}
  /\ UNCHANGED <<file, sortVars, gone, storeVars, cancelled>>

Complete ==
  /\ Running
  /\ stage = "none"
  /\ index > Len(result)
  /\ phase' = "completed"
  /\ UNCHANGED <<file, sortVars, index, taskVars, resources, storeVars, cancelled>>

(***************************************************************************)
(* The coroutine is canceled at an await.  LocalStorage catches            *)
(* BaseException, so an attempt of the storage absorbs the cancellation;    *)
(* everywhere else it ends the coroutine.                                  *)
(***************************************************************************)
Cancel ==
  /\ Running
  /\ ~cancelled
  /\ cancelled' = TRUE
  /\ \/ AttemptFails
     \/ stage \in {"ticket", "waiting", "leaving"} /\ Abort /\ UNCHANGED storeVars
  /\ UNCHANGED <<file, sortVars, index, lost, gone, resources>>

-----------------------------------------------------------------------------
Advance ==
  \/ Parse \/ Pop \/ Sorted
  \/ QueueTicket \/ Resolve
  \/ Read \/ ReadDamaged \/ ReadWithout \/ StorageFails
  \/ UseTicket \/ ReceiveResult \/ Write
  \/ FinishTask \/ Complete

Next == Advance \/ LoseTicket \/ WorkerEnds \/ Cancel \/ \E o \in late : LateOpen(o)

Spec == Init /\ [][Next]_vars

(* The loop runs, every attempt of the storage ends (wait_for gives it a    *)
(* time); a worker that lives runs the jobs of tickets used in time or ends *)
(* in one, and its end makes the main thread stop the loop.                *)
FairSpec == Spec /\ WF_vars(Advance) /\ WF_vars(gone /\ Cancel)

-----------------------------------------------------------------------------
(* Properties                                                              *)

(* Whatever attempts failed and whether or not an interruption was absorbed,*)
(* when a task reads what another one saved, each part has been written;    *)
(* it is gone only if a late open emptied it.  The metadata of an image is  *)
(* asked for, but was never saved.                                         *)
ReadsWhatWasSaved ==
  Running /\ stage = "reading" =>
    \A n \in DOMAIN todo :
      LET input == CurrentTask.inputs[todo[n][1]]
      IN  input.kind = "link" =>
            \A t \in Referred(file, input) :
              todo[n][2] \in ToSet(SavedParts(file.tasks[t])) =>
                <<t, todo[n][2]>> \in stored \cup torn

(* Nobody will answer the task at hand, its ticket was given up or the      *)
(* worker has ended, and nothing is sure to interrupt it: the one           *)
(* interruption that follows the end of the worker was spent.              *)
Deserted == stage = "waiting" /\ (lost \/ gone) /\ (gone => cancelled)

(* The run comes to an end, however the storage behaves and whether or not  *)
(* a job raises, with two exceptions: the ticket of a task was given up; or *)
(* a job raised, or a task came after one that did, and the storage had     *)
(* absorbed the interruption.                                              *)
Ends == <>(phase \in Ended \/ Deserted)

(* A file that breaks a rule of the format, stated for the whole file.      *)
Malformed ==
  \/ ~file.readable
  \/ file.version # "v1"
  \/ \E t \in Task : ~ValidTask(file.tasks[t])
  \/ ~IsInjective([t \in Task |-> IdOf(file.tasks, t)])
  \/ \E i \in DOMAIN MergedInputs(file) : MergedInputs(file)[i] = "none"

Links == IF Malformed THEN [t \in Task |-> {}] ELSE Refers

(* Raising before anything ran is a refusal too.                           *)
Outcome ==
  IF phase = "raised" THEN "refused" ELSE IF phase \in Ended THEN phase ELSE "none"

D == INSTANCE Dag WITH
  refers <- Links, malformed <- Malformed, done <- resources, outcome <- Outcome

(* The pipeline is checked and run as Dag says: refused if and only if it   *)
(* is not sound, else run in an order its links allow.                     *)
ImplementsDag == D!Spec
=============================================================================
