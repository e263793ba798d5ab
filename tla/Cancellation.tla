---------------------------- MODULE Cancellation ----------------------------
(***************************************************************************)
(* cancellation.py: tasks that can be canceled.  A cancellable task is an   *)
(* outer asyncio task that first asks the pull providers whether its id is  *)
(* canceled already, then runs the work as an inner task.  Two dictionaries *)
(* by task id let a pushed cancellation find both.  Everything runs on one  *)
(* event loop: steps of this module are the stretches between two awaits.  *)
(***************************************************************************)
EXTENDS Naturals, FiniteSets

CONSTANTS
  Instance,   \* calls of create_cancellable_task
  Id,         \* task ids
  IdOf,       \* the id each call is made with
  Absent      \* the dictionary has no such key

ASSUME CancellationAssumption ==
  /\ IdOf \in [Instance -> Id]
  /\ Absent \notin Instance

(* Two calls with one id share the entries of the dictionaries.            *)
DistinctIds == \A i, j \in Instance : IdOf[i] = IdOf[j] => i = j

VARIABLES
  outer,       \* where the coroutine _track of an instance is
  inner,       \* state of its inner task
  innerTasks,  \* CancellationService._inner_tasks
  outerTasks,  \* CancellationService._outer_tasks
  flagged,     \* outer tasks that carry _CANCEL_FLAG_ATTR
  asked        \* inner tasks on which cancel() was called while they ran

cancelVars == <<outer, inner, innerTasks, outerTasks, flagged, asked>>

Unfinished == {"scheduled", "working", "leaving", "hurried"}
Finished == {"done", "failed", "cancelled"}

CancelInit ==
  /\ outer = [i \in Instance |-> "none"]
  /\ inner = [i \in Instance |-> "none"]
  /\ innerTasks = [id \in Id |-> Absent]
  /\ outerTasks = [id \in Id |-> Absent]
  /\ flagged = {}
  /\ asked = {}

(* create_cancellable_task                                                 *)
Create(i) ==
  /\ outer[i] = "none"
  /\ outer' = [outer EXCEPT ![i] = "checking"]
  /\ outerTasks' = [outerTasks EXCEPT ![IdOf[i]] = i]
  /\ UNCHANGED <<inner, innerTasks, flagged, asked>>

(***************************************************************************)
(* `await self._cancelled(id)` returns, and _track goes on to `await inner` *)
(* without giving up the loop.  A provider that fails or times out counts  *)
(* as "not canceled", so the verdict may be either for any task.           *)
(***************************************************************************)
Checked(i, cancelled) ==
  /\ outer[i] = "checking"
  /\ outer' = [outer EXCEPT ![i] = "awaiting"]
  /\ inner' = [inner EXCEPT ![i] = "scheduled"]
  /\ innerTasks' = [innerTasks EXCEPT ![IdOf[i]] = i]
  /\ LET hit == IF cancelled THEN {i} ELSE {} IN
       /\ flagged' = flagged \cup hit
       /\ asked' = asked \cup hit
  /\ UNCHANGED <<outerTasks>>

(* The work begins; an inner task canceled before its first step never does.*)
Begin(i) ==
  /\ inner[i] = "scheduled"
  /\ i \notin asked
  /\ inner' = [inner EXCEPT ![i] = "working"]
  /\ UNCHANGED <<outer, innerTasks, outerTasks, flagged, asked>>

(* The work returns or raises by itself.                                   *)
Finish(i, how) ==
  /\ inner[i] = "working"
  /\ i \notin asked
  /\ inner' = [inner EXCEPT ![i] = how]
  /\ UNCHANGED <<outer, innerTasks, outerTasks, flagged, asked>>

(***************************************************************************)
(* CancelledError is thrown into the inner task.  Work that was at an await *)
(* of the storage may turn it into a DomainError on its way out; work that  *)
(* was inside `async with` is leaving: it awaits the close of its pipe.    *)
(***************************************************************************)
Interrupt(i, how) ==
  /\ inner[i] \in {"scheduled", "working"}
  /\ i \in asked
  /\ how \in {"failed", "leaving"} => inner[i] = "working"
  /\ inner' = [inner EXCEPT ![i] = how]
  /\ UNCHANGED <<outer, innerTasks, outerTasks, flagged, asked>>

(* The pipe is closed, and what was thrown goes on its way.                *)
Left(i, how) ==
  /\ inner[i] = "leaving"
  /\ inner' = [inner EXCEPT ![i] = how]
  /\ UNCHANGED <<outer, innerTasks, outerTasks, flagged, asked>>

(* A second CancelledError is thrown into the await of the close.          *)
Hurry(i) ==
  /\ inner[i] = "hurried"
  /\ inner' = [inner EXCEPT ![i] = "cancelled"]
  /\ UNCHANGED <<outer, innerTasks, outerTasks, flagged, asked>>

(* Deviation of Untrack: no `finally`.                                     *)
UntrackOnSuccess(i) ==
  /\ outer[i] = "awaiting"
  /\ inner[i] = "done"
  /\ outer' = [outer EXCEPT ![i] = "ended"]
  /\ innerTasks' = [innerTasks EXCEPT ![IdOf[i]] = Absent]
  /\ outerTasks' = [outerTasks EXCEPT ![IdOf[i]] = Absent]
  /\ UNCHANGED <<inner, flagged, asked>>

(* `await inner` is over: the entries of the id go, the outer task ends.    *)
Untrack(i) ==
  /\ outer[i] = "awaiting"
  /\ inner[i] \in Finished
  /\ outer' = [outer EXCEPT ![i] = "ended"]
  /\ innerTasks' = [innerTasks EXCEPT ![IdOf[i]] = Absent]
  /\ outerTasks' = [outerTasks EXCEPT ![IdOf[i]] = Absent]
  /\ UNCHANGED <<inner, flagged, asked>>

(* cancel() on the inner task of an id: one that has finished stays as it   *)
(* is, one that is leaving already will not wait for its pipe.             *)
CancelInner(id) ==
  /\ asked' = asked \cup { i \in Instance : i = innerTasks[id] /\ inner[i] \in Unfinished }
  /\ inner' = [i \in Instance |->
                 IF i = innerTasks[id] /\ inner[i] = "leaving" THEN "hurried" ELSE inner[i]]

(* Deviation of Push: the outer task is not flagged.                       *)
PushInnerOnly(id) ==
  /\ CancelInner(id)
  /\ UNCHANGED <<outer, innerTasks, outerTasks, flagged>>

(* CancellationService.__call__: a pushed cancellation for an id.          *)
Push(id) ==
  /\ flagged' = flagged \cup ({outerTasks[id]} \ {Absent})
  /\ CancelInner(id)
  /\ UNCHANGED <<outer, innerTasks, outerTasks>>

-----------------------------------------------------------------------------
(* Properties                                                              *)

(* Types; an inner task exists from the end of the check on.               *)
CancelTypeOK ==
  /\ outer \in [Instance -> {"none", "checking", "awaiting", "ended"}]
  /\ inner \in [Instance -> {"none"} \cup Unfinished \cup Finished]
  /\ innerTasks \in [Id -> Instance \cup {Absent}]
  /\ outerTasks \in [Id -> Instance \cup {Absent}]
  /\ (flagged \cup asked) \subseteq Instance
  /\ \A i \in Instance : inner[i] = "none" <=> outer[i] \in {"none", "checking"}

(* A task the service canceled is recognised as such when it ends: the     *)
(* docstring of was_task_cancelled, "Returns True if the task was cancelled *)
(* via CancellationService", and what the controller answers by.           *)
CancelIsRecognised ==
  \A i \in Instance : inner[i] = "cancelled" => i \in flagged
=============================================================================
