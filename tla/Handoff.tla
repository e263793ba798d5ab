------------------------------- MODULE Handoff -------------------------------
(***************************************************************************)
(* How a task of the event loop meets the worker thread: the controller     *)
(* queues a ticket (Scheduler), the service coroutine fetches its input and *)
(* puts a job in the ticket (Ticket.use), the worker takes the tickets in   *)
(* order, waits a second for the job and runs it (Worker.start), and the    *)
(* result comes back through a pipe whose consuming side can be closed at   *)
(* any time, which is how a job learns that it was canceled.  The pipe is   *)
(* used as module Channel describes it; Pipe shows that it behaves so.      *)
(***************************************************************************)
EXTENDS Naturals, Sequences, SequencesExt

CONSTANTS
  Task,     \* tasks: one ticket, one coroutine, one pipe each
  NoTask    \* the worker holds no ticket

ASSUME HandoffAssumption == NoTask \notin Task

VARIABLES
  stage,     \* where the service coroutine of a task is
  verdict,   \* how a coroutine that leaves its pipe is going to end
  queue,     \* Scheduler._queue: tickets, by their tasks
  used,      \* tasks whose ticket holds a job (Ticket._task is not None)
  item,      \* tasks whose pipe holds the result
  shut,      \* tasks whose pipe is closed
  worker,    \* where the worker thread is
  current,   \* the task whose ticket it works on
  arrivals,  \* history: tasks in the order their tickets were queued
  runs,      \* history: tasks in the order the worker ran their jobs
  dropped    \* history: tasks whose ticket the worker gave up on

taskVars == <<stage, verdict>>
pipeVars == <<item, shut>>
workerVars == <<worker, current>>
history == <<arrivals, runs, dropped>>
vars == <<stage, verdict, queue, used, item, shut, worker, current,
          arrivals, runs, dropped>>

Ended == {"done", "failed", "cancelled"}
Stages == {"new", "fetching", "waiting", "saving", "leaving"} \cup Ended
WorkerStates ==
  {"polling", "holding", "running", "checked", "delivered", "failed", "killed"}

Init ==
  /\ stage = [t \in Task |-> "new"]
  /\ verdict = [t \in Task |-> "none"]
  /\ queue = <<>>
  /\ used = {}
  /\ item = {}
  /\ shut = {}
  /\ worker = "polling"
  /\ current = NoTask
  /\ arrivals = <<>>
  /\ runs = <<>>
  /\ dropped = {}

-----------------------------------------------------------------------------
(* The event loop                                                          *)

(* Scheduler.queue, then the coroutine starts fetching its input.          *)
Accept(t) ==
  /\ stage[t] = "new"
  /\ stage' = [stage EXCEPT ![t] = "fetching"]
  /\ queue' = Append(queue, t)
  /\ arrivals' = Append(arrivals, t)
  /\ UNCHANGED <<verdict, used, pipeVars, workerVars, runs, dropped>>

(* The input is there: the pipeline makes a pipe and uses the ticket.      *)
UseTicket(t) ==
  /\ stage[t] = "fetching"
  /\ stage' = [stage EXCEPT ![t] = "waiting"]
  /\ used' = used \cup {t}
  /\ UNCHANGED <<verdict, queue, pipeVars, workerVars, history>>

(* It is not, or a cancellation comes first (which the S3 repository may    *)
(* turn into an error of the storage): the ticket stays in the queue.       *)
AbandonFetch(t, how) ==
  /\ stage[t] = "fetching"
  /\ stage' = [stage EXCEPT ![t] = how]
  /\ UNCHANGED <<verdict, queue, used, pipeVars, workerVars, history>>

(***************************************************************************)
(* `await pipe.pipe()` returns the result.  It raises PipeClosedError when  *)
(* it finds the pipe closed and empty; ClosedMeansAnswered says that this   *)
(* never happens, so the model has no action for it.                       *)
(***************************************************************************)
Receive(t) ==
  /\ stage[t] = "waiting"
  /\ t \in item
  /\ item' = item \ {t}
  /\ stage' = [stage EXCEPT ![t] = "saving"]
  /\ UNCHANGED <<verdict, queue, used, shut, workerVars, history>>

(* The output is stored, or storing it failed.                             *)
Save(t) ==
  /\ stage[t] = "saving"
  /\ stage' = [stage EXCEPT ![t] = "leaving"]
  /\ \E v \in {"done", "failed"} : verdict' = [verdict EXCEPT ![t] = v]
  /\ UNCHANGED <<queue, used, pipeVars, workerVars, history>>

(* A cancellation reaches the coroutine behind `async with`: it leaves the *)
(* block.  While it stores, the storage may report an error instead.       *)
Cancel(t) ==
  /\ stage[t] \in {"waiting", "saving"}
  /\ stage' = [stage EXCEPT ![t] = "leaving"]
  /\ \E v \in {"cancelled"} \cup (IF stage[t] = "saving" THEN {"failed"} ELSE {}) :
       verdict' = [verdict EXCEPT ![t] = v]
  /\ UNCHANGED <<queue, used, pipeVars, workerVars, history>>

(* A cancellation while the pipe is being closed: the coroutine ends; the   *)
(* thread has closed the pipe, or was never asked to.                      *)
CancelLeaving(t) ==
  /\ stage[t] = "leaving"
  /\ stage' = [stage EXCEPT ![t] = "cancelled"]
  /\ shut' \in {shut, shut \cup {t}}
  /\ UNCHANGED <<verdict, queue, used, item, workerVars, history>>

(* AsyncPipeOut.__aexit__: the pipe is closed by a thread of the executor.  *)
Leave(t) ==
  /\ stage[t] = "leaving"
  /\ shut' = shut \cup {t}
  /\ stage' = [stage EXCEPT ![t] = verdict[t]]
  /\ UNCHANGED <<verdict, queue, used, item, workerVars, history>>

-----------------------------------------------------------------------------
(* The worker thread                                                       *)

GetTicket ==
  /\ worker = "polling"
  /\ queue # <<>>
  /\ worker' = "holding"
  /\ current' = Head(queue)
  /\ queue' = Tail(queue)
  /\ UNCHANGED <<taskVars, used, pipeVars, history>>

(* Ticket.task returns the job and the worker calls it.                    *)
TakeJob ==
  /\ worker = "holding"
  /\ current \in used
  /\ worker' = "running"
  /\ runs' = Append(runs, current)
  /\ UNCHANGED <<taskVars, queue, used, pipeVars, current, arrivals, dropped>>

(* Deviations of TicketTimesOut: the ticket is queued again, or is waited   *)
(* for without a timeout.                                                  *)
TicketRequeued ==
  /\ worker = "holding"
  /\ current \notin used
  /\ worker' = "polling"
  /\ current' = NoTask
  /\ queue' = Append(queue, current)
  /\ UNCHANGED <<taskVars, used, pipeVars, history>>

TicketAwaited ==
  /\ worker = "holding"
  /\ current \notin used
  /\ UNCHANGED vars

(* A second passed without a job: TimeoutError, the worker takes the next.  *)
TicketTimesOut ==
  /\ worker = "holding"
  /\ current \notin used
  /\ worker' = "polling"
  /\ current' = NoTask
  /\ dropped' = dropped \cup {current}
  /\ UNCHANGED <<taskVars, queue, used, pipeVars, arrivals, runs>>

(* Deviation of NoticeClosed: the job stops without looking at the pipe.   *)
NoticeAnything ==
  /\ worker = "running"
  /\ worker' = "polling"
  /\ current' = NoTask
  /\ UNCHANGED <<taskVars, queue, used, pipeVars, history>>

(* A check of the job finds the pipe closed: InferenceCanceledError, _run   *)
(* returns.                                                                *)
NoticeClosed ==
  /\ worker = "running"
  /\ current \in shut
  /\ worker' = "polling"
  /\ current' = NoTask
  /\ UNCHANGED <<taskVars, queue, used, pipeVars, history>>

(* The last check of the job passes; what follows takes time.              *)
PassLastCheck ==
  /\ worker = "running"
  /\ current \notin shut
  /\ worker' = "checked"
  /\ UNCHANGED <<taskVars, queue, used, pipeVars, current, history>>

(* Deviation of Deliver: the pipe is closed before the result is written.  *)
CloseThenDeliver ==
  /\ worker = "checked"
  /\ current \notin shut
  /\ shut' = shut \cup {current}
  /\ UNCHANGED <<taskVars, queue, used, item, workerVars, history>>

(* output.pipe(result)                                                     *)
Deliver ==
  /\ worker = "checked"
  /\ current \notin shut
  /\ item' = item \cup {current}
  /\ worker' = "delivered"
  /\ UNCHANGED <<taskVars, queue, used, shut, current, history>>

(* PipeClosedError, which neither _run nor Worker.start catches.           *)
DeliverToClosed ==
  /\ worker = "checked"
  /\ current \in shut
  /\ worker' = "killed"
  /\ UNCHANGED <<taskVars, queue, used, pipeVars, current, history>>

(* output.close(), then the worker is back in its loop.                    *)
CloseOutput ==
  /\ worker = "delivered"
  /\ shut' = shut \cup {current}
  /\ worker' = "polling"
  /\ current' = NoTask
  /\ UNCHANGED <<taskVars, queue, used, item, history>>

(* The job raises something else, which ends the worker thread as well.    *)
JobRaises ==
  /\ worker \in {"running", "checked"}
  /\ worker' = "failed"
  /\ UNCHANGED <<taskVars, queue, used, pipeVars, current, history>>

-----------------------------------------------------------------------------
WorkerStep ==
  \/ GetTicket \/ TakeJob \/ TicketTimesOut \/ NoticeClosed \/ PassLastCheck
  \/ Deliver \/ DeliverToClosed \/ CloseOutput

(* What the coroutine of t does when nothing disturbs it.                  *)
Coroutine(t) ==
  UseTicket(t) \/ Receive(t) \/ Save(t) \/ Leave(t)

Next ==
  \/ WorkerStep
  \/ JobRaises
  \/ \E t \in Task :
       \/ Accept(t)
       \/ Coroutine(t)
       \/ \E how \in {"failed", "cancelled"} : AbandonFetch(t, how)
       \/ Cancel(t)
       \/ CancelLeaving(t)

Spec == Init /\ [][Next]_vars

(***************************************************************************)
(* The two threads run.  A coroutine proceeds: the storage answers within  *)
(* its timeouts and the executor has a thread to close a pipe.  A ready     *)
(* worker does not wait for ever in Ticket.task, its wait is timed.        *)
(***************************************************************************)
FairSpec ==
  /\ Spec
  /\ WF_vars(WorkerStep)
  /\ \A t \in Task : WF_vars(Coroutine(t))

-----------------------------------------------------------------------------
(* Properties                                                              *)

WorkerGone == worker \in {"failed", "killed"}

(* Types; the worker has a ticket exactly while it is busy with one, and a  *)
(* coroutine that leaves its pipe knows how it ends.                       *)
TypeOK ==
  /\ stage \in [Task -> Stages]
  /\ verdict \in [Task -> Ended \cup {"none"}]
  /\ \A t \in Task : stage[t] = "leaving" => verdict[t] \in Ended
  /\ queue \in Seq(Task)
  /\ used \subseteq Task
  /\ item \subseteq Task
  /\ shut \subseteq Task
  /\ worker \in WorkerStates
  /\ current \in Task \cup {NoTask}
  /\ (current = NoTask) = (worker = "polling")
  /\ arrivals \in Seq(Task)
  /\ runs \in Seq(Task)
  /\ dropped \subseteq Task

(* Jobs run in the order in which their tasks were accepted and each at     *)
(* most once, although tickets are used in any order and some are given up. *)
RunsInOrder ==
  /\ IsInjective(arrivals)
  /\ \A i, j \in DOMAIN runs :
       i < j => \E a, b \in DOMAIN arrivals :
                  a < b /\ arrivals[a] = runs[i] /\ arrivals[b] = runs[j]

(* The worker closes a pipe only with the result in it, so a coroutine that *)
(* is not canceled never sees PipeClosedError from `await pipe.pipe()`.     *)
ClosedMeansAnswered ==
  \A t \in Task : stage[t] = "waiting" /\ t \in shut => t \in item

(* A task that is accepted gets its result, or a failure, or is canceled,   *)
(* as long as the worker runs (README.md: it "returns the results").        *)
ReturnsResults ==
  \A t \in Task : stage[t] = "waiting" ~> stage[t] # "waiting" \/ WorkerGone

(* Canceling a task interrupts that task (README.md) and not the worker.    *)
CancelSparesWorker == worker # "killed"
=============================================================================
