----------------------------- MODULE ThreadPool -----------------------------
(***************************************************************************)
(* Handoff with the threads it needs.  The event loop does nothing blocking *)
(* itself: queueing a ticket, waiting for a result and closing a pipe are    *)
(* asyncio.to_thread calls, served in the order of submission by the        *)
(* bounded default executor of the loop.  A wait keeps its thread until      *)
(* there is a result or the pipe is closed, which takes a thread too.       *)
(***************************************************************************)
EXTENDS Handoff, FiniteSets

CONSTANTS
  Threads,  \* threads of the executor that are left for the tasks: IO waits
            \* for its stop in one more, LokiSink collects batches in another
  Log       \* the tasks in the order of their messages

ASSUME ThreadPoolAssumption == Threads \in Nat \ {0} /\ Log \in Seq(Task)

VARIABLES
  calls,     \* calls no thread has taken up, in order: <<what, task>>
  blocked,   \* tasks for whose results a thread waits
  withdrawn  \* history: tasks canceled before a thread took up their close

poolVars == <<vars, calls, blocked, withdrawn>>

Put(t) == <<"put", t>>       \* Scheduler.queue
PipeOut(t) == <<"wait", t>>  \* Pipe.apipe_out
Close(t) == <<"close", t>>   \* Pipe.aclose
Call == {"put", "wait", "close"} \X Task

PoolInit == Init /\ calls = <<>> /\ blocked = {} /\ withdrawn = {}

Submit(call) == calls' = Append(calls, call)

(* The coroutine gives up a call: the executor skips it if no thread has it. *)
Withdraw(call) ==
  IF Contains(calls, call)
  THEN RemoveAt(calls, CHOOSE i \in 1 .. Len(calls) : calls[i] = call)
  ELSE calls

-----------------------------------------------------------------------------
(* The event loop.                                                         *)

(* KafkaTaskController.handle, which takes up one message after another.   *)
AskTicket(t) ==
  /\ stage[t] = "new"
  /\ ~Contains(calls, Put(t))
  /\ \E n \in DOMAIN Log : Log[n] = t /\ \A k \in 1 .. n - 1 : stage[Log[k]] # "new"
  /\ Submit(Put(t))
  /\ UNCHANGED <<vars, blocked, withdrawn>>

AskResult(t) ==
  /\ UseTicket(t)
  /\ Submit(PipeOut(t))
  /\ UNCHANGED <<blocked, withdrawn>>

AskClose(t) ==
  /\ Save(t)
  /\ Submit(Close(t))
  /\ UNCHANGED <<blocked, withdrawn>>

(* Deviation of CancelInside: the coroutine ends without closing its pipe.  *)
CancelUnclosed(t) ==
  /\ Cancel(t)
  /\ calls' = Withdraw(PipeOut(t))
  /\ UNCHANGED <<blocked, withdrawn>>

CancelInside(t) ==
  /\ Cancel(t)
  /\ calls' = Append(Withdraw(PipeOut(t)), Close(t))
  /\ UNCHANGED <<blocked, withdrawn>>

CancelClose(t) ==
  /\ stage[t] = "leaving"
  /\ Contains(calls, Close(t))
  /\ CancelLeaving(t)
  /\ UNCHANGED shut
  /\ calls' = Withdraw(Close(t))
  /\ withdrawn' = withdrawn \cup {t}
  /\ UNCHANGED blocked

Abandon(t) ==
  /\ \E how \in {"failed", "cancelled"} : AbandonFetch(t, how)
  /\ UNCHANGED <<calls, blocked, withdrawn>>

-----------------------------------------------------------------------------
(* The threads.                                                            *)

(* A thread is free and takes up the next call.                            *)
TakeUp(call) ==
  /\ Cardinality(blocked) < Threads
  /\ calls # <<>>
  /\ Head(calls) = call
  /\ calls' = Tail(calls)
  /\ UNCHANGED withdrawn

DoPut(t) == TakeUp(Put(t)) /\ Accept(t) /\ UNCHANGED blocked

DoWait(t) == TakeUp(PipeOut(t)) /\ blocked' = blocked \cup {t} /\ UNCHANGED vars

DoClose(t) == TakeUp(Close(t)) /\ Leave(t) /\ UNCHANGED blocked

Serve(t) == DoPut(t) \/ DoWait(t) \/ DoClose(t)

(* pipe_out returns the result, which nobody looks at when the coroutine    *)
(* has left, or raises.                                                    *)
Release(t) ==
  /\ t \in blocked
  /\ t \in item \cup shut
  /\ blocked' = blocked \ {t}
  /\ IF stage[t] = "waiting" THEN Receive(t) ELSE UNCHANGED vars
  /\ UNCHANGED <<calls, withdrawn>>

-----------------------------------------------------------------------------
WorkerMoves == WorkerStep /\ UNCHANGED <<calls, blocked, withdrawn>>

PoolNext ==
  \/ WorkerMoves
  \/ JobRaises /\ UNCHANGED <<calls, blocked, withdrawn>>
  \/ \E t \in Task :
       \/ AskTicket(t) \/ AskResult(t) \/ AskClose(t)
       \/ CancelInside(t) \/ CancelClose(t) \/ Abandon(t)
       \/ Serve(t) \/ Release(t)

PoolSpec == PoolInit /\ [][PoolNext]_poolVars

(* The worker runs, the storage answers, and a thread that can go on does.  *)
PoolFairSpec ==
  /\ PoolSpec
  /\ WF_poolVars(WorkerMoves)
  /\ WF_poolVars(\E t \in Task : Serve(t))
  /\ \A t \in Task : /\ WF_poolVars(AskResult(t) \/ AskClose(t))
                     /\ WF_poolVars(Release(t))

-----------------------------------------------------------------------------
(* Properties                                                              *)

(* Every thread may wait for a ticket the worker has given up.             *)
Exhausted == Cardinality(dropped) >= Threads

(* Whatever is handed to the executor is taken up: the threads that wait for *)
(* results and the calls that would set them free do not wait for each       *)
(* other, however many tasks there are and however they are canceled, as    *)
(* long as the worker has given up fewer tickets than there are threads.    *)
CallsAreServed ==
  \A c \in Call : Contains(calls, c) ~> ~Contains(calls, c) \/ WorkerGone \/ Exhausted

(* A task whose ticket was used in time gets an answer all the same.       *)
WaiterServedByPool ==
  \A t \in Task :
    stage[t] = "waiting" ~>
      stage[t] # "waiting" \/ t \in dropped \/ WorkerGone \/ Exhausted

(* A thread that waits for the result of a task that has gone comes back: by *)
(* the close of the pipe, or, if a second cancellation withdrew that close,  *)
(* by the result the worker computes for nobody.  It is lost only when both  *)
(* are missing: the close was withdrawn and the ticket given up.           *)
ThreadsComeBack ==
  \A t \in Task :
    t \in blocked /\ stage[t] # "waiting" ~>
      \/ t \notin blocked
      \/ t \in withdrawn /\ t \in dropped
      \/ WorkerGone \/ Exhausted
=============================================================================
