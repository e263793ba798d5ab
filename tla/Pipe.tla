-------------------------------- MODULE Pipe --------------------------------
(***************************************************************************)
(* Pipe.py: the channel between the worker thread, which produces results, *)
(* and the event loop, which receives and closes from threads of the       *)
(* default executor.  The lock makes the body of each method one step,      *)
(* except pipe_out, which gives the lock up in `wait`; the steps around    *)
(* that wait are where a wake-up could be lost.                             *)
(***************************************************************************)
EXTENDS Naturals, Sequences, SequencesExt

CONSTANTS
  Consumers,  \* threads that call pipe_out
  MaxItems    \* bound: items written in a behaviour

ASSUME PipeAssumption == MaxItems \in Nat

VARIABLES
  timed,    \* whether this pipe's consumers pass a timeout
  queue,    \* Pipe._queue: the items, numbered as they are accepted
  written,  \* how many were accepted
  closed,   \* Pipe._closed
  waiters,  \* Condition._waiters: threads waiting and not yet notified, in order
  pc,       \* where each consumer thread is
  result    \* what its last pipe_out returned or raised

vars == <<timed, queue, written, closed, waiters, pc, result>>

Nothing == 0
Closed == MaxItems + 1     \* PipeClosedError
TimedOut == MaxItems + 2   \* TimeoutError

(***************************************************************************)
(* A pipe is read without a timeout, as the services do (apipe_out), or    *)
(* with one, as PipeOut.pipe allows; nothing reads one pipe both ways.     *)
(***************************************************************************)
Init ==
  /\ timed \in BOOLEAN
  /\ queue = <<>>
  /\ written = 0
  /\ closed = FALSE
  /\ waiters = <<>>
  /\ pc = [c \in Consumers |-> "idle"]
  /\ result = [c \in Consumers |-> Nothing]

-----------------------------------------------------------------------------
(* The condition variable.                                                 *)

(* notify(): the longest waiting thread is woken, if there is one.         *)
Notify == waiters' = IF waiters = <<>> THEN <<>> ELSE Tail(waiters)

NotifyAll == waiters' = <<>>

-----------------------------------------------------------------------------
(* The producing side.                                                     *)

(* Deviation of PipeIn: nobody is notified.                                *)
PipeInSilent ==
  /\ ~closed
  /\ written < MaxItems
  /\ written' = written + 1
  /\ queue' = Append(queue, written + 1)
  /\ UNCHANGED <<timed, closed, waiters, pc, result>>

(* pipe_in on an open pipe; on a closed one it raises and changes nothing. *)
PipeIn ==
  /\ ~closed
  /\ written < MaxItems
  /\ written' = written + 1
  /\ queue' = Append(queue, written + 1)
  /\ Notify
  /\ UNCHANGED <<timed, closed, pc, result>>

(* Deviation of Close: one waiter is notified.                             *)
CloseNotifiesOne ==
  /\ closed' = TRUE
  /\ Notify
  /\ UNCHANGED <<timed, queue, written, pc, result>>

(* close, by the producer when it is done or by a consumer that leaves.    *)
Close ==
  /\ closed' = TRUE
  /\ NotifyAll
  /\ UNCHANGED <<timed, queue, written, pc, result>>

-----------------------------------------------------------------------------
(* pipe_out                                                                *)

Call(c) ==
  /\ pc[c] = "idle"
  /\ pc' = [pc EXCEPT ![c] = "entering"]
  /\ result' = [result EXCEPT ![c] = Nothing]
  /\ UNCHANGED <<timed, queue, written, closed, waiters>>

Return(c, r) ==
  /\ pc' = [pc EXCEPT ![c] = "idle"]
  /\ result' = [result EXCEPT ![c] = r]

(***************************************************************************)
(* With the lock held, at the head of the loop: on entry, or after `wait`  *)
(* came back because the thread was notified.                              *)
(***************************************************************************)
HoldsLoop(c) ==
  \/ pc[c] = "entering"
  \/ pc[c] = "waiting" /\ ~Contains(waiters, c)

TakeItem(c) ==
  /\ HoldsLoop(c)
  /\ queue # <<>>
  /\ Return(c, Head(queue))
  /\ queue' = Tail(queue)
  /\ UNCHANGED <<timed, written, closed, waiters>>

(* Deviation of RaiseClosed: the flag is looked at before the queue.       *)
RaiseClosedFirst(c) ==
  /\ HoldsLoop(c)
  /\ closed
  /\ Return(c, Closed)
  /\ UNCHANGED <<timed, queue, written, closed, waiters>>

RaiseClosed(c) ==
  /\ HoldsLoop(c)
  /\ queue = <<>>
  /\ closed
  /\ Return(c, Closed)
  /\ UNCHANGED <<timed, queue, written, closed, waiters>>

Wait(c) ==
  /\ HoldsLoop(c)
  /\ queue = <<>>
  /\ ~closed
  /\ waiters' = Append(waiters, c)
  /\ pc' = [pc EXCEPT ![c] = "waiting"]
  /\ UNCHANGED <<timed, queue, written, closed, result>>

(***************************************************************************)
(* The time of a waiting thread runs out before it is notified.  It does   *)
(* not hold the lock yet and is still among the waiters: a notification     *)
(* that comes now is spent on it.                                          *)
(***************************************************************************)
Expire(c) ==
  /\ timed
  /\ pc[c] = "waiting"
  /\ Contains(waiters, c)
  /\ pc' = [pc EXCEPT ![c] = "expired"]
  /\ UNCHANGED <<timed, queue, written, closed, waiters, result>>

(* `self._waiters.remove(waiter)`, unless a notification has done it.      *)
Withdraw(c) ==
  \/ \E i \in DOMAIN waiters : waiters[i] = c /\ waiters' = RemoveAt(waiters, i)
  \/ ~Contains(waiters, c) /\ UNCHANGED waiters

(* With the lock again, `wait` returns False and pipe_out raises.          *)
RaiseTimeout(c) ==
  /\ pc[c] = "expired"
  /\ Withdraw(c)
  /\ Return(c, TimedOut)
  /\ UNCHANGED <<timed, queue, written, closed>>

(* The steps a thread inside pipe_out takes by itself.                     *)
Proceed(c) == TakeItem(c) \/ RaiseClosed(c) \/ Wait(c) \/ RaiseTimeout(c)

Next ==
  \/ PipeIn
  \/ Close
  \/ \E c \in Consumers : Call(c) \/ Proceed(c) \/ Expire(c)

Spec == Init /\ [][Next]_vars

(***************************************************************************)
(* A runnable thread runs and gets the lock in its turn.  No fairness for  *)
(* writes, closes, calls and timeouts: nobody need make them.              *)
(***************************************************************************)
FairSpec == Spec /\ \A c \in Consumers : WF_vars(Proceed(c))

-----------------------------------------------------------------------------
(* Properties                                                              *)

(* Types; a waiter waits or has expired, and is listed once.               *)
TypeOK ==
  /\ timed \in BOOLEAN
  /\ queue \in Seq(1 .. MaxItems)
  /\ written \in 0 .. MaxItems
  /\ closed \in BOOLEAN
  /\ waiters \in Seq(Consumers)
  /\ IsInjective(waiters)
  /\ \A c \in ToSet(waiters) : pc[c] \in {"waiting", "expired"}
  /\ pc \in [Consumers -> {"idle", "entering", "waiting", "expired"}]
  /\ result \in [Consumers -> 0 .. MaxItems + 2]

(* A consumer without a timeout that is inside pipe_out when there is      *)
(* something to take returns, or others take everything before it.         *)
ItemMeetsConsumer ==
  \A c \in Consumers :
    (~timed /\ pc[c] # "idle" /\ queue # <<>>) ~> (pc[c] = "idle" \/ queue = <<>>)

(* Closing a pipe releases every consumer: no coroutine awaits a closed     *)
(* pipe for ever.                                                          *)
CloseReleases ==
  \A c \in Consumers : (closed /\ pc[c] # "idle") ~> pc[c] = "idle"

Inside == { c \in Consumers : pc[c] # "idle" }

C == INSTANCE Channel WITH
  Receiver <- Consumers, impatient <- timed, content <- queue, accepted <- written,
  shut <- closed, asking <- Inside, outcome <- result

(* Lock, condition and deque together are a closable FIFO channel: no item *)
(* is lost, duplicated, reordered or accepted after the close.             *)
ImplementsChannel == C!Spec
=============================================================================
