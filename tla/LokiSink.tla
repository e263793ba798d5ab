------------------------------ MODULE LokiSink ------------------------------
(***************************************************************************)
(* LokiSink.py: log events of every thread go through a bounded queue to a  *)
(* Loki server.  A coroutine, the flusher, has an executor thread collect a *)
(* batch, pushes it with a few attempts and starts over; `__aexit__` stops *)
(* it, waits a limited time for it and pushes what is left in the queue.   *)
(* A failed attempt is itself logged, hence queued.                        *)
(*                                                                         *)
(* The server is external: a push may reach it and still be reported as    *)
(* failed.  If a request reaches it, it does so before the attempt is over *)
(* (StoredInOrder rests on this); one still under way when its coroutine   *)
(* is canceled arrives at that moment or never.                            *)
(***************************************************************************)
EXTENDS Naturals, Sequences, SequencesExt

CONSTANTS
  Capacity,   \* queue.Queue(maxsize = 10_000)
  BatchSize,  \* config.batch_size
  Attempts,   \* max(1, config.retries)
  MaxEvents   \* bound: events the threads of the service log

(* With batches no larger than the number of warnings one of them can cause *)
(* the last drain would feed itself for ever while the server is down.     *)
ASSUME LokiAssumption ==
  /\ {Capacity, BatchSize, Attempts} \subseteq Nat \ {0}
  /\ MaxEvents \in Nat
  /\ Attempts < BatchSize

VARIABLES
  queue,     \* LokiSink._queue
  offered,   \* events logged so far; they are numbered in order
  flusher,   \* where the coroutine _flush_loop is
  orphan,    \* the thread of a canceled flusher still collects
  collected, \* the batch of the collecting thread
  batch,     \* the batch being pushed, by the flusher or by __aexit__
  attempt,   \* which attempt at it this is
  sink,      \* the life of the sink; from "closing" on _stop is set
  drained,   \* the batch __aexit__ is putting together
  stored,    \* history: events the server has
  early,     \* history: events logged before the sink was closed
  trouble    \* history: an attempt failed, or the flusher was canceled

queueVars == <<queue, offered, early>>
flusherVars == <<flusher, orphan, collected>>
pushVars == <<batch, attempt, stored, trouble>>
exitVars == <<sink, drained>>
vars == <<queue, offered, early, flusher, orphan, collected, batch, attempt,
          stored, trouble, sink, drained>>

(* The sink's own warnings are not told apart.                             *)
Warning == 0
Events == 1 .. MaxEvents

Init ==
  /\ queue = <<>>
  /\ offered = 0
  /\ flusher = "head"
  /\ orphan = FALSE
  /\ collected = <<>>
  /\ batch = <<>>
  /\ attempt = 0
  /\ sink = "open"
  /\ drained = <<>>
  /\ stored = {}
  /\ early = {}
  /\ trouble = FALSE

-----------------------------------------------------------------------------
(* put_nowait; an event that finds the queue full is dropped.              *)
Put(e) == queue' = IF Len(queue) < Capacity THEN Append(queue, e) ELSE queue

(* enqueue, by any thread, also after the sink was closed.                 *)
Enqueue ==
  /\ offered < MaxEvents
  /\ offered' = offered + 1
  /\ Put(offered + 1)
  /\ early' = IF sink = "open" /\ Len(queue) < Capacity
              THEN early \cup {offered + 1} ELSE early
  /\ UNCHANGED <<flusherVars, pushVars, exitVars>>

-----------------------------------------------------------------------------
(* The flusher                                                             *)

StartCollecting ==
  /\ flusher = "head"
  /\ sink = "open"
  /\ flusher' = "collecting"
  /\ UNCHANGED <<queueVars, orphan, collected, pushVars, exitVars>>

SeeStop ==
  /\ flusher = "head"
  /\ sink # "open"
  /\ flusher' = "stopped"
  /\ UNCHANGED <<queueVars, orphan, collected, pushVars, exitVars>>

(* _collect_batch takes one more event.                                    *)
Collect ==
  /\ flusher = "collecting" \/ orphan
  /\ queue # <<>>
  /\ Len(collected) < BatchSize
  /\ collected' = Append(collected, Head(queue))
  /\ queue' = Tail(queue)
  /\ UNCHANGED <<offered, early, flusher, orphan, pushVars, exitVars>>

StartPush(b) ==
  /\ batch' = b
  /\ attempt' = 1

(* It returns, the batch being full or the time over; an empty one is not   *)
(* pushed.                                                                 *)
HandBatch ==
  /\ flusher = "collecting"
  /\ collected' = <<>>
  /\ IF collected = <<>>
     THEN flusher' = "head" /\ UNCHANGED <<batch, attempt>>
     ELSE flusher' = "pushing" /\ StartPush(collected)
  /\ UNCHANGED <<queueVars, orphan, stored, trouble, exitVars>>

(* Nobody takes the batch of a canceled flusher's thread.                  *)
OrphanReturns ==
  /\ orphan
  /\ orphan' = FALSE
  /\ collected' = <<>>
  /\ UNCHANGED <<queueVars, flusher, pushVars, exitVars>>

-----------------------------------------------------------------------------
(* _push                                                                   *)

Pushing == batch # <<>>

Received == ToSet(batch) \cap Events

(* _push returns to the flusher or to __aexit__.                           *)
PushReturns ==
  /\ batch' = <<>>
  /\ attempt' = 0
  /\ flusher' = IF flusher = "pushing" THEN "head" ELSE flusher
  /\ sink' = IF sink = "flushing" THEN "closed" ELSE sink

PostSucceeds ==
  /\ Pushing
  /\ stored' = stored \cup Received
  /\ PushReturns
  /\ UNCHANGED <<queueVars, orphan, collected, drained, trouble>>

(* Deviation of PostFails: every attempt is followed by another one.       *)
PostFailsForever ==
  /\ Pushing
  /\ \E reached \in BOOLEAN : stored' = stored \cup IF reached THEN Received ELSE {}
  /\ Put(Warning)
  /\ trouble' = TRUE
  /\ UNCHANGED <<attempt, batch, flusher, sink, offered, early, orphan, collected, drained>>

(* Another status than 2xx, or an httpx.HTTPError: it is logged, and tried  *)
(* again or given up.                                                      *)
PostFails ==
  /\ Pushing
  /\ \E reached \in BOOLEAN : stored' = stored \cup IF reached THEN Received ELSE {}
  /\ Put(Warning)
  /\ trouble' = TRUE
  /\ IF attempt < Attempts
     THEN attempt' = attempt + 1 /\ UNCHANGED <<batch, flusher, sink>>
     ELSE PushReturns
  /\ UNCHANGED <<offered, early, orphan, collected, drained>>

(* Any other exception ends the flusher, or leaves __aexit__.              *)
PostRaises ==
  /\ Pushing
  /\ trouble' = TRUE
  /\ batch' = <<>>
  /\ attempt' = 0
  /\ IF flusher = "pushing"
     THEN flusher' = "dead" /\ UNCHANGED sink
     ELSE sink' = "broken" /\ UNCHANGED flusher
  /\ UNCHANGED <<queueVars, orphan, collected, drained, stored>>

-----------------------------------------------------------------------------
(* __aexit__                                                               *)

BeginExit ==
  /\ sink = "open"
  /\ sink' = "closing"
  /\ UNCHANGED <<queueVars, flusherVars, pushVars, drained>>

(* Deviation of FlusherEnds: nobody waits for the flusher.                 *)
FlusherIgnored ==
  /\ sink = "closing"
  /\ sink' = "draining"
  /\ UNCHANGED <<queueVars, flusherVars, pushVars, drained>>

(* wait_for returns, or raises what ended the flusher.                     *)
FlusherEnds ==
  /\ sink = "closing"
  /\ \/ flusher = "stopped" /\ sink' = "draining"
     \/ flusher = "dead" /\ sink' = "broken"
  /\ UNCHANGED <<queueVars, flusherVars, pushVars, drained>>

(* The time is over: wait_for cancels the flusher.  A thread it has         *)
(* collecting goes on, a request it has under way may still arrive.        *)
CancelFlusher ==
  /\ sink = "closing"
  /\ flusher \in {"collecting", "pushing"}
  /\ flusher' = "cancelled"
  /\ orphan' = (flusher = "collecting")
  /\ batch' = <<>>
  /\ attempt' = 0
  /\ \E reached \in BOOLEAN : stored' = stored \cup IF reached THEN Received ELSE {}
  /\ trouble' = TRUE
  /\ sink' = "draining"
  /\ UNCHANGED <<queueVars, collected, drained>>

(* _drain_and_push_remaining takes one more event and pushes a full batch.  *)
Drain ==
  /\ sink = "draining"
  /\ ~Pushing
  /\ queue # <<>>
  /\ queue' = Tail(queue)
  /\ LET b == Append(drained, Head(queue)) IN
       IF Len(b) >= BatchSize
       THEN drained' = <<>> /\ StartPush(b)
       ELSE drained' = b /\ UNCHANGED <<batch, attempt>>
  /\ UNCHANGED <<offered, early, flusherVars, stored, trouble, sink>>

(* Deviation of DrainEnds: the queue need not be empty.                    *)
DrainEndsEarly ==
  /\ sink = "draining"
  /\ ~Pushing
  /\ drained = <<>>
  /\ sink' = "closed"
  /\ UNCHANGED <<queueVars, flusherVars, pushVars, drained>>

(* The queue is empty: what is left is pushed, then the sink is closed.     *)
DrainEnds ==
  /\ sink = "draining"
  /\ ~Pushing
  /\ queue = <<>>
  /\ drained' = <<>>
  /\ IF drained = <<>>
     THEN sink' = "closed" /\ UNCHANGED <<batch, attempt>>
     ELSE sink' = "flushing" /\ StartPush(drained)
  /\ UNCHANGED <<queueVars, flusherVars, stored, trouble>>

-----------------------------------------------------------------------------
FlushLoop == StartCollecting \/ SeeStop \/ HandBatch
Post == PostSucceeds \/ PostFails \/ PostRaises
Exit == FlusherEnds \/ Drain \/ DrainEnds

Next ==
  \/ Enqueue
  \/ FlushLoop
  \/ Collect
  \/ OrphanReturns
  \/ Post
  \/ BeginExit
  \/ CancelFlusher
  \/ Exit

Spec == Init /\ [][Next]_vars

(***************************************************************************)
(* The loop runs its coroutines, the time to collect a batch is limited,   *)
(* and so is the time of a request, whatever its outcome: the server may   *)
(* fail for ever.                                                          *)
(***************************************************************************)
FairSpec ==
  /\ Spec
  /\ WF_vars(FlushLoop)
  /\ WF_vars(Post)
  /\ WF_vars(Exit)

-----------------------------------------------------------------------------
(* Properties                                                              *)

(* Types; nothing exceeds its limit, and a push has a pusher.              *)
TypeOK ==
  /\ queue \in Seq(0 .. MaxEvents) /\ Len(queue) =< Capacity
  /\ offered \in 0 .. MaxEvents
  /\ flusher \in {"head", "collecting", "pushing", "stopped", "cancelled", "dead"}
  /\ orphan \in BOOLEAN
  /\ collected \in Seq(0 .. MaxEvents) /\ Len(collected) =< BatchSize
  /\ batch \in Seq(0 .. MaxEvents) /\ Len(batch) =< BatchSize
  /\ attempt \in 0 .. Attempts
  /\ attempt = 0 <=> ~Pushing
  /\ sink \in {"open", "closing", "draining", "flushing", "closed", "broken"}
  /\ Pushing => (flusher = "pushing" <=> sink \notin {"draining", "flushing"})
  /\ drained \in Seq(0 .. MaxEvents)
  /\ stored \subseteq Events /\ early \subseteq Events
  /\ trouble \in BOOLEAN

(* The server gets events in the order they were logged, whoever pushes    *)
(* them: what arrives new is newer than all that arrived before.           *)
StoredInOrder ==
  [][\A e \in stored' \ stored : \A s \in stored : s < e]_vars

(* A sink that was closed properly has left nothing behind: what was       *)
(* accepted before the exit began is out of the queue, and the server has   *)
(* all of it if every attempt succeeded and the flusher was not canceled.  *)
CloseLeavesNothing ==
  sink = "closed" =>
    /\ ToSet(queue) \cap early = {}
    /\ ~trouble => early \subseteq stored

(* Closing comes to an end although failed attempts fill the queue again   *)
(* with warnings, and the server may be down for good.                     *)
ExitEnds == sink = "closing" ~> sink \in {"closed", "broken"}
=============================================================================
