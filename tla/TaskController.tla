--------------------------- MODULE TaskController ---------------------------
(***************************************************************************)
(* KafkaTaskController: records of a partition become cancellable tasks     *)
(* that run side by side; each ends with one transaction that sends the     *)
(* answer and commits the offset behind its record.  The process can go    *)
(* down at any time, and the next one reads on from the committed offset.   *)
(*                                                                         *)
(* The broker and aiokafka are external: a transaction happens as a whole  *)
(* or raises, for whatever reason (one producer serves all tasks).          *)
(*                                                                         *)
(* Of the executor of module ThreadPool this one keeps the threads that a   *)
(* wait for a result holds in vain: without a free one no ticket is queued  *)
(* and no pipe is closed, so a canceled task cannot leave its own.          *)
(***************************************************************************)
EXTENDS Cancellation, Sequences

CONSTANTS
  LogLength,  \* records of the partition are 1 .. LogLength
  Threads,    \* threads of the executor that are left for the tasks
  MaxRuns     \* bound: how often the process is started

ASSUME ControllerAssumption ==
  /\ LogLength \in Nat
  /\ Threads \in Nat \ {0}
  /\ MaxRuns \in Nat \ {0}
  /\ Instance \subseteq 1 .. LogLength

VARIABLES
  run,        \* which process this is
  position,   \* the next record the consumer fetches
  committed,  \* the offset of the group: where a new process begins
  handling,   \* the `_handle` task of an instance
  stranded,   \* tasks for whose results a thread waits that will not come
  answers,    \* history: the answers this process sent for a task, in order
  unsent,     \* history: its tasks whose last transaction raised
  settled     \* history: tasks that earlier processes answered or tried to

controllerVars ==
  <<run, position, committed, handling, stranded, answers, unsent, settled>>
allVars == <<cancelVars, controllerVars>>

Init ==
  /\ CancelInit
  /\ run = 1
  /\ position = 1
  /\ committed = 1
  /\ handling = [i \in Instance |-> "none"]
  /\ stranded = {}
  /\ answers = [i \in Instance |-> <<>>]
  /\ unsent = {}
  /\ settled = {}

(* No thread is left for a call of the event loop.                         *)
Exhausted == Cardinality(stranded) >= Threads

-----------------------------------------------------------------------------
(* The consumer loop: `handle`                                             *)

(* Deviation of Accept: the offset is committed on receipt.                *)
AcceptCommits(i) ==
  /\ i = position
  /\ ~Exhausted
  /\ Create(i)
  /\ handling' = [handling EXCEPT ![i] = "awaiting"]
  /\ position' = position + 1
  /\ committed' = position + 1
  /\ UNCHANGED <<run, stranded, answers, unsent, settled>>

(* A task: a thread queues its ticket, then both asyncio tasks are created. *)
Accept(i) ==
  /\ i = position
  /\ ~Exhausted
  /\ Create(i)
  /\ handling' = [handling EXCEPT ![i] = "awaiting"]
  /\ position' = position + 1
  /\ UNCHANGED <<run, committed, stranded, answers, unsent, settled>>

(* No value, or a ValueError: the offset behind it is committed at once.    *)
Skip ==
  /\ position \in (1 .. LogLength) \ Instance
  /\ committed' = position + 1
  /\ position' = position + 1
  /\ UNCHANGED <<cancelVars, run, handling, stranded, answers, unsent, settled>>

(* The result a thread waits for will not come: the worker has given up the *)
(* ticket of the task, or has ended.                                       *)
Strand(i) ==
  /\ inner[i] \in {"working", "leaving", "hurried"}
  /\ i \notin stranded
  /\ ~Exhausted
  /\ stranded' = stranded \cup {i}
  /\ UNCHANGED <<cancelVars, run, position, committed, handling, answers, unsent, settled>>

-----------------------------------------------------------------------------
(* Answers                                                                 *)

(* KafkaController.response succeeds: answer and offset together.          *)
Answer(i, a) ==
  /\ answers' = [answers EXCEPT ![i] = Append(@, a)]
  /\ committed' = i + 1
  /\ unsent' = unsent \ {i}

(* It raises, and neither happens.                                         *)
AnswerRaises(i) ==
  /\ unsent' = unsent \cup {i}
  /\ UNCHANGED <<answers, committed>>

(* `_handle_add` and the others: the service returned, the result is sent.  *)
SendResult(i) ==
  /\ i \notin stranded
  /\ \/ Finish(i, "done") /\ Answer(i, "result")
     \/ Finish(i, "failed") /\ AnswerRaises(i)
  /\ UNCHANGED <<run, position, handling, stranded, settled>>

(* The service raised.                                                     *)
WorkFails(i) ==
  /\ i \notin stranded
  /\ Finish(i, "failed")
  /\ UNCHANGED controllerVars

(* The cancellation finds the work outside its pipe, or in the transaction *)
(* of its result: that may still be committed while the task is canceled.  *)
Canceled(i) ==
  /\ i \notin stranded
  /\ \E how \in {"cancelled", "failed"} : Interrupt(i, how)
  /\ \/ UNCHANGED <<answers, committed, unsent>>
     \/ inner[i] = "working" /\ Answer(i, "result")
  /\ UNCHANGED <<run, position, handling, stranded, settled>>

(* It finds the work inside: AsyncPipeOut.__aexit__ hands the close of the  *)
(* pipe to the executor.                                                   *)
Retreat(i) ==
  /\ Interrupt(i, "leaving")
  /\ UNCHANGED controllerVars

(* A free thread closes the pipe, and the one that waits in it comes back.  *)
Closed(i) ==
  /\ ~Exhausted
  /\ \E how \in {"cancelled", "failed"} :
       /\ how = "failed" => i \notin stranded
       /\ Left(i, how)
  /\ stranded' = stranded \ {i}
  /\ UNCHANGED <<run, position, committed, handling, answers, unsent, settled>>

(* A second cancellation: the close is given up, whoever waits in the pipe. *)
Hurried(i) ==
  /\ Hurry(i)
  /\ UNCHANGED controllerVars

(* Deviations of the next two: the result is sent again; a cancellation is  *)
(* never answered.                                                         *)
CompletedAnswers(i) ==
  /\ inner[i] = "done"
  /\ Answer(i, "result")

CanceledSilently(i) ==
  /\ inner[i] = "cancelled"
  /\ UNCHANGED <<answers, committed, unsent>>

(* `_handle` when the outer task is over: `await task` returned.           *)
Completed(i) ==
  /\ inner[i] = "done"
  /\ UNCHANGED <<answers, committed, unsent>>

(* CancelledError: answered only when it was this service's cancellation.   *)
CanceledHere(i) ==
  /\ inner[i] = "cancelled"
  /\ \/ i \in flagged /\ (Answer(i, "cancelled") \/ AnswerRaises(i))
     \/ i \notin flagged /\ UNCHANGED <<answers, committed, unsent>>

(* Any other exception: _handle_exception.                                 *)
Failed(i) ==
  /\ inner[i] = "failed"
  /\ Answer(i, "failed") \/ AnswerRaises(i)

Handle(i) ==
  /\ handling[i] = "awaiting"
  /\ outer[i] = "ended"
  /\ Completed(i) \/ CanceledHere(i) \/ Failed(i)
  /\ handling' = [handling EXCEPT ![i] = "over"]
  /\ UNCHANGED <<cancelVars, run, position, stranded, settled>>

-----------------------------------------------------------------------------
(* Answered, or the transaction of the answer raised.                      *)
Settled(i) == i \in settled \/ i \in unsent \/ answers[i] # <<>>

(* The process goes down, by a crash or a shutdown (IO.stop awaits no task  *)
(* that handle created), and another one comes up with nothing in memory.  *)
Restart ==
  /\ run < MaxRuns
  /\ run' = run + 1
  /\ position' = committed
  /\ outer' = [i \in Instance |-> "none"]
  /\ inner' = [i \in Instance |-> "none"]
  /\ innerTasks' = [id \in Id |-> Absent]
  /\ outerTasks' = [id \in Id |-> Absent]
  /\ flagged' = {} /\ asked' = {}
  /\ handling' = [i \in Instance |-> "none"]
  /\ stranded' = {}
  /\ answers' = [i \in Instance |-> <<>>]
  /\ unsent' = {}
  /\ settled' = { i \in Instance : Settled(i) }
  /\ UNCHANGED committed

(* Steps of the cancellation service that leave the controller alone.       *)
Cancellable(i) ==
  /\ \/ \E cancelled \in BOOLEAN : Checked(i, cancelled)
     \/ Begin(i)
     \/ Untrack(i)
  /\ UNCHANGED controllerVars

PushCancel(id) == Push(id) /\ UNCHANGED controllerVars

Progress(i) ==
  Cancellable(i) \/ Canceled(i) \/ Retreat(i) \/ Closed(i) \/ Hurried(i) \/ Handle(i)

Next ==
  \/ Skip
  \/ Restart
  \/ \E i \in Instance :
       Accept(i) \/ Strand(i) \/ SendResult(i) \/ WorkFails(i) \/ Progress(i)
  \/ \E id \in Id : PushCancel(id)

Spec == Init /\ [][Next]_allVars

(* The event loop of the process runs, a thread that is free takes up what  *)
(* it is handed, and the broker ends a transaction one way or the other;    *)
(* services need not come to an end.                                       *)
FairSpec == Spec /\ \A i \in Instance : WF_allVars(Progress(i))

-----------------------------------------------------------------------------
(* Properties                                                              *)

(* Types of the state of the broker, the process and the histories.        *)
TypeOK ==
  /\ CancelTypeOK
  /\ run \in 1 .. MaxRuns
  /\ position \in 1 .. LogLength + 1
  /\ committed \in 1 .. LogLength + 1
  /\ handling \in [Instance -> {"none", "awaiting", "over"}]
  /\ answers \in [Instance -> Seq({"result", "failed", "cancelled"})]
  /\ unsent \cup settled \cup stranded \subseteq Instance

Answered(i) == answers[i] # <<>>

(* `_handle` gives up no task silently: what it is done with was answered,  *)
(* unless the transaction of the answer raised.                            *)
NoneDropped ==
  \A i \in Instance : handling[i] = "over" => Answered(i) \/ i \in unsent

(* A task is answered once, with one exception: its cancellation came while *)
(* its result was being committed, then the manager gets both.             *)
SecondAnswerIsCancel ==
  \A i \in Instance :
    Len(answers[i]) > 1 =>
      i \in asked /\ answers[i] \in {<<"result", "cancelled">>, <<"result", "failed">>}

(* No task is lost: once it is fetched, the process works on it or has      *)
(* settled it, also when an earlier process fetched it (README.md: the      *)
(* service "receives tasks, runs the models and returns the results").      *)
NoTaskLost ==
  \A i \in Instance : i < position => handling[i] = "awaiting" \/ Settled(i)

(* What a restart can lose is bounded: a task under way is lost only when a *)
(* later record was fetched and overtook it, because it held no task or was *)
(* answered first, and so had its offset committed.                        *)
RestartLosesOvertaken ==
  [][run' # run =>
       \A i \in Instance :
         handling[i] = "awaiting" /\ i < committed /\ ~Settled(i)
           => \E s \in i + 1 .. position - 1 :
                s \in Instance => Settled(s)]_allVars

(* A canceled task comes to its end and to its answer as long as the process *)
(* lives, also when nobody will ever answer it.  The one exception: every   *)
(* thread waits for a result that will not come.  Then a task that was      *)
(* inside its pipe waits for ever to close it, and is never answered.      *)
CanceledSettles ==
  \A i \in Instance :
    \A r \in 1 .. MaxRuns :
      (i \in asked /\ run = r) ~> (handling[i] = "over" \/ run > r \/ Exhausted)
=============================================================================
