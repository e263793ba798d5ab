----------------------------- MODULE Lifecycle ------------------------------
(***************************************************************************)
(* Service.do and Standalone.do: the main thread starts the worker thread   *)
(* and the IO thread with its event loop, waits until it is told to stop (a *)
(* signal, or either thread's end), then stops and joins the IO thread,     *)
(* then the worker, and leaves; the interpreter exits when the threads of   *)
(* the loop's executor have ended as well.                                 *)
(*                                                                         *)
(* The loop of the service runs one coroutine per controller, gathered by   *)
(* `_io_main`, and the tasks those handle, which nobody gathers.  The loop  *)
(* of the standalone program runs one coroutine, LocalTaskController.run    *)
(* (LocalPipeline has it in detail), which handles its tasks one by one and *)
(* then ends the program.  A task that waits for the result of its job      *)
(* occupies an executor thread (Pipe.apipe_out).                           *)
(*                                                                         *)
(* The threads of the standalone program log through TerminalRenderer, so   *)
(* every log call may make its thread wait.  The service logs to stdout and *)
(* to a queue (LokiSink) and never waits.                                  *)
(***************************************************************************)
EXTENDS TerminalRenderer

CONSTANTS
  Controller,   \* task and cancellation controllers of the service
  Task          \* bound: names of the tasks handled

ASSUME LifecycleAssumption ==
  /\ Thread = {"main", "io", "worker"}
  /\ Controller # {}

VARIABLES
  program,       \* which of the two programs was started
  done,          \* the event the main thread waits for
  main,          \* where the main thread is in `do`
  io,            \* where the IO thread is: in IO.start and `_io_main`
  worker,        \* where the worker thread is in Worker.start
  ioStopped,     \* IO._stopped
  workerStopped, \* Worker._stopped
  controller,    \* the coroutine `run` of each controller
  job,           \* each task, its job, and the thread that waits for it
  lost           \* history: a start cleared the stop that had come before it

ioVars == <<io, controller>>
workerVars == <<worker, workerStopped>>
stopVars == <<ioStopped, lost>>
vars == <<program, done, main, io, worker, ioStopped, workerStopped, controller,
          job, lost, rendererVars>>

(* The one controller of the standalone program.                           *)
Local == CHOOSE c \in Controller : TRUE

Init ==
  /\ \/ program = "service" /\ RendererInit(FALSE)
     \/ program = "standalone" /\ \E b \in BOOLEAN : RendererInit(b)
  /\ done = FALSE
  /\ main = "configuring"
  /\ io = "new"
  /\ worker = "new"
  /\ ioStopped = FALSE
  /\ workerStopped = FALSE
  /\ controller = [c \in Controller |-> "none"]
  /\ job = [t \in Task |-> "none"]
  /\ lost = FALSE

(* A controller whose `run` is not over.  It is over for one whose stop was *)
(* interrupted ("torn"), although that one has not left its consumer group. *)
Busy == {"parsing", "running", "stopping", "hurried", "deaf"}

LoopRuns == io \in {"serving", "canceling", "awaiting", "closing"}

(* A thread goes on when its log call has returned.                        *)
Free(th) == call[th] = NoCall

Logs(th, name, error) ==
  IF program = "standalone" THEN Say(th, name, error) ELSE UNCHANGED rendererVars

Silent == UNCHANGED rendererVars

-----------------------------------------------------------------------------
(* The main thread.  Each of these steps ends in a log call, and the next   *)
(* one waits for its return.                                               *)

MainGoes(from, to) ==
  /\ main = from
  /\ Free("main")
  /\ main' = to
  /\ UNCHANGED program

(* cli: the first log call starts the display.                             *)
Configure ==
  /\ MainGoes("configuring", "starting")
  /\ Logs("main", "Parse Service Config", NoError)
  /\ UNCHANGED <<done, ioVars, workerVars, stopVars, job>>

StartUp ==
  /\ MainGoes("starting", "spawning")
  /\ Logs("main", "Startup Service", NoError)
  /\ UNCHANGED <<done, ioVars, workerVars, stopVars, job>>

(* Both threads are started.                                               *)
Spawn ==
  /\ MainGoes("spawning", "waiting")
  /\ Logs("main", Unset, NoError)
  /\ UNCHANGED <<done, ioVars, workerVars, stopVars, job>>

Spawned == main \notin {"configuring", "starting", "spawning"}

(* SIGTERM or SIGINT, once their handlers are installed.                   *)
Signal ==
  /\ ~done
  /\ main = "waiting" \/ (main = "spawning" /\ Free("main"))
  /\ done' = TRUE
  /\ Silent
  /\ UNCHANGED <<program, main, ioVars, workerVars, stopVars, job>>

(* done.wait() returns.                                                    *)
ShutDown ==
  /\ done
  /\ MainGoes("waiting", "shutting")
  /\ Logs("main", "Shutdown Service", NoError)
  /\ UNCHANGED <<done, ioVars, workerVars, stopVars, job>>

(* IO.stop logs, and then sets its event.                                  *)
AnnounceStop ==
  /\ MainGoes("shutting", "stopping io")
  /\ Logs("main", Unset, NoError)
  /\ UNCHANGED <<done, ioVars, workerVars, stopVars, job>>

StopIo ==
  /\ MainGoes("stopping io", "joining io")
  /\ ioStopped' = TRUE
  /\ Silent
  /\ UNCHANGED <<done, ioVars, workerVars, lost, job>>

(* Deviation of JoinIo: without the join.                                  *)
JoinIoSkipped ==
  /\ MainGoes("joining io", "stopping worker")
  /\ Logs("main", Unset, NoError)
  /\ UNCHANGED <<done, ioVars, workerVars, stopVars, job>>

(* io_thread.join() returns, and Worker.stop logs.                         *)
JoinIo ==
  /\ io = "ended"
  /\ MainGoes("joining io", "stopping worker")
  /\ Logs("main", Unset, NoError)
  /\ UNCHANGED <<done, ioVars, workerVars, stopVars, job>>

(* Deviation of StopWorker: the worker is joined and not stopped.          *)
StopWorkerNot ==
  /\ MainGoes("stopping worker", "joining worker")
  /\ Silent
  /\ UNCHANGED <<done, ioVars, workerVars, stopVars, job>>

StopWorker ==
  /\ MainGoes("stopping worker", "joining worker")
  /\ workerStopped' = TRUE
  /\ Silent
  /\ UNCHANGED <<done, ioVars, worker, stopVars, job>>

JoinWorker ==
  /\ worker = "ended"
  /\ MainGoes("joining worker", "leaving")
  /\ Logs("main", END_SECTION, NoError)
  /\ UNCHANGED <<done, ioVars, workerVars, stopVars, job>>

(* A thread of the executor waits in Pipe.pipe_out for this job.           *)
Blocked(t) == job[t] \in {"waiting", "running", "orphaned"}

(* The interpreter joins the threads of the executor and exits.            *)
Exit ==
  /\ MainGoes("leaving", "exited")
  /\ \A t \in Task : ~Blocked(t)
  /\ Silent
  /\ UNCHANGED <<done, ioVars, workerVars, stopVars, job>>

-----------------------------------------------------------------------------
(* The IO thread                                                           *)

(* IO.start clears _stopped and runs the loop: in the service `_io_main`    *)
(* enters its contexts, and fails, or all the controllers run; in the       *)
(* standalone program the one controller runs.                             *)
IoStarts ==
  /\ io = "new"
  /\ Spawned
  /\ ioStopped' = FALSE
  /\ lost' = (lost \/ ioStopped)
  /\ IF program = "service"
       THEN \/ /\ io' = "serving"
               /\ controller' = [c \in Controller |-> "running"]
            \/ /\ io' = "closing"
               /\ UNCHANGED controller
       ELSE /\ io' = "serving"
            /\ controller' = [controller EXCEPT ![Local] = "parsing"]
  /\ Logs("io", Unset, NoError)
  /\ UNCHANGED <<program, done, main, workerVars, job>>

(* What the coroutines of the loop leave alone.                            *)
Elsewhere == UNCHANGED <<program, done, main, workerVars, stopVars>>

(* A controller raises: its start, a message it cannot handle, its stop, a  *)
(* pipeline file that is not there.                                        *)
ControllerFails(c) ==
  /\ LoopRuns /\ Free("io")
  /\ controller[c] \in {"running", "stopping", "hurried"}
  /\ program = "standalone" => controller[c] = "running" /\ \A t \in Task : job[t] = "none"
  /\ controller' = [controller EXCEPT ![c] = "failed"]
  /\ Silent /\ Elsewhere
  /\ UNCHANGED <<io, job>>

(* gather raises the first exception; `_io_main` leaves its contexts and    *)
(* the other controllers go on.                                            *)
GatherRaises ==
  /\ program = "service"
  /\ io \in {"serving", "canceling"}
  /\ \E c \in Controller : controller[c] = "failed"
  /\ io' = "closing"
  /\ Silent /\ Elsewhere
  /\ UNCHANGED <<controller, job>>

Cancelled(from, to) ==
  controller' = [c \in Controller |-> IF controller[c] = from THEN to ELSE controller[c]]

(* The run has not come to this task, or has done with it.                 *)
AtRest(t) == job[t] \in {"none", "over"}

RunIsOver == controller[Local] \in {"stopped", "failed"}

(* `_run_async` sees the stop.  In the service it cancels `_io_main`, hence *)
(* its gather and the controllers, which begin to stop their consumers; a    *)
(* `_io_main` that is past the gather is disturbed in leaving its contexts,  *)
(* no more.  In the standalone program it cancels the controller, which is  *)
(* then in the middle of a task: nowhere else does it await.               *)
SeeStop ==
  /\ io = "serving" /\ Free("io")
  /\ ioStopped
  /\ program = "standalone" => \E t \in Task : ~AtRest(t)
  /\ Cancelled("running", "stopping")
  /\ io' = IF program = "service" THEN "canceling" ELSE "awaiting"
  /\ Silent /\ Elsewhere
  /\ UNCHANGED job

(* consumer.stop() and producer.stop() are through; with "torn" the second  *)
(* cancel came while they were under way.  Standalone: the cancellation has *)
(* closed the pipe of the task at hand.                                    *)
ControllerStops(c) ==
  /\ LoopRuns /\ Free("io")
  /\ \/ controller[c] = "stopping" /\ controller' = [controller EXCEPT ![c] = "stopped"]
     \/ controller[c] = "hurried" /\ controller' = [controller EXCEPT ![c] = "torn"]
  /\ job' = IF program = "service" THEN job
            ELSE [t \in Task |-> IF job[t] = "none" THEN "none" ELSE "over"]
  /\ Silent /\ Elsewhere
  /\ UNCHANGED io

(* Deviation of CancelAgain: gather raises as soon as it is canceled.       *)
CancelAtOnce ==
  /\ io = "canceling"
  /\ Cancelled("stopping", "hurried")
  /\ io' = "awaiting"
  /\ Silent /\ Elsewhere
  /\ UNCHANGED job

(* gather raises CancelledError as soon as one controller has stopped: the  *)
(* others are canceled again, and awaited.                                 *)
CancelAgain ==
  /\ io = "canceling"
  /\ \E c \in Controller : controller[c] = "stopped"
  /\ Cancelled("stopping", "hurried")
  /\ io' = "awaiting"
  /\ Silent /\ Elsewhere
  /\ UNCHANGED job

AllStopped ==
  /\ io = "awaiting" /\ Free("io")
  /\ \A c \in Controller : controller[c] \notin Busy
  /\ io' = "closing"
  /\ Logs("io", Unset, NoError)
  /\ Elsewhere
  /\ UNCHANGED <<controller, job>>

(* Standalone: the pipeline is over and ends `_run_async`.  When the stop    *)
(* has come as well, nothing is pending, and asyncio.wait refuses an empty   *)
(* set: an error, although nothing failed.                                 *)
RunEndsLoop ==
  /\ program = "standalone"
  /\ io = "serving" /\ Free("io")
  /\ RunIsOver
  /\ \/ io' = "closing" /\ Logs("io", Unset, NoError)
     \/ ioStopped /\ io' = "raising" /\ Logs("io", Unset, "IO failed")
  /\ Elsewhere
  /\ UNCHANGED <<controller, job>>

(* The contexts are left, `_io_main` is over, the loop is closed over       *)
(* whatever it still ran, and run_io sets `done`.                          *)
IoEnds ==
  /\ io \in {"closing", "raising"} /\ Free("io")
  /\ io' = "ended"
  /\ done' = TRUE
  /\ Silent
  /\ UNCHANGED <<program, main, controller, workerVars, stopVars, job>>

-----------------------------------------------------------------------------
(* LocalTaskController.run                                                 *)

RunParses ==
  /\ program = "standalone"
  /\ LoopRuns /\ Free("io")
  /\ controller[Local] = "parsing"
  /\ controller' = [controller EXCEPT ![Local] = "running"]
  /\ Logs("io", "Parse Pipeline Config", NoError)
  /\ Elsewhere
  /\ UNCHANGED <<io, job>>

(* The run goes on, a cancellation absorbed or not.                        *)
RunGoes ==
  /\ program = "standalone"
  /\ LoopRuns /\ Free("io")
  /\ controller[Local] \in {"running", "deaf"}

InStorage(t) == job[t] \in {"fetching", "saving"}

(* The file is refused, or a task fails: it is logged, and the run is over. *)
RunFails ==
  /\ RunGoes
  /\ \/ \A t \in Task : job[t] = "none"
     \/ \E t \in Task : InStorage(t)
  /\ controller' = [controller EXCEPT ![Local] = "stopped"]
  /\ job' = [t \in Task |-> IF job[t] = "none" THEN "none" ELSE "over"]
  /\ Logs("io", Unset, "run failed")
  /\ Elsewhere
  /\ UNCHANGED io

RunCompletes ==
  /\ RunGoes
  /\ \A t \in Task : AtRest(t)
  /\ controller' = [controller EXCEPT ![Local] = "stopped"]
  /\ Logs("io", "Run Pipeline", NoError)
  /\ Elsewhere
  /\ UNCHANGED <<io, job>>

(* The cancellation reaches an attempt of the local storage, which takes it *)
(* for a failed one and tries again.                                       *)
Absorb ==
  /\ program = "standalone"
  /\ LoopRuns /\ Free("io")
  /\ controller[Local] = "stopping"
  /\ \E t \in Task : InStorage(t)
  /\ controller' = [controller EXCEPT ![Local] = "deaf"]
  /\ Silent /\ Elsewhere
  /\ UNCHANGED <<io, job>>

-----------------------------------------------------------------------------
(* Tasks of the loop                                                       *)

(* A controller hands a task over, and the task reads its input.  The run   *)
(* of the standalone program has one task at a time.                       *)
Accept(t) ==
  /\ LoopRuns /\ Free("io")
  /\ \E c \in Controller : controller[c] \in {"running", "deaf"}
  /\ job[t] = "none"
  /\ program = "standalone" => \A u \in Task : AtRest(u)
  /\ job' = [job EXCEPT ![t] = "fetching"]
  /\ Logs("io", t, NoError)
  /\ Elsewhere
  /\ UNCHANGED ioVars

(* It uses its ticket and waits; the worker may have dropped the ticket.    *)
UseTicket(t) ==
  /\ LoopRuns /\ Free("io")
  /\ job[t] = "fetching"
  /\ program = "standalone" => RunGoes
  /\ \E s \in {"waiting", "orphaned"} : job' = [job EXCEPT ![t] = s]
  /\ Silent /\ Elsewhere
  /\ UNCHANGED ioVars

(* Its result is saved and answered, or logged.                            *)
Finish(t) ==
  /\ LoopRuns /\ Free("io")
  /\ job[t] = "saving"
  /\ program = "standalone" => RunGoes
  /\ job' = [job EXCEPT ![t] = "over"]
  /\ Logs("io", Unset, NoError)
  /\ Elsewhere
  /\ UNCHANGED ioVars

(* A task of the service fails, or is canceled and closes its pipe: its     *)
(* thread is free.                                                         *)
Abandon(t) ==
  /\ program = "service"
  /\ LoopRuns
  /\ job[t] \in {"fetching", "saving"} \/ Blocked(t)
  /\ job' = [job EXCEPT ![t] = "over"]
  /\ Silent /\ Elsewhere
  /\ UNCHANGED ioVars

-----------------------------------------------------------------------------
(* The worker thread                                                       *)

Outside == UNCHANGED <<program, main, ioVars, stopVars>>

WorkerStarts ==
  /\ worker = "new"
  /\ Spawned
  /\ workerStopped' = FALSE
  /\ lost' = (lost \/ workerStopped)
  /\ worker' = "looping"
  /\ Logs("worker", Unset, NoError)
  /\ UNCHANGED <<program, done, main, ioVars, ioStopped, job>>

(* `while not self._stopped.is_set()`                                      *)
CheckStop ==
  /\ worker = "looping" /\ Free("worker")
  /\ IF workerStopped
       THEN worker' = "stopped" /\ Logs("worker", Unset, NoError)
       ELSE worker' = "polling" /\ Silent
  /\ Outside
  /\ UNCHANGED <<done, workerStopped, job>>

(* A ticket with a job, which logs; or no ticket, or no job in it, within   *)
(* the time.                                                               *)
Poll ==
  /\ worker = "polling"
  /\ \/ \E t \in Task :
          /\ job[t] = "waiting"
          /\ job' = [job EXCEPT ![t] = "running"]
          /\ worker' = "working"
          /\ Logs("worker", Unset, NoError)
     \/ /\ (\A t \in Task : job[t] # "waiting") \/ \E t \in Task : job[t] = "fetching"
        /\ worker' = "looping"
        /\ Silent
        /\ UNCHANGED job
  /\ Outside
  /\ UNCHANGED <<done, workerStopped>>

JobLeft(s) == [t \in Task |-> IF job[t] = "running" THEN s ELSE job[t]]

(* The result wakes the waiting thread, on a closed loop too; or the pipe   *)
(* was found closed.                                                       *)
JobEnds ==
  /\ worker = "working" /\ Free("worker")
  /\ job' = JobLeft("saving")
  /\ worker' = "looping"
  /\ Silent /\ Outside
  /\ UNCHANGED <<done, workerStopped>>

(* An exception of the job ends the worker, and nobody closes its pipe; an  *)
(* exception of cache_all does when the result is out.                     *)
JobRaises ==
  /\ worker = "working" /\ Free("worker")
  /\ \E s \in {"orphaned", "saving"} : job' = JobLeft(s)
  /\ worker' = "stopped"
  /\ Logs("worker", Unset, "Worker failed")
  /\ Outside
  /\ UNCHANGED <<done, workerStopped>>

(* Deviation of WorkerEnds: run_worker sets `done` after a normal end only. *)
WorkerEndsUnseen ==
  /\ worker = "stopped" /\ Free("worker")
  /\ worker' = "ended"
  /\ done' = (done \/ workerStopped)
  /\ Silent /\ Outside
  /\ UNCHANGED <<workerStopped, job>>

(* run_worker sets `done` at the end, whatever the end was.                *)
WorkerEnds ==
  /\ worker = "stopped" /\ Free("worker")
  /\ worker' = "ended"
  /\ done' = TRUE
  /\ Silent /\ Outside
  /\ UNCHANGED <<workerStopped, job>>

-----------------------------------------------------------------------------
lifeVars == <<program, done, main, ioVars, workerVars, stopVars, job>>

MainThread ==
  \/ Configure \/ StartUp \/ Spawn \/ ShutDown \/ AnnounceStop \/ StopIo
  \/ JoinIo \/ StopWorker \/ JoinWorker \/ Exit
  \/ LogCall("main") /\ UNCHANGED lifeVars

IoThread ==
  \/ IoStarts \/ GatherRaises \/ SeeStop \/ CancelAgain \/ AllStopped
  \/ RunEndsLoop \/ IoEnds \/ RunParses \/ RunCompletes
  \/ \E c \in Controller : ControllerStops(c)
  \/ \E t \in Task : program = "standalone" /\ (UseTicket(t) \/ Finish(t))
  \/ LogCall("io") /\ UNCHANGED lifeVars

WorkerThread ==
  \/ WorkerStarts \/ CheckStop \/ Poll \/ JobEnds \/ WorkerEnds
  \/ LogCall("worker") /\ UNCHANGED lifeVars

Display == (Wake \/ Paint) /\ UNCHANGED lifeVars

Next ==
  \/ Signal
  \/ MainThread
  \/ IoThread
  \/ WorkerThread
  \/ JobRaises \/ RunFails \/ Absorb
  \/ \E c \in Controller : ControllerFails(c)
  \/ \E t \in Task : Accept(t) \/ UseTicket(t) \/ Finish(t) \/ Abandon(t)
  \/ Display

Spec == Init /\ [][Next]_vars

(* The threads run; stopping a consumer, a job and a storage call take      *)
(* their time but come to an end.  No signal need come, nothing need fail.  *)
FairSpec ==
  /\ Spec
  /\ WF_vars(MainThread)
  /\ WF_vars(IoThread)
  /\ WF_vars(WorkerThread)
  /\ WF_vars(Display)

-----------------------------------------------------------------------------
(* Properties                                                              *)

(* What is waited for when nobody will do it: by an executor thread of the  *)
(* service whose loop and worker are gone; by the coroutine of the          *)
(* standalone program whose cancellation the storage has absorbed, for a    *)
(* job that the worker dropped or does not live to run.                    *)
Hangs ==
  \/ main = "leaving" /\ \E t \in Task : Blocked(t)
  \/ /\ controller[Local] = "deaf"
     /\ \E t \in Task : job[t] = "orphaned" \/ (job[t] = "waiting" /\ worker = "ended")

(* A shutdown that has begun comes to its end, unless it meets one of the   *)
(* defects of the code: a stop is lost in a start, a task waits for a job   *)
(* that nobody runs, or the two locks of the terminal are taken crosswise.  *)
ShutdownEnds == done ~> (main = "exited" \/ lost \/ Hangs \/ Embrace)

(* The program never lives on with one of its threads gone: whatever ends   *)
(* the worker or the loop, the main thread begins the shutdown.            *)
NoHalfService ==
  (worker = "ended" \/ io = "ended") ~>
    (main \notin {"configuring", "starting", "spawning", "waiting"} \/ Embrace)

(* A stop reaches every controller: none is cut off at its work by the end  *)
(* of the loop, unless another one had failed.  It does not let all of them *)
(* leave their consumer groups: one that is still leaving when another has  *)
(* left is interrupted, but only then.                                     *)
ControllersStop ==
  io = "ended" =>
    \/ \E c \in Controller : controller[c] = "failed"
    \/ /\ \A c \in Controller : controller[c] \notin Busy
       /\ (\E c \in Controller : controller[c] = "torn")
            => \E c \in Controller : controller[c] = "stopped"

(* The report of the standalone program is complete: when it exits, every   *)
(* error any of its threads logged has been printed below a cross, nothing  *)
(* was logged after the end of the report, and the display is off.         *)
ReportIsComplete ==
  main = "exited" /\ program = "standalone" =>
    /\ told \subseteq shown
    /\ refresher = "off"
=============================================================================
