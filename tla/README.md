# Verification of worker-service

`worker-service` turns characters into animated, background-free sprite sheets
with neural networks. It takes tasks from a Kafka topic (`Service.py`) or
from a pipeline file (`Standalone.py`), runs them one at a time on one GPU and
answers. The networks are numerics; what can go wrong *around* them is control:
two threads, an event loop, a pool of executor threads, a cache of models on a
bounded device, cancellations from two sides, offsets. That is what is modelled
here. Source paths are under `src/worker-service/src/` unless they start with `src/`;
`README.md` with a line number is `src/worker-service/README.md`.

## 1. The system

```
 Kafka records         event loop (IO thread)                      worker thread
 ------------->  KafkaConsumer -> KafkaTaskController            Worker.start
                    |  handle: queue a ticket  ------ Scheduler ----> get, Ticket.task
 cancel topic       |  create_cancellable_task        (queue)         |
 ------------->  CancellationService                                  v  job
                    |  inner task: AddService ...                pipeline._run
                    |    fetch input (S3)                          |  with model:
                    |    Ticket.use(job) ------ Ticket --------->  v
                    |    await pipe.pipe()  <--- Pipe -------  Device.load / cache /
                    |    save output (S3)                      signal / free (LRU)
                    v
                 KafkaController.response: answer + offset, one transaction
```

| component | state it keeps | operations | hard part |
|---|---|---|---|
| model manager: `domain/worker/device/` | active and cached models, LRU order, weights held by the models | `load`, `cache`, `cache_all`, `unload`, `free`, `signal`; policy `choose`, `signal` | eviction loop inside `load`; loads that fail; a recency order fed only by signals |
| pipelines: `domain/pipeline/` | open `with` blocks, position in the job | `_run` of add, delete, stand, animate, rmbg, norm_map and the Qwen, Wan and DINO pipelines they call | nested and repeated blocks left by success, cancellation or exception; checks against a closed pipe |
| worker, scheduler, ticket: `domain/worker/` | ticket queue, job of each ticket, stop events | `Scheduler.queue/get`, `Ticket.use/task/cancel`, `Worker.start/stop` | tickets are queued before their jobs exist; one-second timeouts; any stray exception ends the thread |
| pipe: `domain/Pipe.py` | deque, closed flag, condition variable | `pipe_in`, `pipe_out`, `close` and their async wrappers | lost wake-ups; close while others wait; blocking calls in executor threads |
| application services: `app/` | coroutine of each task | fetch, use the ticket, await the result, save, leave the pipe | a cancellation at every await |
| cancellation: `app/cancellation.py` | inner and outer task per id, a flag on the outer task | `create_cancellable_task`, `_track`, `_cancelled`, `__call__`, `was_task_cancelled` | a push between two awaits of `_track`; which task object carries the flag |
| task controller: `controller/task/kafka/`, `infra/kafka/` | tasks under way, consumer position, committed offset | `handle`, `_handle`, `response`, `commit`, restart | tasks run side by side and end in any order; at-least-once and at-most-once mixed |
| service composition: `Service.py`, `Standalone.py`, `IO.py` | threads, `done` event | start, stop, shutdown order | lost stop, threads of the executor that never end |
| console renderer: `infra/structlog/standalone/` | open section, its errors, pending line, two locks | a log call of any thread, repaint by the refresh thread, end of the report | two locks taken in both orders; errors that must reach the report |
| local controller: `controller/task/local/` | results of earlier tasks | schema, topological order, resolution of references, abort | a reference to a task that did not run |
| storage: `repository/`, `infra/s3`, `infra/local_storage` | objects | get, save with retries | two objects per frame set; retries that swallow a cancellation; writes given up that happen later |
| Loki sink: `infra/loki/` | bounded queue | enqueue, flush loop, drain | overflow, lost batch, drain at exit |
| frames and cycles: `domain/model/Frames.py`, `_cycle_detection.py` | none | slicing, choice of a cycle, sizes of pictures | boundaries |
| model classes: `domain/pipeline/model/` | attributes that hold the network, its processor, a handle | `load`, `unload`, the asserts of `pipe` | a load that raises between two assignments |

What makes each correct, as stated by the properties of section 4:

* device: memory is never exceeded, what it counts is what exists, nothing in
  use is evicted, the victim is least recently used, every load ends;
* model classes: an active model has what its `pipe` asserts, however often it was
  evicted and loaded again, and the GPU holds what is counted or being loaded, nothing
  else;
* pipelines: a model computes only while it is active, and the models in use are
  those of the open blocks, on the way out of a canceled or failed job too; the shipped
  sizes fit the shipped limit;
* hand-over: jobs run once and in order, a waiting coroutine is answered, and the
  pool of threads in which coroutines wait does not wait for itself;
* pipe: a FIFO channel that loses, invents and reorders nothing, and whose
  close releases everyone;
* cancellation: the task is found, ends while a thread is left to close its pipe, and is
  recognised as canceled;
* controller: every task gets an answer, at most one unless it is canceled at the
  last moment, and a restart loses nothing that was not overtaken;
* lifecycle: whatever ends a thread stops the service, a shutdown that has begun ends
  and cuts no controller off at its work;
* console: every log call returns, every error is in the report;
* local pipeline: a graph is refused exactly when it is unsound, else run in an
  order its links allow, to an end, and a task reads what the ones before it saved;
* Loki sink: events arrive in order, a proper close leaves none behind, and it ends;
* frames: a slice of a slice shows the frames its indices name, a loop is trimmed to
  frames that meet, a post-processing step returns a frame for each frame, and a
  frame set that nobody is saving is read back as it was saved.

`PROJECT.json` lists every component with its status and, under `hazards`, every
place where this code is hard to test.

## 2. The modules

| module | what it is | corresponds to |
|---|---|---|
| `DeviceMemory` | GPU memory as a set of owned units, so that sums are cardinalities | `Device._used_gpu_mem`, `_free_gpu_mem` |
| `LruCache` | abstract: a cache of bounded memory that drops the least recently used idle model; recency is a relation | what README.md:179-192 promises of the model manager |
| `Device` | the device and its policy under any client; one action per operation, and one per turn of the eviction loop | `Device.py`, `LruEvictionPolicy.py` |
| `ModelClasses` | each shipped model class as data: the steps of its `load`, what each assigns and which can raise, what `pipe` asserts | `domain/pipeline/model/*Model.py` |
| `ModelLoading` | `Device` with `load` and `unload` of the classes step by step | the same, with `Device.py` |
| `DeviceJobs` | the worker thread driving the device: the pipelines as scripts of `with`, load, compute and check operations | `Worker.start`, `domain/pipeline/*.py`, `Model.__enter__/__exit__` |
| `Channel` | abstract: a closable FIFO channel | what users of `Pipe` rely on |
| `Pipe` | lock, condition variable, deque; threads between their wait and their wake-up | `Pipe.py` |
| `Handoff` | tickets, worker loop, service coroutines and pipes together | `Scheduler.py`, `Ticket.py`, `Worker.py`, `app/*.py`, the `_run` methods |
| `ThreadPool` | `Handoff` with every `asyncio.to_thread` a call that queues for a bounded pool | the async wrappers of `Pipe.py` and `Scheduler.py` |
| `Cancellation` | inner and outer asyncio tasks, both dictionaries, push and pull | `app/cancellation.py` |
| `TaskController` | `Cancellation` with the Kafka controller round it: position, commits, answers, restarts | `KafkaTaskController.py`, `KafkaConsumer.py`, `KafkaController.py` |
| `TerminalRenderer` | log calls of three threads and the refresh thread of the display, with both locks | `infra/structlog/standalone/renderer.py` |
| `Lifecycle` | main thread, IO thread with its controllers and tasks, worker thread, from start to exit, of either program; EXTENDS `TerminalRenderer` | `Service.py`, `Standalone.py`, `IO.py`, `Worker.py`, `_io_main` |
| `Dag` | abstract: a task graph is refused or run in dependency order | what README.md:140-143 promises of the standalone mode |
| `PipelineFile` | the schema of a pipeline file: which are refused, what a link refers to, what each service reads and saves | `pipeline/v1.py`, `pipeline/tasks/`, `mapping/resolve.py`, `app/*.py`, `repository/local_storage/` |
| `LocalPipeline` | parse, Kahn's algorithm, the loop over the tasks, storage attempts with late writes, interruption; EXTENDS `PipelineFile` | `LocalTaskController.py`, `topsort.py`, `LocalStorage.py` |
| `Frames` | indexing, slicing, atlas and metadata of a frame set | `domain/model/Frames.py`, `repository/*/mapping/frames.py` |
| `Cycles` | candidates, scores and choice of a cycle, from the similarities of frames | `_cycle_detection.py` |
| `Sizes` | heights, widths and counts of frames through the pipelines, and when a pipeline refuses | `animate.py`, `_wan_animate_pipeline.py`, `rmbg.py`, `norm_map.py` |
| `FrameStore` | tasks that make, save, read and process frame sets over an object storage; EXTENDS the three above | `repository/s3/`, `infra/s3/`, `app/animate.py`, `app/rmbg.py`, `app/norm_map.py` |
| `LokiSink` | the queue, the flusher with its executor thread, the exit | `infra/loki/LokiSink.py` |
| `*_proofs` | theorems about the module they are named after (section 6); `Device_proofs` includes `DeviceJobs` and `ModelLoading`, `Handoff_proofs` includes `ThreadPool`, `TaskController_proofs` includes `Cancellation` | |
| `MC*` | instances for TLC | |

`DeviceJobs` EXTENDS `Device` and adds the program counter of the job: each of its
steps performs at most one step of `Device`, by its definition. `ModelLoading` refines
the loads of `Device` in the other direction, down to the assignments of a
`load()`. `TaskController` EXTENDS `Cancellation`: `Accept` performs `Create`,
`SendResult` performs `Finish`, and so on. `Handoff` uses a pipe as `Channel`
describes it, and `Pipe` is shown to implement `Channel`; the steps of `ThreadPool` are
those of `Handoff`, and calls that wait for a thread. `Handoff` keeps of a job only its points of contact with the
other thread (a check, the last check, the delivery, the close); `DeviceJobs` has
the rest of it. In the same way `Lifecycle` and `LocalPipeline` keep of the
hand-over only that a ticket is lost or not and that a waiting task occupies an
executor thread, as `Handoff` and `ThreadPool` show it, and `Lifecycle` keeps of the
standalone run whether it is at rest, in the storage, or waiting for a job.

An operator under a comment "Deviation of X" is a wrong variant of the definition
that follows it: a dropped guard, a missing notification, a forgotten
dictionary. Nothing uses it. `PROJECT.json` (`mutants`) pairs each checked property
with a deviation that must make its run fail, which shows that the
property depends on that piece of code.

### State and actions

*Device.* `active` and `cached` are the two dictionaries, `order` is the
`OrderedDict` of the policy. `weights` is not a variable of the device: it says
which models reference their weights (`self._vae is not None`), and it is what
the memory bound is about. `call` is the model a `Device.load` has got past its
early returns with, so that evictions, the failure for lack of memory and a
`model.load` that raises are separate steps. Some classes assign their attribute
before `.to(device)` and so keep weights when that raises (`EagerModels`).
`choose` prefers candidates that were never signalled, in set order, hence any of
them.

*ModelLoading.* `parts` is which attributes of each model are set, `at` where a
`load()` is, `onGpu` what has tensors on the GPU. A class is a sequence of fetches, builds, moves and
assignments (`ModelClasses`), and any step that `MayRaise` may end it. Which models are
eager is derived (`KeepsEarly`): both text encoders, both VAEs, and, through the pyramid it builds,
the InSPyReNet decoder. A `load` that raises ends the worker, so nothing is loaded after
it; what it leaves counts until the blocks of the job are left.

*DeviceJobs.* `script`/`pc` are the job and its position, `entered` the stack of
open blocks. `Unwind` is Python running `__exit__` of every open block. A check
may always find the pipe closed; `JobRaises` may happen anywhere. The scripts
take the length of the loops as parameters, and whether guidance doubles the
encodings and the computations: `animate` never turns it off, an edited image has it when
the task gives a negative prompt. `Blocks` gives, for each script,
the blocks that are open before each operation: `BlocksAssumption` says that they
nest, which a `with` statement guarantees, and `FitsAssumption` that the models open
at a time fit the limit, which is a fact about the numbers the models declare. TLC
evaluates both on the shipped scripts, sizes and limit.

*Pipe.* The lock makes the body of each method one step. `pipe_out` gives it up
in `wait`: a thread is then in `waiters` until a notification removes it; a timed
thread may expire first and still be in `waiters` until it has the lock again.

*Handoff.* One state per await of a coroutine. The one second that the worker
waits is a step (`TicketTimesOut`) that may come whenever the ticket holds no job.
The state `checked` separates a job's last look at its pipe from
`output.pipe(...)`, because the conversion of the result lies between them.

*ThreadPool.* `calls` is the queue of the executor, `blocked` the tasks for whose
results a thread waits; a ticket put and a close take no time once a thread has taken
them up. A waiting thread is free again when its pipe has a result or is closed
(`Release`), not when the coroutine gives up: a
cancellation of an `await` withdraws a call that is still queued and
otherwise leaves its thread where it is. `withdrawn` is a history: the tasks whose close
was given up in this way. `Log` is the order of the messages; the controller handles one
after another and takes up the next when the ticket of the last is queued.

*Cancellation.* A step is the stretch of a coroutine between two awaits. The
pull check may report either verdict for any task, since a provider that fails
or times out counts as "not canceled". `Interrupt` delivers a cancellation; the
storage may turn it into a `DomainError` (`repository/s3/mapping/error.py`), and
an inner task canceled before its first step never begins. Work that was inside its pipe
is `leaving`: it awaits the close, until a second cancellation hurries it (`hurried`).

*TaskController.* Records are numbers, `committed` is the offset of the group, and
`Restart` loses everything in memory. A transaction sends the answer and commits
the offset behind its record, or raises and does neither. Broker and aiokafka are
external and modelled that way although the producer is created without a
`transactional_id` and is shared by tasks that run at once; a reason for
`transaction()` to raise is thus always there, and the model lets it. Of the executor the
module keeps `stranded`, the tasks for whose results a thread waits in vain (`Strand`: the
worker gave up the ticket, or has ended). `Accept`, which queues a ticket, and `Closed`, which
lets a canceled task out of its pipe, need a thread that is left (`Exhausted`); a close
frees the thread of its task, a close given up does not.

*TerminalRenderer.* A log call is said, takes the renderer's lock and then, if it
closes a section or ends the report, that of the display; the refresh thread holds
the display's lock while it paints, for which it asks for the renderer's. `told` and
`shown` are the errors logged and printed.

*Lifecycle.* `main`, `io` and `worker` are where the three threads are. In the standalone
program each of their log calls may wait, and a thread takes its next step when
the call has returned (`Free`). The cancellation of `_io_main` is modelled as
asyncio does it: `gather` passes the
cancellation to all controllers, raises as soon as the first is over, and a
second cancellation reaches those that still stop their consumers (`hurried`, then
`torn`). A failing controller makes `gather` raise and leaves the others running,
on a loop that is about to be closed. `start` clears the stop event, so that a
`stop` before it is lost; the history variable `lost` records that. A controller that
is `deaf` is the standalone run after the storage absorbed its cancellation.

*PipelineFile, LocalPipeline.* `Init` chooses a file; `inDegree`, `queue`, `result` are the
variables of `topsort`, one pop per step. `stage` is the await the task under way is
at, `todo` what it has still to read or write, `resources` the tasks whose artifacts
`run` has recorded, `late` the files that an attempt given
up may still open. Opening for writing empties the file before it is written, so a
late open can empty what the next attempt has stored. A
cancellation while an attempt of `LocalStorage` runs is one more failed attempt,
because the retry loop catches `BaseException`. `gone` is a worker that a job has ended
(`WorkerEnds`): the coroutine that waits for that job, or for a later one, gets no answer, and
`run_worker` makes the main thread interrupt the loop, once.

*Frames, Cycles, Sizes, FrameStore.* An image is a function from pixels to values, with
one pixel per unit of a frame's side, so that crops, strips and atlases are
computed as the code does. The networks appear as `sims`, the similarities of
frames each delivery meets; the choice of a cycle is computed from them. `flying` are
puts the client gave up that the storage may still carry out. `saved`, `settled` and
`calm` are histories: what was saved last, the keys nothing in flight can disturb, the
readers no save has crossed; `origin` is one too, the animation or upload a task's frames
come from. `_detect_pair_cycles` sorts its candidates and is asked for one, so `BestCycles` is
the set of the candidate that comes before all others. The loop over batches is the recursive
function `results` of `Worked`, one value per batch.

*LokiSink.* `collected` belongs to the executor thread that collects, `batch` to
whoever pushes. `wait_for` in `__aexit__` may cancel the flusher, whose collecting
thread then lives on (`orphan`) and takes events nobody will send. Each failed
attempt logs a warning, which goes into the same queue. The batches of the final
drain do too, hence the assumption `Attempts < BatchSize`: without it and with a
server that stays down, `_drain_and_push_remaining` feeds itself for ever.

## 3. Runs, bounds and fairness

| run | instance | what it shows | distinct states |
|---|---|---|---|
| `device` (`MCDevice`) | 4 models of 4, 3, 2 and 1 units on 6 units, of the four shapes a `load` has | everything `Device` and the model classes promise, for every order of calls and failing loads | 1,742 |
| `device_jobs` (`MCDeviceJobs`) | the 11 shipped models with their declared sizes, 60 GiB as in `config/service.yml`; every pipeline, images of one and two pictures with and without guidance, 2 denoising steps, 2 chunks | computation inside active blocks only, all models given up on every way out, memory that suffices for every sequence of jobs | 466,521 |
| `pipe` (`MCPipe`) | 3 consumers, 3 items, with or without timeouts | an item meets its consumer, close releases, `Channel` is implemented | 9,048 |
| `handoff` (`MCThreadPool`) | 3 tasks, a pool of two threads | order, answers, no deadlock of the pool with itself, when a thread is lost | 153,977 |
| `handoff_lost_ticket`, `handoff_cancel_kills` (`MCHandoff`) | 2 tasks | findings, section 5 | |
| `task_controller` (`MCTaskController`) | 3 records of which 2 are tasks, 2 threads, 1 restart | recognition of a cancellation, answers, what a restart can lose, that a canceled task settles | 40,493 |
| `task_controller_loss` | 2 records, 1 restart | finding | |
| `loki` (`MCLokiSink`) | queue of 4, batches of 3, 2 attempts, 5 events | order, completeness and end of the close | 671,029 |
| `lifecycle` (`MCLifecycle`) | 2 controllers, 2 tasks, service and standalone program | start, failure and shutdown in every order of the threads, the report of the terminal | 56,413 |
| `local_pipeline` (`MCLocalPipeline`) | all graphs of 3 tasks with two inputs each, and a pipeline like the README's with one or two parts changed; 2 attempts | `Dag` is implemented, a task reads what was saved, the program ends | 75,919 |
| `frames` (`MCFrameStore`) | an animation, rmbg and norm_map on it, on each other or on one of two uploads; two deliveries of the first two | loops, sizes, counts, and what a reader of a frame set gets | 389,176 |

Before these, TLC evaluates the assumptions of the modules on what is shipped (`BlocksAssumption` and
`FitsAssumption` on the pipelines, sizes and limit, `ShippedWellFormed` on the classes,
`Shipped!SizesAssumption` on the limits of `animate.py`, `rmbg.py` and `norm_map.py`) and, on bounded inputs, the
pure operators against reference definitions: `UsedIsSum` (owned units count as
sizes add up, all sets of models), `IndicesAreSlices` (the indices of `Frames.__getitem__`
are those of a Python slice, lengths 0 to 3, bounds -4 to 4 or absent, steps -2 to 2),
`SlicesShowTheirFrames` (a slice of a slice shows the frames it names) and
`ShippedSizes` (what the shipped limits refuse).

Why these bounds are enough to meet the interesting cases:

* `device`: loads that evict nothing, one or two models and loads that cannot
  succeed all occur; the load that leaves weights behind concerns a model that
  others must then make room for. The order of four models covers a candidate in
  front, in the middle, at the end and missing from it.
* `device_jobs`: jobs follow each other without bound, so every cache content one
  job can leave meets every next job. A third iteration of a loop repeats the
  operations of the second on the same models.
* `pipe`: no pipe of the program has two consumers at once except after a
  cancellation, when an abandoned thread still waits; three let a notification
  reach the wrong one. `MaxItems` bounds the items of one behaviour; the pipelines
  send one.
* `handoff`: two waits are in the way of every call of the third task and of their own
  closes; one ticket can be given up, its thread lost, and the other two tasks share the
  thread that is left. Tasks differ in nothing but their place in `Log`. The safety of the
  hand-over is proved for any number of both (section 6).
* `task_controller`: the record that is no task (`Skip`) makes a commit without
  an answer; the second process re-reads what the first left. More processes
  repeat the same step from the same kind of state. With two threads a canceled task meets
  none, one (its own or another's) and all of them stranded.
* `loki`: five events overflow the queue of four; a batch of three is filled,
  handed over early and left over; two attempts give a retry and a failure for good,
  whose warnings come back through the queue.
* `lifecycle`: two controllers are the least for which one can fail or stop before the
  other; with two tasks one can run while the other waits for a worker that is
  about to end.
* `local_pipeline`: three tasks give cycles of one, two and three tasks beside tasks
  that are sound; two links give a chain, a join and a repeated link. The changed
  files meet every way a file is refused.
* `frames`: the animation is square, upright, too wide, or too short for a last frame;
  its similarities have a cycle, none, or one that begins late; a second
  delivery makes other frames than the first. Rmbg and norm_map can form a chain.
  Lengths are scaled down (`Sizes` has the limits as constants).

Fairness is stated in each module, next to its fair specification, and nowhere
asked of the environment:

* `Device`, `ModelLoading`: a call of `load` is straight-line code and runs on;
  clients need not call.
* `Pipe`: a thread that can run gets the lock in its turn; nobody need write,
  close, or wait long enough for a timeout.
* `Handoff`: both threads run; storage calls end within their timeouts.
  `ThreadPool`: a free thread takes up the next call, and a thread whose call can go on
  goes on. Neither cancellation nor errors are fair.
* `TaskController`: the event loop runs what is ready, a thread that is not stranded is free
  in the end and takes up a close (`CallsAreServed` of `ThreadPool`), a transaction
  ends one way or the other. Work of its own accord need not end, and a stranded thread
  is free only after a close.
* `Lifecycle`: the main, IO and worker thread and the display run; stopping a consumer, a
  job and a storage call take time but end. No signal need come, nothing need fail.
* `LocalPipeline`: the loop runs, the storage answers in its time, a worker that lives runs
  the job of a ticket it has not given up on, or ends in it; when it has ended, the
  interruption comes (`run_worker` sets `done`, and `NoHalfService` of `Lifecycle` says
  that the main thread goes on to stop the loop). Log calls return, as `LogReturns` says, up to
  `Embrace`. A job need not succeed, and an interruption for other reasons need not come.
* `LokiSink`: the loop runs; a request has an outcome within its timeout, be it
  always a failure.

Deadlock checking is off wherever the system really can stop: a worker that is
gone, all tasks ended, the log read to its end. In `Device` the unwinding after
an error ends the client.

## 4. What holds

*Device.* `MemoryBound`, `WeightsAccounted`, `ActiveKeepsWeights`,
`InsufficientIsTrue`, `LoadEnds`, and the refinement `ImplementsLru`.
*ModelLoading.* `AssertsHold`, `GpuHoldsCounted`.
*DeviceJobs.* `ComputesWhileActive`, `MemorySuffices`, `ActiveIsEntered`.

*Pipe.* `ItemMeetsConsumer`, `CloseReleases`, `ImplementsChannel`.

*Handoff, ThreadPool.* `RunsInOrder`, `ClosedMeansAnswered` (the worker closes a pipe only
with the result in it, so a task that is not canceled never meets `PipeClosedError`),
`WaiterServedByPool`, `CallsAreServed`, `ThreadsComeBack`. The last three name their
exceptions: a worker that is gone, a ticket that was dropped, and a pool all of whose
threads wait for dropped tickets. `ThreadsComeBack` says what a close that was withdrawn by
a second cancellation costs: the thread that waits for the task, if the worker has given
up the ticket too, and nothing but a result for nobody if it has not.

*Cancellation* within *TaskController.* `CancelIsRecognised`, `CanceledSettles`. They
assume that no two live tasks share an id (`DistinctIds`): with one id
for two instances TLC finds a push that cancels one task and flags the other.
`CanceledSettles` names its exception: when every thread is stranded (`Exhausted`), a
canceled task that was inside its pipe never leaves it and never gets its answer, and
only a restart ends that.
*TaskController.* `NoneDropped`, `SecondAnswerIsCancel`, `RestartLosesOvertaken`.

*Lifecycle.* `ControllersStop`, `NoHalfService`, `ShutdownEnds`, `ReportIsComplete`.
`ControllersStop` does not say that every controller leaves its consumer group, which is not
so: when one has left, the second round of `cancel()` (`Service.py:385-387`) interrupts the
`consumer.stop()` of the others. It says that no interruption comes before that and that nobody is cut off before it was asked
to stop, as long as no controller fails.
`ShutdownEnds` names its exceptions: a stop that `start` clears (`lost`); a task whose
job the worker never finished because it lost the ticket, raised or was stopped
first (`Hangs`), whose executor thread stays in `Pipe.pipe_out` while the interpreter
waits to join it, or whose coroutine has not heard of its cancellation; and `Embrace`.
*TerminalRenderer.* `LogReturns`, up to `Embrace`: a log call that closes a section and the
refresh thread each hold the lock the other one asks for.

*LocalPipeline.* `ImplementsDag`, `ReadsWhatWasSaved` (up to a file emptied by a late
open), `Ends`. A run does not end when it is `Deserted`: a task waits for a job whose ticket
was given up, or for a worker that has ended, after the storage has absorbed the one
interruption there is.

*FrameStore.* `LoopsMeet`, `FramePerFrame`, `FallsAreForeseeable`, `CalmReadsAreExact`,
`AnsweredIsReadable`. `CalmReadsAreExact` is about reads no save of the same key overlaps, after a save
that was completed; for others the code promises nothing, and a torn
set (the atlas of one save, the metadata of another) is reachable.

*LokiSink.* `StoredInOrder`, `CloseLeavesNothing`, `ExitEnds`. Completeness holds for a
run without trouble only; a batch whose attempts all fail is dropped by design.

## 5. Where code and documentation disagree

* **Lost ticket** (`handoff_lost_ticket`, `ReturnsResults`). The worker drops a
  ticket that holds no job after one second (`Worker.py:32-43`). A service coroutine
  whose input takes longer to fetch uses the ticket afterwards, awaits its pipe for
  ever and occupies a thread of the executor. README.md:4-5: the service "returns
  the results". `WaiterServedByPool` says what remains true.
* **Cancellation ends the worker** (`handoff_cancel_kills`, `CancelSparesWorker`).
  When the pipe is closed between a job's last check and `output.pipe`,
  `PipeClosedError` leaves `_run`, which catches `InferenceCanceledError` only,
  and then `Worker.start`; the service shuts down.
* **Task lost by a restart** (`task_controller_loss`, `NoTaskLost`). Each answer
  commits the offset behind its own record although earlier records are still
  being worked on. `RestartLosesOvertaken` bounds the loss.

Seen while modelling, and contradicted by nothing the repository says of itself:

* A push that arrives while `_track` awaits the pull check flags the outer task, finds
  no inner one, and cancels nothing (`cancellation.py:51`, `:61`). A second delivery
  of an id overwrites the entries of the first.
* A second cancellation of a coroutine whose `aclose` is still queued for a thread
  withdraws the close; the worker computes a result nobody reads (`Pipe.py:61-62`), or the
  thread is lost (`ThreadsComeBack`).
  As many dropped tickets as the executor has threads stall the service.
* `rmbg` refuses frames whose longer side exceeds its limit, by an exception that ends
  the worker; animations of characters with an aspect of about 1.17 and more do (`rmbg.py:128-133`).
  So does an animation with a last frame and fewer than four frames.
* A frame set without metadata is taken as a strip of squares; an image narrower than
  its height has none (`rmbg.py:142` then stacks an empty list).
* Trimming to a cycle keeps both ends, so that the loop repeats one frame
  (`animate.py:130`, `_cycle_detection.py:187`).
* The tensors that `rmbg` re-creates when it resets its state are not in the accounts of the
  device. A failed load ends the worker thread, as any exception of a job but
  `InferenceCanceledError` does.
* `renderer.py:228` and `:253` take the two locks of the terminal in one order, the
  refresh thread takes them in the other (`renderer.py:67`).
* The cancellation of a standalone run that comes during a storage attempt is
  absorbed (`LocalStorage.py:29`, `:41`).
* `IO.py:48` waits on an empty set, which raises, when the stop and the end of the
  pipeline are seen together.
* `retries >= batch_size` makes the final drain of the Loki sink feed itself for ever
  while the server is down.

## 6. Proofs

Eight modules hold theorems, for every value of the constants their assumptions allow. Every
invariant, action property and refinement that a passing run checks is among them.

**`Device_proofs`**, under `MemoryAssumption` (sizes and limit are natural numbers, the
set of models is finite) and `DeviceAssumption` (eager models are models, `NoModel`
is none): `TypeCorrect`, `MemoryIsBounded`, `WeightsAreAccounted`, `OrderIsTracked`,
`ActiveModelsKeepWeights`, `InsufficientIsJustified`, and the refinement
`DeviceImplementsLru` (`Spec => Lru!Spec`). `MemoryBound` is not inductive: that a load
may finish rests on the device's count,
which bounds real memory only while it covers the weights that exist. The
invariant is

    IInv == TypeOK /\ MemoryBound /\ WeightsAccounted /\ OrderTracksLoaded /\ CallInv

where `CallInv` says that the model being loaded is on neither set and that a load
is under way only without an error, so that its weights are the only ones to be
added. Memory is the cardinality of the union of disjoint sets of units, so that
the sums over sets that the code computes need no recursion. The lemmas about `Forget`,
`Touch` and `Precedes` on sequences without duplicates carry the refinement.

Of *DeviceJobs*, under `ScriptsAssumption` as well (scripts are sequences of
operations): `JobsMemoryIsBounded`, by `JobsSpec => Spec`. Under `BlocksAssumption` (the `with` blocks of a script nest):
`JobsComputeWhileActive`. Its invariant `BlocksInv` says that `entered` is what the
script has open where the job is, without repetition, and that all of it is active;
that weights are there follows from the accounting of `IInv`. With `ActiveInv`, the
converse (what is active is in an open block), it gives `ActiveModelsAreEntered`. Under
`FitsAssumption`: `JobsNeverLackMemory`, from `ActiveInv` too: when nothing is left to evict, the models on the device and the one to be loaded are all in blocks the script has open
after the load, which fit. Which models earlier jobs left cached does not matter.

Of *ModelLoading*, under `ClassAssumption` (the classes are `WellFormed`: `load()` assigns
what `pipe` asserts, `unload()` clears all that `load()` assigns): `LoadingImplementsDevice`,
`AssertsAlwaysHold`, `GpuIsCounted`. `ModelInv` has what is true inside a `load()`
(`LoadSoFar`: the assignments before `at` were made, what was moved is on the GPU), and
`AbsentInv` that a model the device does not count has no attribute until a load fails. `ModelInv` is
proved together with the `IInv` of the refined `Device`, since that a model may be
loaded at all depends on it.

**`Pipe_proofs`**, under `PipeAssumption`, for any set of consumers: `PipeTypeCorrect`, and
`PipeImplementsChannel`. The steps of the condition variable map to stutters of
`Channel`, and `Patience` says that only a consumer with a timeout can have expired.

**`Handoff_proofs`**, under `HandoffAssumption` and `ThreadPoolAssumption`, for any
tasks and any pool: `HandoffTypeCorrect`, `JobsRunInOrder`, `ClosedPipesAreAnswered`, and
`PoolKeepsOrder`. The invariant relates the order
of arrival to the queue and the jobs run, and each ticket to what the coroutine and the worker
know of it. `PoolFreesThreads` is the safety under `ThreadsComeBack` and
`WaiterServedByPool`; its invariant `CallsInv` relates the calls of each task to where its
coroutine is, which holds because no call is in the queue twice.

**`TaskController_proofs`**, under `ControllerAssumption` and `CancellationAssumption`, for any
log and any number of restarts: `ControllerTypeCorrect`; `SecondAnswersAreCancellations`
from `StageInv` (where an instance's three coroutines can be at once) and `AnswersInv` (which
answers it has there); `RestartsLoseOnlyOvertaken` from `OffsetsInv`, which states the
property of every state, before the restart comes; and, with `DistinctIds` as an
explicit hypothesis, `CancellationsAreRecognised` from `TrackInv` (the entries of the
dictionaries are those of the live instance), and `NoTaskIsDropped`.

**`Lifecycle_proofs`**, under `LifecycleAssumption` (the three threads; there is a
controller), for any controllers and tasks: `StopReachesControllers` from `ControllersInv`, which
says the property of the loop's last stages too; `ReportIsWhole` from

    ReportInv == RendererInv /\ JoinsInv /\ LastCallInv

that is: an error told is printed or kept with a failed section, the lock belongs to the call
that closes; who is joined makes no call any more; and the last call of the main thread is
the one that ends the report. The renderer's part is proved once, of any step of a log
call, and the steps of the program perform one such step at most (`Speaks`).

**`LokiSink_proofs`**, under `LokiAssumption`, for any sizes: `SinkTypeCorrect`;
`ClosedSinkIsEmpty` from `FlowInv` (while nothing went wrong, an event accepted before
the close is in the queue, in a batch, or stored); `EventsArriveInOrder` from `OrderInv`
(stored before batch before collected or drained before queue, which increases).

**`LocalPipeline_proofs`**, under `PipelineAssumption`, for any files, number of
tasks, attempts and late writes: `LocalTypeCorrect`, `TasksReadWhatWasSaved`, and
`LocalImplementsDag` (`Spec => Dag!Spec`). The invariant has a part per stage of the
program:

    LocalIInv == LocalTypeOK /\ KahnInv /\ OrderInv /\ PhaseInv /\ LoopInv /\ StoreInv

`KahnInv` is that of the algorithm: `inDegree` counts the references to tasks without a place,
and a task has one or is queued when it counts none. What is left when the queue runs empty then
refers to itself round a cycle, so that a file is refused exactly when `Dag` refuses it; `OrderInv`
carries the order over to `run`. `StoreInv` says that each part of a task that is over was
written, and at worst emptied by a late open.

**`FrameStore_proofs`**, under `TasksAssumption` (sets of tasks and uploads are disjoint),
`InputsAssumption` (pictures have an area), `SizesAssumption` and `CyclesAssumption` (of the
limits), for frames of any size, any number of them, any batches, tasks and deliveries:
`FramesTypeCorrect`, `BatchesKeepFrames`, `TrimmedVideosLoop`, `JobsFallForeseeably`,
`CalmReadsFindWhatWasSaved`, `AnswersStayReadable`. Its first half is about the operators:
a cell of a strip is the image that was pasted there (`StripCell`), a set made of images shows these
images (`ShownImages`), what `from_frames` stores shows after `to_frames` what was stored
(`StoredShowsTheSame`), a slice of consecutive frames is a view (`SliceIsView`), the
results of the batches, joined, are one per image (`WorkedIsPerImage`), and a side that rmbg refuses
comes of an oblong character (`LongIsOblong`). Induction over batches is done by the least batch
that would be wrong (`Least`). The second half is the invariant

    FramesIInv == FramesTypeOK /\ OriginInv /\ UploadInv /\ HeldInv
                    /\ SettledInv /\ CalmInv /\ FallsAreForeseeable

where `OriginInv` follows a task's frames to an animation or an upload and says that metadata
anywhere, in a put on its way too, has the size of that animation's frames; `HeldInv` says what
a task holds at each await; `SettledInv` and `CalmInv` what the objects of an undisturbed
key are and what a read of one has found of them.

Only model-checked: everything under fairness (`LoadEnds`, `Ends`, `ShutdownEnds` and
the other leads-to properties), which needs ENABLED; and of the pure operators, slices with a step
(`SlicesShowTheirFrames`; the service takes consecutive ones only). The scores of
`Cycles` are in neither: the theorems hold whichever candidate they prefer.

## 7. Plan

Done: `DeviceMemory`, `LruCache`, `Device`, `ModelClasses`, `ModelLoading`, `DeviceJobs`; `Channel`, `Pipe`,
`Handoff`, `ThreadPool`; `Cancellation`, `TaskController`; `TerminalRenderer`,
`Lifecycle`; `Dag`, `PipelineFile`, `LocalPipeline`; `Frames`, `Cycles`, `Sizes`, `FrameStore`;
`LokiSink`; the proofs of section 6.

What could follow, in the order of its worth:

1. an abstract log consumer that loses nothing, with the condition on the order of
   completion under which `TaskController` implements it, and the proof that it does;
2. an abstract registry of frame sets (a save and a get are one step each), which `FrameStore`
   implements for keys in the sense of `settled`;
3. in `TaskController`, a rebalance and records that end the consumer loop, with
   the offset of the bad record committed or not.

## 8. Not modelled, and why

Tensor arithmetic, image conversion, prompts and the networks, vendored ones
included: numerics. YAML, command line and protobuf mappings: no state (the schema of the
pipeline file is modelled, because it decides what is run). Metrics and the
Prometheus server: nothing in the service depends on them; the supervisor of the server
can restart it while it is being stopped (`PrometheusServer.py:94`). Of what is
modelled: a `model.unload` that raises (the code sets attributes to None and
empties a cache), `Ticket.cancel` (nothing calls it), real time (a timeout is
something that may happen), a rebalance of the consumer group, the retries inside the S3
client, and more than one worker process.
