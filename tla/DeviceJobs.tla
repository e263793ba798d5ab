----------------------------- MODULE DeviceJobs -----------------------------
(***************************************************************************)
(* The worker thread driving the device: the jobs the pipelines hand it,    *)
(* as scripts of what they do to the device, with their cancellation checks *)
(* and their `with` blocks, run one at a time by Worker.start.  A job can   *)
(* be canceled at a check (its pipe was closed) and can raise anywhere; both*)
(* unwind the `with` blocks that are open.  A canceled job returns, the     *)
(* exception of a failed one ends the worker thread.                        *)
(***************************************************************************)
EXTENDS Device

CONSTANTS
  Scripts,  \* the scripts the worker may be handed
  Blocks    \* the models whose blocks are open before each operation of each

VARIABLES
  mode,     \* what the worker thread is doing
  script,   \* the script of the current job
  pc,       \* the next operation of it
  entered   \* models whose `with` block is open, innermost last

jobVars == <<mode, script, pc, entered>>
allVars == <<vars, jobVars>>

Modes == {"idle", "running", "canceled", "failed", "dead"}

-----------------------------------------------------------------------------
(* Operations of a script, and the scripts.                                *)

Enter(m) == [op |-> "enter", model |-> m]   \* `with model:`
Exit(m) == [op |-> "exit", model |-> m]     \* end of the block
Load(m) == [op |-> "load", model |-> m]     \* self._device.load(self)
Compute(m) == [op |-> "infer", model |-> m] \* pipe(...), then the signal
Check == [op |-> "check", model |-> NoModel] \* _fire, _check_cancelled

Operations ==
  [op : {"enter", "exit", "load", "infer"}, model : Model] \cup {Check}

Times(n, s) == FlattenSeq([i \in 1 .. n |-> s])

(* n images encoded, or one latent decoded: pipe_encode and pipe_decode of  *)
(* a VAE load it and signal by themselves, the pipeline signals once more. *)
VaeBlock(v, n) ==
  <<Enter(v)>> \o Times(n, <<Load(v), Compute(v)>>) \o <<Compute(v), Exit(v)>>

(* n computations of one kind, two when classifier-free guidance is on.    *)
Guided(cfg, m) == Times(IF cfg THEN 2 ELSE 1, <<Compute(m)>>)

(* Every encoding of a prompt is followed by a check.                      *)
EncodeBlock(t, cfg) ==
  <<Enter(t)>> \o Times(IF cfg THEN 2 ELSE 1, <<Compute(t), Check>>) \o <<Exit(t)>>

DenoiseBlock(t, steps, cfg) ==
  <<Enter(t)>> \o Times(steps, Guided(cfg, t) \o <<Check>>) \o <<Exit(t)>>

(* add and stand with a pose (two images), delete and stand without (one):  *)
(* QwenImageEditPlusPipeline.__call__, guided if a negative prompt is given.*)
QwenScript(encoder, vae, transformer, images, steps, cfg) ==
  <<Check>> \o EncodeBlock(encoder, cfg)
    \o VaeBlock(vae, images) \o <<Check>>
    \o DenoiseBlock(transformer, steps, cfg)
    \o VaeBlock(vae, 1) \o <<Check>>

(* DinoV2CycleDetectionPipeline.detect                                     *)
CycleScript(dino, batches) ==
  <<Enter(dino)>> \o Times(batches, <<Check, Compute(dino)>>)
    \o <<Exit(dino), Check>>

(* Wan22ImageToVideoPipeline.__call__: the high-noise steps, the low-noise *)
(* steps.                                                                  *)
WanScript(encoder, vae, high, low, steps, cfg) ==
  EncodeBlock(encoder, cfg)
    \o VaeBlock(vae, 1) \o <<Check>>
    \o DenoiseBlock(high, steps, cfg) \o DenoiseBlock(low, steps, cfg)
    \o VaeBlock(vae, 1) \o <<Check>>

(* animate: the video, then the search for a cycle when a loop is wanted.   *)
AnimateScript(wan, loop, dino, batches) ==
  IF loop THEN wan \o CycleScript(dino, batches) ELSE wan

(* rmbg: two nested blocks; large frames go through both models twice.     *)
RmbgScript(backbone, decoder, chunks, passes) ==
  <<Check, Enter(backbone), Enter(decoder)>>
    \o Times(chunks, <<Check>>
         \o Times(passes, <<Compute(backbone), Compute(decoder)>>))
    \o <<Exit(decoder), Exit(backbone), Check>>

(* norm_map                                                                *)
NormMapScript(normal, chunks) ==
  <<Check, Check, Enter(normal)>>
    \o Times(chunks, <<Check, Compute(normal)>>)
    \o <<Exit(normal), Check>>

ASSUME ScriptsAssumption == Scripts \subseteq Seq(Operations)

(* A `with` statement is left by its own end, a pipeline does not enter a   *)
(* model again inside its block, and it loads by hand and computes inside  *)
(* the block only.                                                         *)
Nested(open, s) ==
  /\ open \in [1 .. Len(s) + 1 -> Seq(Model)]
  /\ open[1] = <<>> /\ open[Len(s) + 1] = <<>>
  /\ \A n \in 1 .. Len(s) :
       CASE s[n].op = "enter" -> /\ s[n].model \notin ToSet(open[n])
                                 /\ open[n + 1] = Append(open[n], s[n].model)
         [] s[n].op = "exit" -> /\ open[n] # <<>>
                                /\ s[n].model = Last(open[n])
                                /\ open[n + 1] = Front(open[n])
         [] s[n].op \in {"load", "infer"} -> /\ s[n].model \in ToSet(open[n])
                                             /\ open[n + 1] = open[n]
         [] OTHER -> open[n + 1] = open[n]

ASSUME BlocksAssumption == \A s \in Scripts : Nested(Blocks[s], s)

(* The models that a pipeline has open at a time fit on the device: a fact  *)
(* about the sizes they declare and the limit that is configured.          *)
ASSUME FitsAssumption ==
  \A s \in Scripts : \A n \in 1 .. Len(s) + 1 :
    UsedGpuMem(ToSet(Blocks[s][n])) =< GpuMemLimit

-----------------------------------------------------------------------------
JobsInit ==
  /\ Init
  /\ mode = "idle"
  /\ script = <<>>
  /\ pc = 1
  /\ entered = <<>>

StartJob(s) ==
  /\ mode = "idle"
  /\ mode' = "running"
  /\ script' = s
  /\ pc' = 1
  /\ UNCHANGED <<vars, entered>>

Running == mode = "running" /\ pc =< Len(script)

At(op) == Running /\ script[pc].op = op

Current == script[pc].model

Advance ==
  /\ pc' = pc + 1
  /\ UNCHANGED <<mode, script>>

(* __enter__ returned: its __exit__ will run; a bare load opens no block.   *)
Opened ==
  entered' = IF script[pc].op = "enter" THEN Append(entered, Current) ELSE entered

(* Device.load of a model that is on the device returns at once.           *)
LoadPresent ==
  /\ At("enter") \/ At("load")
  /\ \/ Current \in active /\ Ready /\ UNCHANGED vars
     \/ Activate(Current)
  /\ Opened
  /\ Advance

LoadAbsent ==
  /\ At("enter") \/ At("load")
  /\ BeginLoad(Current)
  /\ UNCHANGED jobVars

MakeRoom == Evict /\ UNCHANGED jobVars

LoadReturns ==
  /\ FinishLoad
  /\ Opened
  /\ Advance

LoadRaises ==
  /\ OutOfMemory \/ FailLoad
  /\ mode' = "failed"
  /\ UNCHANGED <<script, pc, entered>>

InferStep ==
  /\ At("infer")
  /\ Infer(Current)
  /\ Advance
  /\ UNCHANGED entered

(* Deviation of CloseInnermost: the model stays active.                     *)
CloseKeeps ==
  /\ entered # <<>>
  /\ entered' = Front(entered)
  /\ UNCHANGED vars

(* Device.cache returns early when the model is not active.                *)
CloseInnermost ==
  /\ entered # <<>>
  /\ LET m == Last(entered) IN
       IF m \in active THEN Cache(m) ELSE UNCHANGED vars
  /\ entered' = Front(entered)

ExitStep ==
  /\ At("exit")
  /\ CloseInnermost
  /\ Advance

(* A check goes on, or finds the output pipe closed: InferenceCanceledError.*)
CheckStep ==
  /\ At("check")
  /\ \/ Advance
     \/ mode' = "canceled" /\ UNCHANGED <<script, pc>>
  /\ UNCHANGED <<vars, entered>>

(* Anything else a job can raise: a rejected frame, an error of CUDA, a     *)
(* PipeClosedError when it delivers its result after the consumer left.    *)
JobRaises ==
  /\ mode = "running"
  /\ ~Loading
  /\ mode' = "failed"
  /\ UNCHANGED <<vars, script, pc, entered>>

(* Deviation of Unwind: __exit__ does not run when an exception propagates. *)
UnwindSkips ==
  /\ mode \in {"canceled", "failed"}
  /\ entered # <<>>
  /\ entered' = Front(entered)
  /\ UNCHANGED <<vars, mode, script, pc>>

Unwind ==
  /\ mode \in {"canceled", "failed"}
  /\ CloseInnermost
  /\ UNCHANGED <<mode, script, pc>>

(* `_run` returns, its end reached or InferenceCanceledError caught; the    *)
(* worker loop caches what is still active.                                *)
JobReturns ==
  /\ \/ mode = "running" /\ pc > Len(script)
     \/ mode = "canceled" /\ entered = <<>>
  /\ CacheAll
  /\ mode' = "idle"
  /\ script' = <<>>
  /\ pc' = 1
  /\ UNCHANGED entered

(* Any other exception leaves Worker.start.                                *)
WorkerDies ==
  /\ mode = "failed"
  /\ entered = <<>>
  /\ mode' = "dead"
  /\ UNCHANGED <<vars, script, pc, entered>>

WorkerStep ==
  \/ LoadPresent \/ LoadAbsent \/ MakeRoom \/ LoadReturns \/ LoadRaises
  \/ InferStep \/ ExitStep \/ CheckStep \/ JobRaises
  \/ Unwind \/ JobReturns \/ WorkerDies

JobsNext == WorkerStep \/ \E s \in Scripts : StartJob(s)

JobsSpec == JobsInit /\ [][JobsNext]_allVars

-----------------------------------------------------------------------------
(* Properties                                                              *)

(* The state of the worker thread.                                         *)
JobsTypeOK ==
  /\ mode \in Modes
  /\ script \in Seq(Operations)
  /\ pc \in 1 .. Len(script) + 1
  /\ entered \in Seq(Model)

(* A pipeline computes with a model only while the device holds it active  *)
(* and its weights are there (the asserts in the pipe methods).            *)
ComputesWhileActive ==
  At("infer") => Current \in active /\ Current \in weights

(* With the sizes the models declare and the limit of config/service.yml,  *)
(* no job of any pipeline ever runs into InsufficientDeviceMemoryError.    *)
MemorySuffices == error # "insufficient"

(* The models in use are at every moment those whose blocks are open: a job *)
(* that is canceled, raises, or fails to load a model deep in its blocks    *)
(* gives up every model it holds and no other, so that none stays where no *)
(* eviction can take it and none is evicted under the blocks around.       *)
ActiveIsEntered == active = ToSet(entered)
=============================================================================
