------------------------------- MODULE Device -------------------------------
(***************************************************************************)
(* The model manager of a worker: Device.py with LruEvictionPolicy.py and   *)
(* the load/unload of the model classes.  One thread, the worker's, calls   *)
(* it; what makes it hard is that `load` evicts in a loop, that model.load  *)
(* may raise in the middle, and that the eviction order is kept in a        *)
(* structure (`_order`) that must follow the two sets by signals alone.     *)
(*                                                                         *)
(* The client here is the most general one: any model, any order of calls. *)
(* DeviceJobs restricts it to what the pipelines do.                        *)
(***************************************************************************)
EXTENDS DeviceMemory, Sequences, SequencesExt

CONSTANTS
  NoModel,      \* no call of Device.load is under way
  EagerModels   \* models whose load() stores the weights before moving them
                \* to the GPU, so that a failed load leaves them referenced

ASSUME DeviceAssumption ==
  /\ NoModel \notin Model
  /\ EagerModels \subseteq Model

VARIABLES
  active,   \* Device._active_models
  cached,   \* Device._cached_models
  order,    \* LruEvictionPolicy._order: ids, least recently used first
  weights,  \* models that reference their weights (`self._vae is not None`)
  call,     \* the model a Device.load is working on, past its early returns
  error     \* the exception the worker thread is unwinding with, if any

vars == <<active, cached, order, weights, call, error>>

Errors == {"none", "insufficient", "load_failed"}

Loaded == active \cup cached

Init ==
  /\ active = {}
  /\ cached = {}
  /\ order = <<>>
  /\ weights = {}
  /\ call = NoModel
  /\ error = "none"

-----------------------------------------------------------------------------
(* The eviction policy.                                                    *)

(* OrderedDict.pop(id, None)                                               *)
Forget(s, m) ==
  IF m \in Range(s)
  THEN RemoveAt(s, CHOOSE i \in DOMAIN s : s[i] = m)
  ELSE s

(* Deviation of Touch: the wrong end of the order.                         *)
TouchFirst(s, m) == <<m>> \o Forget(s, m)

(* signal(ModelInferencedEvent)                                            *)
Touch(s, m) == Append(Forget(s, m), m)

(***************************************************************************)
(* choose: a candidate missing from the order comes first (which one is    *)
(* set iteration order, hence any), otherwise the first of the order that  *)
(* is a candidate.                                                         *)
(***************************************************************************)
Victims(s, candidates) ==
  LET fresh == candidates \ Range(s) IN
  IF fresh # {}
  THEN fresh
  ELSE { s[i] : i \in { j \in DOMAIN s : /\ s[j] \in candidates
                                          /\ \A k \in 1 .. j - 1 :
                                               s[k] \notin candidates } }

-----------------------------------------------------------------------------
(* Device.load                                                             *)

Ready == call = NoModel /\ error = "none"

(* Its second early return: a cached model becomes active again.           *)
Activate(m) ==
  /\ Ready
  /\ m \in cached
  /\ cached' = cached \ {m}
  /\ active' = active \cup {m}
  /\ UNCHANGED <<order, weights, call, error>>

BeginLoad(m) ==
  /\ Ready
  /\ m \notin Loaded
  /\ call' = m
  /\ UNCHANGED <<active, cached, order, weights, error>>

Loading == call # NoModel

(* Deviation of Short: cached models are taken for free memory.            *)
ShortOfActive == FreeGpuMem(active) < GpuMem[call]

(* The condition of the loop of Device.free.                               *)
Short == FreeGpuMem(Loaded) < GpuMem[call]

(* Deviations of Evict: the weights are not dropped; the set is not         *)
(* updated; models in use are candidates too.                              *)
EvictKeepsWeights ==
  /\ Loading
  /\ Short
  /\ \E victim \in Victims(order, cached) :
       /\ cached' = cached \ {victim}
       /\ order' = Forget(order, victim)
  /\ UNCHANGED <<active, weights, call, error>>

EvictKeepsCached ==
  /\ Loading
  /\ Short
  /\ \E victim \in Victims(order, cached) :
       /\ weights' = weights \ {victim}
       /\ order' = Forget(order, victim)
  /\ UNCHANGED <<active, cached, call, error>>

EvictAny ==
  /\ Loading
  /\ Short
  /\ \E victim \in Victims(order, Loaded) :
       /\ active' = active \ {victim}
       /\ cached' = cached \ {victim}
       /\ weights' = weights \ {victim}
       /\ order' = Forget(order, victim)
  /\ UNCHANGED <<call, error>>

(* One turn of the loop: choose, Device.unload, model.unload, the signal.  *)
Evict ==
  /\ Loading
  /\ Short
  /\ cached # {}
  /\ \E victim \in Victims(order, cached) :
       /\ cached' = cached \ {victim}
       /\ weights' = weights \ {victim}
       /\ order' = Forget(order, victim)
  /\ UNCHANGED <<active, call, error>>

(* Deviation of OutOfMemory: raised before everything cached is evicted.   *)
OutOfMemoryEarly ==
  /\ Loading
  /\ Short
  /\ error' = "insufficient"
  /\ call' = NoModel
  /\ UNCHANGED <<active, cached, order, weights>>

(* InsufficientDeviceMemoryError                                           *)
OutOfMemory ==
  /\ Loading
  /\ Short
  /\ cached = {}
  /\ error' = "insufficient"
  /\ call' = NoModel
  /\ UNCHANGED <<active, cached, order, weights>>

(* model.load() returns, the model is recorded as active.                  *)
FinishLoad ==
  /\ Loading
  /\ ~Short
  /\ weights' = weights \cup {call}
  /\ active' = active \cup {call}
  /\ call' = NoModel
  /\ UNCHANGED <<cached, order, error>>

(* model.load() raises: download, disk or CUDA error.                      *)
FailLoad ==
  /\ Loading
  /\ ~Short
  /\ weights' \in {weights, weights \cup ({call} \cap EagerModels)}
  /\ error' = "load_failed"
  /\ call' = NoModel
  /\ UNCHANGED <<active, cached, order>>

-----------------------------------------------------------------------------
(* The other operations.                                                   *)

(* Device.cache, also run by `__exit__` while an exception propagates.     *)
Cache(m) ==
  /\ call = NoModel
  /\ m \in active
  /\ active' = active \ {m}
  /\ cached' = cached \cup {m}
  /\ UNCHANGED <<order, weights, call, error>>

(* Device.cache_all, run by the worker after a job that returned.          *)
CacheAll ==
  /\ Ready
  /\ active' = {}
  /\ cached' = Loaded
  /\ UNCHANGED <<order, weights, call, error>>

(* A model computes and the pipeline signals ModelInferencedEvent.         *)
Infer(m) ==
  /\ Ready
  /\ m \in active
  /\ order' = Touch(order, m)
  /\ UNCHANGED <<active, cached, weights, call, error>>

LoadStep == Evict \/ OutOfMemory \/ FinishLoad \/ FailLoad

Next ==
  \/ \E m \in Model : Activate(m) \/ BeginLoad(m) \/ Cache(m) \/ Infer(m)
  \/ CacheAll
  \/ LoadStep

Spec == Init /\ [][Next]_vars

(***************************************************************************)
(* A call of Device.load is straight-line code of one thread: it keeps     *)
(* running.  Nothing obliges a client to make calls.                       *)
(***************************************************************************)
FairSpec == Spec /\ WF_vars(LoadStep)

-----------------------------------------------------------------------------
(* Properties                                                              *)

(* Types of the variables; OrderedDict keys are unique, and a model is     *)
(* active, cached or absent, never two of them.                            *)
TypeOK ==
  /\ active \subseteq Model
  /\ cached \subseteq Model
  /\ active \cap cached = {}
  /\ order \in Seq(Model)
  /\ weights \subseteq Model
  /\ call \in Model \cup {NoModel}
  /\ error \in Errors

(* The weights that models really hold fit on the GPU at every moment, also *)
(* in the middle of a load that evicts and after a load that failed (the   *)
(* point of Device.free: evictions come before model.load).                *)
MemoryBound == UsedGpuMem(weights) =< GpuMemLimit

(* The device accounts for exactly the weights that exist, until a failed  *)
(* load; after one it may miss those of an eager model, never count more.  *)
WeightsAccounted ==
  /\ Loaded \subseteq weights
  /\ error # "load_failed" => weights = Loaded

(* `_order` lists models on the device only, each once: a stale entry      *)
(* would make a model that was evicted and loaded again look recently used, *)
(* or send choose() after a model that is gone.                            *)
OrderTracksLoaded ==
  /\ Range(order) \subseteq Loaded
  /\ \A i, j \in DOMAIN order : order[i] = order[j] => i = j

(* A model in use keeps its weights in every step: whatever is evicted to  *)
(* make room, it is never a model some pipeline has entered.               *)
ActiveKeepsWeights == [][active \subseteq weights']_vars

(* InsufficientDeviceMemoryError tells the truth: the models in use and    *)
(* the new one do not fit together, whatever is evicted.                   *)
InsufficientIsTrue ==
  [][error' = "insufficient" /\ error = "none" =>
       UsedGpuMem(active \cup {call}) > GpuMemLimit]_vars

(* Every Device.load that was started returns or raises: the eviction loop *)
(* of Device.free does not spin.                                           *)
LoadEnds == Loading ~> ~Loading

(* a stands before b in the sequence s.                                    *)
Precedes(s, a, b) ==
  \E i, j \in DOMAIN s : i < j /\ s[i] = a /\ s[j] = b

(* The relation a sequence of models stands for.                           *)
Recency(s) == { p \in Model \X Model : Precedes(s, p[1], p[2]) }

Lru == INSTANCE LruCache WITH
  idle <- cached, used <- Range(order), older <- Recency(order)

(* The device is a least-recently-used cache: the two sets and the ordered *)
(* dictionary, updated by separate signals, behave as LruCache says.       *)
ImplementsLru == Lru!Spec
=============================================================================
