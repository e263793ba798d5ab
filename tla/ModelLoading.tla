---------------------------- MODULE ModelLoading ----------------------------
(***************************************************************************)
(* Device with the inside of model.load and model.unload: the attributes of *)
(* every model, what is on the GPU at each moment, and the point at which a *)
(* load() raises.  Device takes a load for one step and keeps only `which   *)
(* models reference weights` of the rest; here that is checked.             *)
(***************************************************************************)
EXTENDS Device, ModelClasses

CONSTANTS
  ClassOf   \* the class of each model

ASSUME ClassAssumption ==
  \A m \in Model :
    /\ GpuMem[m] = ClassOf[m].gpuMem
    /\ WellFormed(ClassOf[m])
    /\ KeepsEarly(ClassOf[m]) => m \in EagerModels

VARIABLES
  parts,    \* attributes of each model that are not None
  onGpu,    \* models with tensors on the GPU
  at        \* the next step of the load() under way, 0 outside of one

loadingVars == <<parts, onGpu, at>>
modelVars == <<vars, loadingVars>>

Held(m) == ClassOf[m].handle \in parts[m]

LoadingInit ==
  /\ Init
  /\ parts = [m \in Model |-> {}]
  /\ onGpu = {}
  /\ at = 0

-----------------------------------------------------------------------------
LoadOf(m) == ClassOf[m].load

Step == LoadOf(call)[at]

(* Operations of the device that touch no weights.                         *)
Bookkeeping ==
  /\ \/ \E m \in Model : Activate(m) \/ BeginLoad(m) \/ Cache(m) \/ Infer(m)
     \/ CacheAll
     \/ OutOfMemory
  /\ UNCHANGED loadingVars

(* Deviations of Cleared: the handle is kept; nothing but the handle is set *)
(* to None.                                                                 *)
ClearedButHandle(m) == parts[m] \ (ClassOf[m].clears \ {ClassOf[m].handle})
ClearedHandleOnly(m) == parts[m] \ {ClassOf[m].handle}

(* unload(): nothing without a handle.                                     *)
Cleared(m) == IF Held(m) THEN parts[m] \ ClassOf[m].clears ELSE parts[m]

(* Device.unload of the chosen model and its unload().                      *)
EvictModel ==
  /\ at = 0
  /\ Evict
  /\ parts' = [m \in Model |-> IF m \in cached \ cached' THEN Cleared(m) ELSE parts[m]]
  /\ onGpu' = onGpu \ { m \in cached \ cached' : Cleared(m) = {} }
  /\ UNCHANGED at

(* model.load() is called; with a handle it returns at once.               *)
CallLoad ==
  /\ Loading
  /\ ~Short
  /\ at = 0
  /\ at' = IF Held(call) THEN Len(LoadOf(call)) + 1 ELSE 1
  /\ UNCHANGED <<vars, parts, onGpu>>

InLoad == at # 0 /\ at \in DOMAIN LoadOf(call)

LoadOn ==
  /\ InLoad
  /\ parts' = IF Step.does = "assign"
              THEN [parts EXCEPT ![call] = @ \cup {Step.part}]
              ELSE parts
  /\ onGpu' = IF Step.does = "move" THEN onGpu \cup {call} ELSE onGpu
  /\ at' = at + 1
  /\ UNCHANGED vars

(* A step raises.  What a local held is freed; what was assigned stays, and *)
(* a network that was being moved is on the GPU in part.                    *)
LoadBreaks ==
  /\ InLoad
  /\ MayRaise(Step)
  /\ FailLoad
  /\ call \in weights' <=> Held(call)
  /\ onGpu' = IF Held(call)
              THEN onGpu \cup (IF Step.does = "move" THEN {call} ELSE {})
              ELSE onGpu \ {call}
  /\ at' = 0
  /\ UNCHANGED parts

LoadDone ==
  /\ at # 0
  /\ ~InLoad
  /\ FinishLoad
  /\ at' = 0
  /\ UNCHANGED <<parts, onGpu>>

ModelStep == CallLoad \/ LoadOn \/ LoadBreaks \/ LoadDone

LoadingNext == Bookkeeping \/ EvictModel \/ ModelStep

LoadingSpec == LoadingInit /\ [][LoadingNext]_modelVars

(* As in Device: the code of a load runs on.                               *)
LoadingFairSpec ==
  LoadingSpec /\ WF_modelVars(EvictModel \/ ModelStep \/ (OutOfMemory /\ UNCHANGED loadingVars))

-----------------------------------------------------------------------------
(* Properties                                                              *)

(* The asserts of the pipe methods hold for every model in use: no early    *)
(* return of a load(), after whatever evictions, leaves an attribute None.  *)
AssertsHold == \A m \in active : ClassOf[m].asserts \subseteq parts[m]

(* What Device calls `weights` are the handles that are set.  The GPU holds *)
(* the models that are counted, the one being loaded and what a failed load *)
(* left behind, nothing of an evicted one, and all of it fits at every step *)
(* of a load().                                                             *)
GpuHoldsCounted ==
  /\ weights = { m \in Model \ {call} : Held(m) }
  /\ Loaded \subseteq onGpu
  /\ onGpu \subseteq weights \cup {call}
  /\ UsedGpuMem(onGpu) =< GpuMemLimit
=============================================================================
