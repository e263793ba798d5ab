---------------------------- MODULE DeviceMemory ----------------------------
(***************************************************************************)
(* GPU memory accounting of a worker device.  Every model declares a fixed *)
(* amount (`gpu_mem`); a device has a limit.  Amounts are counted in whole *)
(* units (GiB in the shipped configuration).                               *)
(***************************************************************************)
EXTENDS Integers, FiniteSets

CONSTANTS
  Model,        \* the models a process constructs; `Model.id` is unique
  GpuMem,       \* GpuMem[m]: the units model m declares (Model.gpu_mem)
  GpuMemLimit   \* the units the device may hand out (`device.gpu_mem`)

ASSUME MemoryAssumption ==
  /\ IsFiniteSet(Model)
  /\ GpuMem \in [Model -> Nat]
  /\ GpuMemLimit \in Nat

(* The units occupied by the models of S, each unit tagged with its owner.  *)
Units(S) == UNION { {m} \X (1 .. GpuMem[m]) : m \in S }

(***************************************************************************)
(* Device._used_gpu_mem: the sum of gpu_mem over a set of models.  Counting *)
(* owned units is the same number as adding them up, and unlike a fold it   *)
(* can be reasoned about with the theorems on finite sets.                  *)
(***************************************************************************)
UsedGpuMem(S) == Cardinality(Units(S))

(* Device._free_gpu_mem when the models of S are on the device.             *)
FreeGpuMem(S) == GpuMemLimit - UsedGpuMem(S)
=============================================================================
