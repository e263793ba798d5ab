------------------------------ MODULE MCDevice ------------------------------
(***************************************************************************)
(* Four models of unequal size on a device that holds the big one and one  *)
(* more, or three small ones: loads that evict nothing, one or two models, *)
(* and loads that cannot succeed while others are in use.  Their classes    *)
(* have the four shapes of a load() that the shipped ones have.             *)
(***************************************************************************)
EXTENDS ModelLoading

CONSTANTS big, mid, vae, tiny

Sized(class, gpuMem) == [class EXCEPT !.gpuMem = gpuMem]

MCModel == {big, mid, vae, tiny}
MCClassOf ==
  big :> Sized(QwenTransformerModel, 4) @@ mid :> Sized(StableNormalModel, 3) @@
  vae :> Sized(WanVaeModel, 2) @@ tiny :> Sized(InSPyReNetDecoderModel, 1)
MCGpuMem == [m \in MCModel |-> MCClassOf[m].gpuMem]
MCEager == { m \in MCModel : KeepsEarly(MCClassOf[m]) }

(* Counting owned units is adding up sizes.                                *)
ASSUME UsedIsSum ==
  \A S \in SUBSET Model :
    UsedGpuMem(S) = FoldSet(LAMBDA m, total : total + GpuMem[m], 0, S)
=============================================================================
