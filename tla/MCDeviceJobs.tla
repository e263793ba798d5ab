---------------------------- MODULE MCDeviceJobs ----------------------------
(***************************************************************************)
(* The models of the three families of pipelines, with the GPU memory they *)
(* declare in GiB, on the 60 GiB of config/service.yml.                     *)
(***************************************************************************)
EXTENDS DeviceJobs, ModelClasses

CONSTANTS
  qwenEncoder, qwenVae, qwenTransformer,
  wanEncoder, wanVae, wanHigh, wanLow,
  dino, backbone, decoder, normal

ShippedClass ==
  qwenEncoder :> QwenTextEncoderModel @@ qwenVae :> QwenVaeModel @@
  qwenTransformer :> QwenTransformerModel @@
  wanEncoder :> WanTextEncoderModel @@ wanVae :> WanVaeModel @@
  wanHigh :> WanTransformerModel @@ wanLow :> WanTransformerModel @@
  dino :> DinoV2Model @@ backbone :> InSPyReNetBackboneModel @@
  decoder :> InSPyReNetDecoderModel @@ normal :> StableNormalModel

ShippedModel == DOMAIN ShippedClass
ShippedGpuMem == [m \in ShippedModel |-> ShippedClass[m].gpuMem]
ShippedEager == { m \in ShippedModel : KeepsEarly(ShippedClass[m]) }

(* What ModelLoading assumes of a class holds of every shipped one.         *)
ASSUME ShippedWellFormed == \A m \in ShippedModel : WellFormed(ShippedClass[m])

(* animate leaves guidance_scale at 3.5: its video is always guided.       *)
Video == WanScript(wanEncoder, wanVae, wanHigh, wanLow, 2, TRUE)

(* An edited image; it is guided when the task has a negative prompt.      *)
Image(images, cfg) ==
  QwenScript(qwenEncoder, qwenVae, qwenTransformer, images, 2, cfg)

(* Two denoising steps, two chunks, up to two batches.                      *)
ShippedScripts ==
  { Image(images, cfg) : images \in {1, 2}, cfg \in BOOLEAN } \cup
  { AnimateScript(Video, FALSE, dino, 1),
    AnimateScript(Video, TRUE, dino, 2),
    RmbgScript(backbone, decoder, 2, 2),
    NormMapScript(normal, 2) }

(* Every `with` opens a block, every end of one closes the innermost.       *)
ShippedBlocks ==
  [s \in ShippedScripts |->
     LET open[n \in 1 .. Len(s) + 1] ==
           IF n = 1 THEN <<>>
           ELSE CASE s[n - 1].op = "enter" -> Append(open[n - 1], s[n - 1].model)
                  [] s[n - 1].op = "exit" -> Front(open[n - 1])
                  [] OTHER -> open[n - 1]
     IN open]
=============================================================================
