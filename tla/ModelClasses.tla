---------------------------- MODULE ModelClasses ----------------------------
(***************************************************************************)
(* The model classes of domain/pipeline/model: how much GPU memory each     *)
(* declares (GiB), what its load() does in which order, which attributes   *)
(* its unload() sets back to None and which ones its pipe methods assert.   *)
(***************************************************************************)
EXTENDS Naturals, Sequences, SequencesExt

(* One step of a load(): from_pretrained or a checkpoint from the hub (a   *)
(* value in CPU memory, kept by a local until it is assigned), a tensor     *)
(* made from the configuration, `.to(DEVICE)`, or `self.<part> = ...`.      *)
Fetch == [does |-> "fetch", part |-> "none"]
Build == [does |-> "build", part |-> "none"]
Move == [does |-> "move", part |-> "none"]
Assign(part) == [does |-> "assign", part |-> part]

(* A class whose attributes are `parts`; load() and unload() return early   *)
(* by the first of them, the handle of the network.                         *)
Class(gpuMem, parts, load) ==
  [gpuMem |-> gpuMem, handle |-> Head(parts), clears |-> Range(parts),
   asserts |-> Range(parts), load |-> load]

(* The two orders: the attribute first, or the network on the GPU first.   *)
Eagerly(handle) == <<Fetch, Assign(handle), Move>>
Late(handle) == <<Fetch, Move, Assign(handle)>>

QwenTextEncoderModel == Class(14 + 2, <<"encoder">>, Eagerly("encoder"))

WanTextEncoderModel == Class(11 + 3, <<"encoder">>, Eagerly("encoder"))

(* The latents' statistics are assigned after the VAE is.                  *)
QwenVaeModel ==
  Class(1 + 3, <<"vae", "latents_mean", "latents_std">>,
        Eagerly("vae")
          \o <<Build, Assign("latents_mean"), Build, Assign("latents_std")>>)

WanVaeModel ==
  Class(1 + 5, <<"vae", "latents_mean", "latents_inv_std">>,
        Eagerly("vae")
          \o <<Build, Assign("latents_mean"), Build, Assign("latents_inv_std")>>)

QwenTransformerModel == Class(40 + 6, <<"transformer">>, Late("transformer"))

(* Two instances: the transformers for high and for low noise.             *)
WanTransformerModel == Class(28 + 6, <<"transformer">>, Late("transformer"))

DinoV2Model == Class((128 + 896) \div 1024, <<"model">>, Late("model"))

(* Both halves of InSPyReNet refuse a checkpoint with unexpected keys.     *)
InSPyReNetBackboneModel ==
  Class((512 + 3584) \div 1024, <<"backbone">>, <<Fetch>> \o Late("backbone"))

InSPyReNetDecoderModel ==
  Class((256 + 768) \div 1024, <<"decoder", "image_pyramid">>,
        <<Fetch>> \o Late("decoder") \o <<Move, Assign("image_pyramid")>>)

(* The pipeline that guesses the start goes to the GPU before the main one. *)
StableNormalModel ==
  Class(5 + 3, <<"pipe">>, <<Fetch, Move, Fetch, Move, Assign("pipe")>>)

-----------------------------------------------------------------------------
MayRaise(step) == step.does # "assign"

(* A load() that raises at its i-th step has assigned these attributes.     *)
AssignedBefore(load, i) ==
  { load[j].part : j \in { k \in 1 .. i - 1 : load[k].does = "assign" } }

(* A failed load() of such a class leaves its network referenced.           *)
KeepsEarly(class) ==
  \E i \in DOMAIN class.load :
    MayRaise(class.load[i]) /\ class.handle \in AssignedBefore(class.load, i)

(* load() assigns what the pipe methods assert, the handle among it, and    *)
(* nothing that unload() leaves, and it moves something to the GPU.         *)
WellFormed(class) ==
  LET assigned == AssignedBefore(class.load, Len(class.load) + 1)
  IN  /\ class.load \in Seq([does : {"fetch", "build", "move", "assign"}, part : STRING])
      /\ class.handle \in class.asserts
      /\ class.asserts \subseteq assigned
      /\ assigned \subseteq class.clears
      /\ \E i \in DOMAIN class.load : class.load[i].does = "move"
=============================================================================
