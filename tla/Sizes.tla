------------------------------- MODULE Sizes --------------------------------
(***************************************************************************)
(* The sizes the pipelines compute with: how large a video or an edited     *)
(* picture becomes, and which frames rmbg and norm_map take.  The limits    *)
(* are parameters; MCFrameStore gives small ones for its runs and checks    *)
(* the shipped ones beside them.                                            *)
(***************************************************************************)
EXTENDS Integers

CONSTANTS
  MaxArea,      \* animate.py: pixels of a frame
  ModValue,     \* animate.py: a side is a multiple of it
  Temporal,     \* scale_factor_temporal of the VAE
  MaxHrSize,    \* rmbg.py: longest side it takes
  HrThreshold,  \* rmbg.py: longest side it takes in one pass
  MinSide,      \* norm_map.py: shortest side it takes
  MaxSide,      \* norm_map.py: longest side it computes with
  Multiple      \* norm_map.py: a side it computes with is a multiple of it

ASSUME SizesAssumption ==
  /\ MaxArea \in Nat \ {0}
  /\ ModValue \in Nat \ {0}
  /\ Temporal \in Nat \ {0, 1}
  /\ MaxHrSize \in Nat \ {0}
  /\ MaxHrSize % ModValue = 0
  /\ MinSide \in Nat

Bigger(x, y) == IF x > y THEN x ELSE y
Smaller(x, y) == IF x < y THEN x ELSE y

(* round(math.sqrt(area * num / den))                                      *)
RoundSqrt(area, num, den) ==
  CHOOSE n \in 0 .. area * num :
    /\ n = 0 \/ (2 * n - 1) * (2 * n - 1) * den =< 4 * area * num
    /\ 4 * area * num < (2 * n + 1) * (2 * n + 1) * den

DownTo(value, multiple) == (value \div multiple) * multiple

(* _compute_dims: frames of about MaxArea pixels with the character's       *)
(* aspect, each side a multiple of ModValue; _round_dims leaves them alone. *)
Side(num, den) == Bigger(DownTo(RoundSqrt(MaxArea, num, den), ModValue), ModValue)

FrameSize(character) ==
  [width |-> Side(character.width, character.height),
   height |-> Side(character.height, character.width)]

(* _round_num_frames                                                       *)
RoundNumFrames(n) ==
  Bigger(IF n % Temporal = 1 THEN n ELSE DownTo(n, Temporal) + 1, 1)

(* _prepare_latents pads with numFrames - 2 pictures between the first and  *)
(* the last one; a negative number of them raises.                          *)
LatentsRaise(numFrames, lastFrame) == lastFrame /\ numFrames < 2

Longest(size) == Bigger(size.width, size.height)
Shortest(size) == Smaller(size.width, size.height)

(* Deviation of RmbgRefuses: the limit itself is refused.                   *)
RmbgRefusesLimit(size) == Longest(size) >= MaxHrSize

(* rmbg: _preprocess raises InferenceError, _infer_chunk runs the networks  *)
(* once or twice.                                                           *)
RmbgRefuses(size) == Longest(size) > MaxHrSize
RmbgPasses(size) == IF Longest(size) =< HrThreshold THEN 1 ELSE 2

(* norm_map: _validate, _target_hw                                         *)
NormMapRefuses(size) == Shortest(size) < MinSide

RoundDiv(x, y) == (2 * x + y) \div (2 * y)

NormMapSide(side, size) ==
  Bigger(Multiple,
         DownTo(IF Longest(size) > MaxSide
                THEN RoundDiv(side * MaxSide, Longest(size))
                ELSE side,
                Multiple))
=============================================================================
