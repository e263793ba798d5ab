---------------------------- MODULE MCFrameStore ----------------------------
(***************************************************************************)
(* TLC instance of FrameStore: one animation, which is asked for in several *)
(* ways, rmbg and norm_map on it, on each other's result or on an upload.   *)
(***************************************************************************)
EXTENDS FrameStore, SequencesExt, TLC

CONSTANTS m, c, n, u, v

MCMovies == {m}
MCCuts == {c}
MCNorms == {n}
MCUploads == {u, v}

(* A strip of two squares, and an upright picture, which holds none.       *)
Drawn(width, height) ==
  [width |-> width, height |-> height,
   at |-> [p \in Pixels(width, height) |-> <<u, 1, 1, p>>]]

MCUploaded == (u :> Drawn(2, 1)) @@ (v :> Drawn(1, 2))

MCMaxTries == (m :> 2) @@ (c :> 2) @@ (n :> 1)

(* Similarities of five frames: as the distance on a ring of `period`      *)
(* frames has it, and still pictures, in which there is no cycle.           *)
Ring(period) ==
  [p \in (0 .. 4) \X (0 .. 4) |->
     LET d == Abs(p[1] - p[2]) % period IN IF d = 0 THEN 10 ELSE 4]
Still == [p \in (0 .. 4) \X (0 .. 4) |-> 10]
(* The first frame is unlike the others, the last is like the second.      *)
Late == [p \in (0 .. 4) \X (0 .. 4) |->
           IF p[1] # p[2] /\ p[1] * p[2] = 0 THEN 1 ELSE Ring(3)[p]]

Asked(width, height, numFrames, loop, lastFrame, sims) ==
  [character |-> [width |-> width, height |-> height], numFrames |-> numFrames,
   loop |-> loop, lastFrame |-> lastFrame, sims |-> sims]

MCRequests ==
  { Asked(1, 1, 6, TRUE, FALSE, sims) : sims \in {<<Late, Still>>, <<Still, Ring(3)>>} }
    \cup
  { Asked(1, 2, 3, FALSE, FALSE, None),   \* upright, one frame
    Asked(4, 1, 1, FALSE, FALSE, None),   \* too wide for rmbg, too low for norm_map
    Asked(1, 1, 2, FALSE, TRUE, None) }   \* no room for a last frame

-----------------------------------------------------------------------------
(* The pure parts on bounded inputs.                                       *)

(* What Python's documentation has of a slice: the indices i = start + k *  *)
(* step between the bounds, which are moved into the sequence first.        *)
Sliced(len, start, stop, step) ==
  LET bound(i, low, high) ==
        LET j == IF i < 0 THEN i + len ELSE i IN Min({Max({j, low}), high})
      from == IF start = None THEN (IF step > 0 THEN 0 ELSE len - 1)
              ELSE IF step > 0 THEN bound(start, 0, len) ELSE bound(start, -1, len - 1)
      to == IF stop = None THEN (IF step > 0 THEN len ELSE -1)
            ELSE IF step > 0 THEN bound(stop, 0, len) ELSE bound(stop, -1, len - 1)
      within == { i \in 0 .. len - 1 :
                    IF step > 0 THEN i \in from .. to - 1 /\ (i - from) % step = 0
                    ELSE i \in to + 1 .. from /\ (from - i) % (-step) = 0 }
  IN SetToSortSeq(within, LAMBDA i, j : IF step > 0 THEN i < j ELSE i > j)

Bounds == (-4 .. 4) \cup {None}

ASSUME IndicesAreSlices ==
  \A len \in 0 .. 3, start \in Bounds, stop \in Bounds, step \in {-2, -1, 1, 2} :
    Indices(len, start, stop, step) = Sliced(len, start, stop, step)

(* An atlas of 3 columns and 2 rows, of which cells 1 .. 5 are shown.      *)
Wide == FrameSet([width |-> 3, height |-> 2, at |-> [p \in Pixels(3, 2) |-> p]], 1, 1, 5, 1)

(* A slice shows the frames its indices name, a view or a new atlas, and so *)
(* does a slice of a slice.                                                *)
Chosen(f, s) == [k \in DOMAIN Indices(f.count, s[1], s[2], s[3]) |->
                   Shown(f)[Indices(f.count, s[1], s[2], s[3])[k] + 1]]
Slices == { <<0, None, 1>>, <<1, 4, 1>>, <<-3, None, 1>>, <<None, None, -1>>, <<1, 9, 2>> }

ASSUME SlicesShowTheirFrames ==
  \A s \in Slices, t \in Slices :
    LET one == Slice(Wide, s[1], s[2], s[3])
        two == Slice(one, t[1], t[2], t[3])
    IN Shown(one) = Chosen(Wide, s) /\ Shown(two) = Chosen(one, t)

(* The shipped limits.                                                     *)
Shipped == INSTANCE Sizes
  WITH MaxArea <- 720 * 1280, ModValue <- 16, Temporal <- 4,
       MaxHrSize <- 1024, HrThreshold <- 512, MinSide <- 64, MaxSide <- 1024, Multiple <- 64

Portrait(width, height) == [width |-> width, height |-> height]

(* Animations are never small enough for one pass of rmbg nor for norm_map  *)
(* to refuse, up to an aspect of 14; a square character is fit for rmbg, one *)
(* of 832 x 1216 is not.                                                    *)
ASSUME ShippedSizes ==
  LET size(w, h) ==
        [width |-> Shipped!DownTo(w, 16), height |-> Shipped!DownTo(h, 16)]
  IN /\ Shipped!SizesAssumption
     /\ ~Shipped!RmbgRefuses(size(960, 960))
     /\ Shipped!RmbgRefuses(size(794, 1161))
     /\ Shipped!RmbgPasses(size(960, 960)) = 2
     /\ ~Shipped!NormMapRefuses(size(256, 3591))
     /\ Shipped!NormMapSide(1152, Portrait(784, 1152)) = 1024
     /\ Shipped!NormMapSide(784, Portrait(784, 1152)) = 640
=============================================================================
