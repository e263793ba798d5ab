------------------------------- MODULE Frames -------------------------------
(***************************************************************************)
(* Frame sets: equally large frames in the cells of an atlas, row by row,   *)
(* of which a set shows `count` from the cell `offset` on (Frames.py), and   *)
(* their form in storage (mapping/frames.py): the atlas and, beside it, the *)
(* metadata.  An image is a rectangle of pixels.                            *)
(***************************************************************************)
EXTENDS Integers, Sequences

CONSTANTS
  None,    \* Python's None: an open end of a slice, missing metadata
  Blank    \* the pixel of a new image, and of a crop beyond the edge

ASSUME NoneAssumption == None \notin [width : Nat, height : Nat, count : Nat] \cup Int

Pixels(width, height) == (0 .. width - 1) \X (0 .. height - 1)

(* Image.crop                                                              *)
Crop(image, left, top, width, height) ==
  [width |-> width, height |-> height,
   at |-> [p \in Pixels(width, height) |->
             LET q == <<left + p[1], top + p[2]>> IN
             IF q \in DOMAIN image.at THEN image.at[q] ELSE Blank]]

(* PILImage.new and a paste per image, side by side.                       *)
Strip(images, width, height) ==
  [width |-> width * Len(images), height |-> height,
   at |-> [p \in Pixels(width * Len(images), height) |->
             images[p[1] \div width + 1].at[<<p[1] % width, p[2]>>]]]

FrameSet(atlas, width, height, count, offset) ==
  [atlas |-> atlas, width |-> width, height |-> height,
   count |-> count, offset |-> offset]

-----------------------------------------------------------------------------
(* Reading a set.                                                          *)

(* The i-th frame shown: cells are counted from the offset, row by row.    *)
Cell(f, i) ==
  LET cols == f.atlas.width \div f.width
      real == f.offset + i
  IN Crop(f.atlas, (real % cols) * f.width, (real \div cols) * f.height,
          f.width, f.height)

(* frames[key]; a negative key counts from the end, and an index out of    *)
(* range raises.                                                           *)
InRange(f, key) == key \in -f.count .. f.count - 1
Item(f, key) == Cell(f, IF key < 0 THEN key + f.count ELSE key)

(* The indices a slice start:stop:step selects of n frames, as Python has   *)
(* it, for a step that is not 0.                                            *)
Indices(n, start, stop, step) ==
  LET low == IF step > 0 THEN 0 ELSE -1
      high == IF step > 0 THEN n ELSE n - 1
      clip(i) == IF i < 0
                 THEN IF i + n < low THEN low ELSE i + n
                 ELSE IF i > high THEN high ELSE i
      first == IF start # None THEN clip(start) ELSE IF step > 0 THEN low ELSE high
      last == IF stop # None THEN clip(stop) ELSE IF step > 0 THEN high ELSE low
      len == IF step > 0
             THEN IF first < last THEN (last - first - 1) \div step + 1 ELSE 0
             ELSE IF last < first THEN (first - last - 1) \div (-step) + 1 ELSE 0
  IN [k \in 1 .. len |-> first + (k - 1) * step]

(* frames[start:stop:step]: a view when consecutive, else a new atlas.     *)
Slice(f, start, stop, step) ==
  LET chosen == Indices(f.count, start, stop, step) IN
  IF chosen = <<>> THEN [f EXCEPT !.count = 0]
  ELSE IF step = 1
  THEN [f EXCEPT !.count = Len(chosen), !.offset = @ + chosen[1]]
  ELSE FrameSet(Strip([k \in DOMAIN chosen |-> Item(f, chosen[k])], f.width, f.height),
                f.width, f.height, Len(chosen), 0)

(* The images a set stands for.                                            *)
Shown(f) == [k \in 1 .. f.count |-> Item(f, k - 1)]

-----------------------------------------------------------------------------
(* Storing a set.                                                          *)

(* A set of all frames of an image sequence (_frames_from_video, and the    *)
(* results of rmbg and norm_map).                                           *)
FromImages(images, width, height) ==
  FrameSet(Strip(images, width, height), width, height, Len(images), 0)

CellsOf(f) == (f.atlas.width \div f.width) * (f.atlas.height \div f.height)

(* Deviation of AtlasToSave: an atlas of the right count is taken as it is. *)
AtlasToSaveByCount(f) ==
  IF f.count + f.offset = CellsOf(f)
  THEN f.atlas
  ELSE Strip([k \in 1 .. f.count |-> Cell(f, k - 1)], f.width, f.height)

(* from_frames: an atlas that shows all its cells is kept, others are made  *)
(* anew of the frames shown.                                                *)
AtlasToSave(f) ==
  IF f.offset = 0 /\ f.count = CellsOf(f)
  THEN f.atlas
  ELSE Strip([k \in 1 .. f.count |-> Cell(f, k - 1)], f.width, f.height)

MetaToSave(f) == [width |-> f.width, height |-> f.height, count |-> f.count]

(* to_frames: without metadata the frames are taken to be square.          *)
ToFrames(atlas, meta) ==
  IF meta = None
  THEN FrameSet(atlas, atlas.height, atlas.height, atlas.width \div atlas.height, 0)
  ELSE FrameSet(atlas, meta.width, meta.height, meta.count, 0)
=============================================================================
