-------------------------- MODULE FrameStore_proofs --------------------------
(***************************************************************************)
(* Proofs about FrameStore: frame sets of any size, any number of frames,   *)
(* tasks and deliveries.  The first part says what the operators on frames  *)
(* show of images, the second that the store keeps to it.                  *)
(***************************************************************************)
EXTENDS FrameStore, FiniteSetTheorems, SequenceTheorems, WellFoundedInduction, TLAPS

Stages == {"ready", "job", "get_atlas", "get_meta", "put_atlas", "put_meta", "failed", "answered"}
Saving == {"put_atlas", "put_meta"}
Origins == Movies \cup Uploads

Started(t) == stage[t] # "ready"

(* Frames there is something to see of.                                    *)
Visible(f) == f.width \in Nat \ {0} /\ f.height \in Nat \ {0} /\ f.count \in Nat

Meta == { x \in [width : Nat, height : Nat, count : Nat] :
            x.width > 0 /\ x.height > 0 /\ x.count > 0 }

(* Frames of an animation have the size that fits its character, whatever   *)
(* was made of them.                                                       *)
Fits(t, f) ==
  origin[t] \in Movies =>
    LET size == FrameSize(request[origin[t]].character)
    IN f.width = size.width /\ f.height = size.height

(* What a task makes: a video or a loop of it, or frames worked on.        *)
Loop(video, p) == Slice(video, p[1], p[2] + 1, 1)

MadeFrom(t, r, try, frames) ==
  LET video == Video(t, r, try)
  IN \/ frames = video
     \/ \E p \in Candidates(r.sims[try], video.count) : frames = Loop(video, p)

MadeMovie(t) == MadeFrom(t, request[t], tries[t], output[t])

MadePost(t) ==
  /\ output[t] = FromImages(Worked(Shown(input[t]), t), input[t].width, input[t].height)
  /\ input[t].count > 0

FramesTypeOK ==
  /\ DOMAIN atlases = Key
  /\ metas \in [Key -> Meta \cup {None}]
  /\ \A r \in flying :
       /\ r.key \in Task /\ r.part \in {"atlas", "meta"}
       /\ r.part = "meta" => r.value \in Meta
  /\ stage \in [Task -> Stages]
  /\ tries \in [Task -> Nat]
  /\ request \in [Movies -> Requests]
  /\ path \in [Task -> Key \cup {None}]
  /\ DOMAIN got = Task /\ DOMAIN input = Task /\ DOMAIN output = Task /\ DOMAIN saved = Key
  /\ fallen \subseteq Task /\ settled \subseteq Task /\ calm \subseteq Post
  /\ origin \in [Task -> Origins \cup {None}]

(* A task that has started has a known origin, and so have its objects.     *)
OriginInv ==
  /\ \A t \in Movies : origin[t] = t
  /\ \A t \in Post :
       /\ Started(t) => path[t] # None
       /\ path[t] # None =>
            /\ origin[t] = IF path[t] \in Uploads THEN path[t] ELSE origin[path[t]]
            /\ origin[t] \in Origins
            /\ path[t] \in Task => metas[path[t]] # None
  /\ \A t \in Task : saved[t] # None => metas[t] # None
  /\ \A t \in Task : metas[t] # None => Started(t) /\ Fits(t, metas[t])
  /\ \A r \in flying : Started(r.key) /\ (r.part = "meta" => Fits(r.key, r.value))

(* Nobody writes to an upload.                                             *)
UploadInv ==
  /\ \A k \in Uploads : atlases[k] = Uploaded[k] /\ metas[k] = None /\ saved[k] = None
  /\ \A t \in Post :
       path[t] \in Uploads /\ stage[t] = "get_meta" => got[t] = Uploaded[path[t]]

(* What a task holds at each await.                                        *)
HeldInv ==
  \A t \in Task :
    /\ stage[t] \notin Saving => output[t] = None
    /\ t \in Post /\ stage[t] \in {"job"} \cup Saving =>
         /\ Visible(input[t]) /\ Fits(t, input[t])
         /\ origin[t] \in Movies => input[t].count > 0
    /\ t \in Movies /\ stage[t] \in Saving => MadeMovie(t)
    /\ t \in Post /\ stage[t] \in Saving => MadePost(t)

(* The objects of a settled key are those of its last save, or will be when  *)
(* the save under way is completed.                                        *)
SettledInv ==
  \A k \in settled :
    /\ \A r \in flying : r.key # k
    /\ stage[k] = "put_meta" => atlases[k] = AtlasToSave(output[k])
    /\ stage[k] # "put_meta" =>
         /\ Visible(saved[k])
         /\ atlases[k] = AtlasToSave(saved[k])
         /\ metas[k] = MetaToSave(saved[k])

CalmInv ==
  \A t \in calm :
    /\ path[t] \in settled /\ stage[path[t]] # "put_meta"
    /\ stage[t] = "get_meta" => got[t] = AtlasToSave(saved[path[t]])

FramesIInv ==
  /\ FramesTypeOK
  /\ OriginInv
  /\ UploadInv
  /\ HeldInv
  /\ SettledInv
  /\ CalmInv
  /\ FallsAreForeseeable

-----------------------------------------------------------------------------
(* Division                                                                *)

LEMMA DivMod ==
  ASSUME NEW w \in Nat \ {0}, NEW q \in Int, NEW a \in 0 .. w - 1
  PROVE  (q * w + a) \div w = q /\ (q * w + a) % w = a
OBVIOUS

LEMMA DivFacts ==
  ASSUME NEW w \in Nat \ {0}, NEW x \in Int
  PROVE  /\ x \div w \in Int /\ x % w \in 0 .. w - 1
         /\ x = (x \div w) * w + (x % w)
OBVIOUS

LEMMA DivNonNegative ==
  ASSUME NEW w \in Nat \ {0}, NEW x \in Nat
  PROVE  x \div w \in Nat
OBVIOUS

LEMMA Least ==
  ASSUME NEW T, T \subseteq Nat, T # {}
  PROVE  \E x \in T : \A y \in T : x =< y
<1>1. PICK x \in T : \A y \in T : <<y, x>> \notin OpToRel(<, Nat)
  <2> DEFINE R == OpToRel(<, Nat)
  <2>1. IsWellFoundedOn(R, Nat)
    BY NatLessThanWellFounded
  <2> HIDE DEF R
  <2>2. \E x \in T : \A y \in T : <<y, x>> \notin R
    BY <2>1, WFMin
  <2>. QED
    BY <2>2 DEF R
<1>2. \A y \in T : ~(y < x)
  BY <1>1 DEF OpToRel
<1>. QED
  BY <1>2

LEMMA Product ==
  ASSUME NEW a \in Int, NEW b \in Int, NEW c \in Nat, a =< b
  PROVE  a * c =< b * c
OBVIOUS

-----------------------------------------------------------------------------
(* Images and frames                                                       *)

LEMMA SequenceOf ==
  ASSUME NEW S, NEW n \in Nat, NEW s \in [1 .. n -> S]
  PROVE  s \in Seq(S) /\ Len(s) = n
<1>1. s \in Seq(S)
  BY SeqDef
<1>2. Len(s) \in Nat /\ 1 .. Len(s) = 1 .. n
  BY <1>1, LenProperties
<1>. QED
  BY <1>1, <1>2

(* An image of a size, with the pixels of some image.                      *)
Sized(image, w, h) ==
  [width |-> w, height |-> h, at |-> [p \in Pixels(w, h) |-> image.at[p]]]

(* A frame cut from a strip is the image pasted there.                     *)
LEMMA StripCell ==
  ASSUME NEW w \in Nat \ {0}, NEW h \in Nat \ {0},
         NEW images, Len(images) \in Nat, NEW i \in 0 .. Len(images) - 1, NEW count
  PROVE  Cell(FrameSet(Strip(images, w, h), w, h, count, 0), i) = Sized(images[i + 1], w, h)
<1> DEFINE n == Len(images)
           atlas == Strip(images, w, h)
           f == FrameSet(atlas, w, h, count, 0)
<1>1. n \in Nat \ {0} /\ i \in 0 .. n - 1
  OBVIOUS
<1>2. /\ atlas.width = w * n
      /\ DOMAIN atlas.at = Pixels(w * n, h)
      /\ \A p \in Pixels(w * n, h) :
           atlas.at[p] = images[p[1] \div w + 1].at[<<p[1] % w, p[2]>>]
  BY DEF Strip
<1> HIDE DEF atlas, n
<1>3. (w * n) \div w = n
  <2>1. (n * w + 0) \div w = n
    BY <1>1, DivMod
  <2>2. w * n = n * w + 0
    BY <1>1
  <2>. QED
    BY <2>1, <2>2
<1>4. i % n = i /\ i \div n = 0 /\ 0 + i = i
  <2>1. (0 * n + i) \div n = 0 /\ (0 * n + i) % n = i
    BY <1>1, DivMod
  <2>2. 0 * n + i = i /\ 0 + i = i
    BY <1>1
  <2>. QED
    BY <2>1, <2>2
<1>5. Cell(f, i) = Crop(atlas, i * w, 0, w, h)
  <2>1. /\ f.atlas = atlas /\ f.width = w /\ f.height = h /\ f.offset = 0
        /\ 0 * h = 0
    BY DEF FrameSet
  <2> HIDE DEF f
  <2>. QED
    BY <1>2, <1>3, <1>4, <2>1 DEF Cell
<1>6. ASSUME NEW p \in Pixels(w, h)
      PROVE  LET q == <<i * w + p[1], 0 + p[2]>>
             IN q \in DOMAIN atlas.at /\ atlas.at[q] = images[i + 1].at[p]
  <2> DEFINE x == i * w + p[1]
  <2>1. p[1] \in 0 .. w - 1 /\ p[2] \in 0 .. h - 1 /\ p = <<p[1], p[2]>>
    BY DEF Pixels
  <2>2. x \div w = i /\ x % w = p[1]
    BY <1>1, <2>1, DivMod
  <2>3. x \in 0 .. w * n - 1
    <3> DEFINE left == i * w
               all == w * n
    <3>1. left >= 0 /\ left \in Int /\ all \in Int
      BY <1>1
    <3>2. (i + 1) * w =< n * w
      BY <1>1, Product
    <3>3. left + w =< all
      BY <1>1, <3>2
    <3> HIDE DEF left, all
    <3>4. left + p[1] \in 0 .. all - 1
      BY <2>1, <3>1, <3>3
    <3>. QED
      BY <3>4 DEF left, all
  <2>4. 0 + p[2] = p[2]
    BY <2>1
  <2>5. <<x, p[2]>> \in Pixels(w * n, h) /\ <<x, p[2]>>[1] = x /\ <<x, p[2]>>[2] = p[2]
    BY <2>1, <2>3 DEF Pixels
  <2> HIDE DEF x
  <2>6. atlas.at[<<x, p[2]>>] = images[i + 1].at[<<p[1], p[2]>>]
    BY <1>2, <2>2, <2>5
  <2>. QED
    BY <1>2, <2>1, <2>4, <2>5, <2>6 DEF x
<1>7. Crop(atlas, i * w, 0, w, h) = Sized(images[i + 1], w, h)
  BY <1>6 DEF Crop, Sized
<1>. QED
  BY <1>5, <1>7 DEF atlas

(* What the offset of a set does.                                          *)
LEMMA OffsetCell ==
  ASSUME NEW atlas, NEW w, NEW h, NEW count, NEW n, NEW offset \in Int, NEW i \in Int
  PROVE  Cell(FrameSet(atlas, w, h, count, offset), i)
           = Cell(FrameSet(atlas, w, h, n, 0), offset + i)
<1>1. 0 + (offset + i) = offset + i
  OBVIOUS
<1>. QED
  BY <1>1 DEF Cell, FrameSet

LEMMA ShownCells ==
  ASSUME NEW f, f.count \in Nat
  PROVE  Shown(f) = [k \in 1 .. f.count |-> Cell(f, k - 1)]
<1>1. ASSUME NEW k \in 1 .. f.count PROVE Item(f, k - 1) = Cell(f, k - 1)
  BY DEF Item
<1>. QED
  BY <1>1 DEF Shown

LEMMA CellIsImage ==
  ASSUME NEW f, NEW i
  PROVE  Cell(f, i) = Sized(Cell(f, i), f.width, f.height)
BY DEF Cell, Crop, Sized

(* A set made of images shows these images.                                *)
LEMMA ShownImages ==
  ASSUME NEW w \in Nat \ {0}, NEW h \in Nat \ {0}, NEW n \in Nat,
         NEW S, NEW images \in [1 .. n -> S],
         \A k \in 1 .. n : images[k] = Sized(images[k], w, h)
  PROVE  Shown(FromImages(images, w, h)) = images
<1> DEFINE f == FrameSet(Strip(images, w, h), w, h, n, 0)
<1>1. FromImages(images, w, h) = f
  BY SequenceOf DEF FromImages
<1>2. ASSUME NEW k \in 1 .. n PROVE Cell(f, k - 1) = images[k]
  <2>1. Len(images) = n /\ k - 1 \in 0 .. n - 1 /\ k - 1 + 1 = k
    BY SequenceOf
  <2>. QED
    BY <2>1, StripCell
<1>3. f.count = n
  BY DEF FrameSet
<1> HIDE DEF f
<1>4. Shown(f) = [k \in 1 .. n |-> Cell(f, k - 1)]
  BY <1>3, ShownCells
<1>. QED
  BY <1>1, <1>2, <1>4

(* What is stored of a set, read back, shows the same: the old atlas, whose *)
(* cells are the frames shown, or the new one made of these.                *)
LEMMA StoredShowsTheSame ==
  ASSUME NEW f, Visible(f)
  PROVE  /\ MetaToSave(f) # None
         /\ Shown(ToFrames(AtlasToSave(f), MetaToSave(f))) = Shown(f)
<1> DEFINE g == FrameSet(AtlasToSave(f), f.width, f.height, f.count, 0)
<1>1. MetaToSave(f) # None /\ ToFrames(AtlasToSave(f), MetaToSave(f)) = g
  BY NoneAssumption DEF MetaToSave, ToFrames, Visible
<1>2. /\ g.atlas = AtlasToSave(f) /\ g.width = f.width /\ g.height = f.height
      /\ g.count = f.count /\ g.offset = 0
  BY DEF FrameSet
<1>3. ASSUME NEW k \in 1 .. f.count PROVE Cell(g, k - 1) = Cell(f, k - 1)
  <2>1. CASE f.offset = 0 /\ f.count = CellsOf(f)
    <3>1. g.atlas = f.atlas
      BY <1>2, <2>1 DEF AtlasToSave
    <3> HIDE DEF g
    <3>. QED
      BY <1>2, <2>1, <3>1 DEF Cell
  <2>2. CASE ~(f.offset = 0 /\ f.count = CellsOf(f))
    <3> DEFINE images == [j \in 1 .. f.count |-> Cell(f, j - 1)]
               S == { Cell(f, j - 1) : j \in 1 .. f.count }
    <3>1. AtlasToSave(f) = Strip(images, f.width, f.height)
      BY <2>2 DEF AtlasToSave
    <3>2. /\ images \in [1 .. f.count -> S] /\ images[k] = Cell(f, k - 1)
          /\ f.count \in Nat /\ f.width \in Nat \ {0} /\ f.height \in Nat \ {0} /\ k \in 1 .. f.count
      BY DEF Visible
    <3> HIDE DEF images, S
    <3> DEFINE w == f.width
               h == f.height
               i == k - 1
    <3>3. /\ w \in Nat \ {0} /\ h \in Nat \ {0} /\ Len(images) \in Nat
          /\ i \in 0 .. Len(images) - 1 /\ i + 1 = k
      <4>1. Len(images) = f.count
        BY <3>2, SequenceOf
      <4>. QED
        BY <3>2, <4>1
    <3> HIDE DEF w, h, i
    <3>4. \A count : Cell(FrameSet(Strip(images, w, h), w, h, count, 0), i) = Sized(images[i + 1], w, h)
      BY <3>3, StripCell
    <3>5. Cell(g, k - 1) = Sized(images[k], f.width, f.height)
      BY <3>1, <3>3, <3>4 DEF w, h, i
    <3>. QED
      BY <3>2, <3>5, CellIsImage
  <2>. QED
    BY <2>1, <2>2
<1>4. /\ Shown(f) = [k \in 1 .. f.count |-> Cell(f, k - 1)]
      /\ Shown(g) = [k \in 1 .. f.count |-> Cell(g, k - 1)]
  <2> HIDE DEF g
  <2>. QED
    BY <1>2, ShownCells DEF Visible
<1>. QED
  BY <1>1, <1>3, <1>4

-----------------------------------------------------------------------------
(* Batches                                                                 *)

LEMMA BatchBounds ==
  ASSUME NEW n \in Nat
  PROVE  /\ Batches(n) \in Nat /\ n =< Batches(n) * Batch
         /\ \A b \in 1 .. Batches(n) : (b - 1) * Batch < n
<1> DEFINE x == n + Batch - 1
           q == x \div Batch
<1>1. Batch \in Nat \ {0} /\ x \in Nat
  BY TasksAssumption
<1> HIDE DEF x
<1>2. q \in Nat /\ x % Batch \in 0 .. Batch - 1 /\ x = q * Batch + (x % Batch)
  BY <1>1
<1>3. Batches(n) = q /\ x = n + Batch - 1
  BY DEF Batches, x
<1> HIDE DEF q
<1>4. q * Batch \in Int /\ q * Batch =< x /\ x - Batch < q * Batch
      /\ n =< q * Batch /\ q * Batch < n + Batch
  BY <1>1, <1>2, <1>3
<1>5. ASSUME NEW b \in 1 .. q PROVE (b - 1) * Batch < n
  <2>1. b * Batch =< q * Batch
    BY <1>1, <1>2, Product
  <2>2. (b - 1) * Batch = b * Batch - Batch /\ b * Batch \in Int
    BY <1>1
  <2>. QED
    BY <1>1, <1>4, <2>1, <2>2
<1>. QED
  BY <1>1, <1>2, <1>3, <1>4, <1>5

(* The results are joined to one for each image, in order: by induction over *)
(* the batches, with what is done after each of them as the function that  *)
(* the recursion defines.                                                  *)
LEMMA WorkedIsPerImage ==
  ASSUME NEW S, NEW images \in Seq(S), NEW t
  PROVE  Worked(images, t) = [k \in 1 .. Len(images) |-> WorkedOne(images[k], t)]
<1> DEFINE n == Len(images)
           N == Batches(n)
           W == { WorkedOne(image, t) : image \in S }
           Done(m) == [k \in 1 .. m |-> WorkedOne(images[k], t)]
           Step(r) == [b \in 0 .. N |->
                         IF b = 0 THEN <<>> ELSE r[b - 1] \o Chunk(images, (b - 1) * Batch, t)]
           R == CHOOSE r : r = Step(r)
           D == [b \in 0 .. N |-> Done(Smaller(b * Batch, n))]
<1>1. n \in Nat /\ images \in [1 .. n -> S] /\ Batch \in Nat \ {0}
  BY LenProperties, TasksAssumption
<1>2. N \in Nat /\ n =< N * Batch /\ \A b \in 1 .. N : (b - 1) * Batch < n
  BY <1>1, BatchBounds
<1>3. Worked(images, t) = R[N]
  BY DEF Worked
<1>4. ASSUME NEW m \in 0 .. n
      PROVE  Done(m) \in Seq(W) /\ Len(Done(m)) = m
  <2>1. Done(m) \in [1 .. m -> W] /\ m \in Nat
    BY <1>1
  <2> HIDE DEF Done, W
  <2>. QED
    BY <2>1, SequenceOf
<1>5. ASSUME NEW b \in 1 .. N
      PROVE  Done(Smaller((b - 1) * Batch, n)) \o Chunk(images, (b - 1) * Batch, t)
               = Done(Smaller(b * Batch, n))
  <2> DEFINE s == (b - 1) * Batch
             l == Smaller(Batch, n - s)
             c == Chunk(images, s, t)
             d == Done(s)
             e == Done(s + l)
  <2>1. s \in Nat /\ s < n
    <3>1. 0 * Batch =< (b - 1) * Batch /\ (b - 1) * Batch \in Int
      BY <1>1, Product
    <3>. QED
      BY <1>1, <1>2, <3>1
  <2>2. s + Batch = b * Batch
    BY <1>1
  <2> HIDE DEF s
  <2>3. Smaller(s, n) = s /\ l \in Nat /\ s + l \in 0 .. n /\ Smaller(b * Batch, n) = s + l
    BY <1>1, <2>1, <2>2 DEF Smaller
  <2>4. c = [k \in 1 .. l |-> WorkedOne(images[s + k], t)]
    BY DEF Chunk
  <2>5. c \in Seq(W) /\ Len(c) = l
    <3>1. c \in [1 .. l -> W]
      BY <1>1, <2>1, <2>3, <2>4
    <3> HIDE DEF c, W, l
    <3>. QED
      BY <2>3, <3>1, SequenceOf
  <2>6. d \in Seq(W) /\ Len(d) = s /\ e \in Seq(W) /\ Len(e) = s + l
    <3> HIDE DEF Done, W, l
    <3>. QED
      BY <1>4, <2>1, <2>3
  <2>7. /\ \A k \in 1 .. s : d[k] = WorkedOne(images[k], t)
        /\ \A k \in 1 .. s + l : e[k] = WorkedOne(images[k], t)
        /\ \A k \in 1 .. l : c[k] = WorkedOne(images[s + k], t)
    BY <2>4
  <2> HIDE DEF c, d, e, W, l
  <2> DEFINE dc == d \o c
  <2>8. /\ dc \in Seq(W) /\ Len(dc) = s + l
        /\ \A k \in 1 .. s + l : dc[k] = IF k =< s THEN d[k] ELSE c[k - s]
    BY <2>5, <2>6, ConcatProperties
  <2> HIDE DEF dc
  <2>9. ASSUME NEW k \in 1 .. s + l PROVE dc[k] = e[k]
    <3>1. CASE k =< s
      BY <2>1, <2>3, <2>7, <2>8, <3>1
    <3>2. CASE k > s
      <4>1. k - s \in 1 .. l /\ s + (k - s) = k
        BY <2>1, <2>3, <3>2
      <4>. QED
        BY <2>1, <2>7, <2>8, <3>2, <4>1
    <3>3. k \in Int /\ s \in Int
      BY <2>1, <2>3
    <3>. QED
      BY <3>1, <3>2, <3>3
  <2>10. dc = e
    BY <2>6, <2>8, <2>9, SeqEqual
  <2>. QED
    BY <2>3, <2>10 DEF c, d, e, s, dc
<1>6. D = Step(D)
  <2>1. Done(Smaller(0 * Batch, n)) = <<>>
    BY <1>1 DEF Smaller
  <2>2. ASSUME NEW b \in 0 .. N
        PROVE  D[b] = IF b = 0 THEN <<>> ELSE D[b - 1] \o Chunk(images, (b - 1) * Batch, t)
    <3>1. CASE b = 0
      BY <2>1, <3>1
    <3>2. CASE b # 0
      <4>1. b \in 1 .. N /\ b - 1 \in 0 .. N
        BY <1>2, <3>2
      <4>2. D[b] = Done(Smaller(b * Batch, n)) /\ D[b - 1] = Done(Smaller((b - 1) * Batch, n))
        BY <4>1
      <4> HIDE DEF D, Done
      <4>. QED
        BY <1>5, <3>2, <4>1, <4>2
    <3>. QED
      BY <3>1, <3>2
  <2> HIDE DEF Done, W
  <2>. QED
    BY <2>2
<1> HIDE DEF D
<1>7. R = Step(R)
  BY <1>6
<1> HIDE DEF R
<1> DEFINE Wrong == { b \in 0 .. N : R[b] # D[b] }
<1>8. Wrong = {}
  <2> SUFFICES ASSUME Wrong # {} PROVE FALSE
    OBVIOUS
  <2>1. PICK b \in Wrong : \A a \in Wrong : b =< a
    <3>1. Wrong \subseteq Nat
      BY <1>2
    <3> HIDE DEF Wrong
    <3>. QED
      BY <3>1, Least
  <2>2. b \in 0 .. N /\ R[b] # D[b]
    OBVIOUS
  <2>3. R[b] = IF b = 0 THEN <<>> ELSE R[b - 1] \o Chunk(images, (b - 1) * Batch, t)
    BY <1>7, <2>2
  <2>4. D[b] = IF b = 0 THEN <<>> ELSE D[b - 1] \o Chunk(images, (b - 1) * Batch, t)
    BY <1>6, <2>2
  <2>5. b # 0 => b - 1 \in 0 .. N /\ b - 1 \notin Wrong
    BY <1>2, <2>1, <2>2
  <2>. QED
    BY <2>2, <2>3, <2>4, <2>5
<1>9. R[N] = Done(n)
  <2>1. R[N] = D[N]
    BY <1>2, <1>8
  <2>2. D[N] = Done(Smaller(N * Batch, n))
    BY <1>2 DEF D
  <2>3. Smaller(N * Batch, n) = n
    BY <1>1, <1>2 DEF Smaller
  <2>. QED
    BY <2>1, <2>2, <2>3
<1>. QED
  BY <1>3, <1>9

-----------------------------------------------------------------------------
(* Sizes                                                                   *)

LEMMA RoundSqrtExists ==
  ASSUME NEW area \in Nat \ {0}, NEW num \in Nat \ {0}, NEW den \in Nat \ {0}
  PROVE  /\ RoundSqrt(area, num, den) \in Nat
         /\ LET n == RoundSqrt(area, num, den) IN
            n # 0 => (2 * n - 1) * (2 * n - 1) * den =< 4 * area * num
<1> DEFINE A == area * num
           F == 4 * area * num
           Up(n) == (2 * n + 1) * (2 * n + 1)
           T == { n \in Nat : F < Up(n) * den }
<1>1. A \in Nat \ {0} /\ F = 4 * A
  <2>1. 1 * num =< area * num /\ A \in Int
    BY Product
  <2>. QED
    BY <2>1
<1> HIDE DEF A, F
<1>2. A \in T
  <2>1. Up(A) \in Nat /\ Up(A) > 4 * A
    <3> DEFINE a == A * A
    <3>1. a \in Nat /\ Up(A) = 4 * a + 4 * A + 1
      BY <1>1
    <3> HIDE DEF a
    <3>. QED
      BY <1>1, <3>1
  <2> DEFINE u == Up(A)
  <2> HIDE DEF u
  <2>2. 1 * u =< den * u
    BY <2>1, Product DEF u
  <2>3. u \in Nat /\ u > 4 * A /\ den * u = u * den /\ u * den \in Nat
    BY <2>1 DEF u
  <2>4. F < u * den
    BY <1>1, <2>2, <2>3
  <2>. QED
    BY <1>1, <2>4 DEF u
<1>3. PICK x \in T : \A y \in T : x =< y
  <2>1. T \subseteq Nat /\ T # {}
    BY <1>2
  <2> HIDE DEF T
  <2>. QED
    BY <2>1, Least
<1>4. x \in 0 .. A
  BY <1>1, <1>2, <1>3
<1>5. x = 0 \/ (2 * x - 1) * (2 * x - 1) * den =< F
  <2> SUFFICES ASSUME x # 0 PROVE (2 * x - 1) * (2 * x - 1) * den =< F
    OBVIOUS
  <2>1. x - 1 \in Nat /\ x - 1 \notin T
    BY <1>3, <1>4
  <2>2. 2 * (x - 1) + 1 = 2 * x - 1 /\ 2 * x - 1 \in Nat
    BY <1>4
  <2>3. Up(x - 1) = (2 * x - 1) * (2 * x - 1)
    BY <2>2
  <2>4. ~(F < Up(x - 1) * den)
    BY <2>1
  <2> DEFINE v == (2 * x - 1) * (2 * x - 1) * den
  <2>5. v \in Int /\ F \in Int /\ ~(F < v)
    BY <1>1, <2>2, <2>3, <2>4
  <2> HIDE DEF v
  <2>6. v =< F
    BY <2>5
  <2>. QED
    BY <2>6 DEF v
<1>6. F < (2 * x + 1) * (2 * x + 1) * den
  BY <1>3
<1> DEFINE P(n) == /\ n = 0 \/ (2 * n - 1) * (2 * n - 1) * den =< F
                   /\ F < (2 * n + 1) * (2 * n + 1) * den
<1>7. RoundSqrt(area, num, den) = CHOOSE n \in 0 .. A : P(n)
  BY DEF RoundSqrt, A, F
<1>8. P(x)
  BY <1>5, <1>6
<1> HIDE DEF P
<1>9. RoundSqrt(area, num, den) \in 0 .. A /\ P(RoundSqrt(area, num, den))
  BY <1>4, <1>7, <1>8
<1>. QED
  BY <1>1, <1>9 DEF P, F

LEMMA SideIsPositive ==
  ASSUME NEW num \in Nat \ {0}, NEW den \in Nat \ {0}
  PROVE  Side(num, den) \in Nat \ {0}
<1> DEFINE r == RoundSqrt(MaxArea, num, den)
<1>1. r \in Nat /\ ModValue \in Nat \ {0}
  BY RoundSqrtExists, SizesAssumption
<1> HIDE DEF r
<1>2. DownTo(r, ModValue) \in Int
  BY <1>1 DEF DownTo
<1>. QED
  BY <1>1, <1>2 DEF Side, Bigger, r

LEMMA FrameSizeIsPositive ==
  ASSUME NEW r \in Requests
  PROVE  /\ FrameSize(r.character).width \in Nat \ {0}
         /\ FrameSize(r.character).height \in Nat \ {0}
<1>1. r.character.width \in Nat \ {0} /\ r.character.height \in Nat \ {0}
  BY InputsAssumption
<1> DEFINE w == r.character.width
           h == r.character.height
<1> HIDE DEF w, h
<1>2. Side(w, h) \in Nat \ {0} /\ Side(h, w) \in Nat \ {0}
  BY <1>1, SideIsPositive DEF w, h
<1>. QED
  BY <1>2 DEF FrameSize, w, h

LEMMA LongSide ==
  ASSUME NEW num \in Nat \ {0}, NEW den \in Nat \ {0}, Side(num, den) > MaxHrSize
  PROVE  LET least == 2 * (MaxHrSize + ModValue) - 1
         IN least * least * den =< 4 * MaxArea * num
<1> DEFINE r == RoundSqrt(MaxArea, num, den)
           q == r \div ModValue
           m == MaxHrSize \div ModValue
           L == MaxHrSize + ModValue
           F == 4 * MaxArea * num
<1>1. /\ MaxArea \in Nat \ {0} /\ ModValue \in Nat \ {0} /\ MaxHrSize \in Nat \ {0}
      /\ MaxHrSize % ModValue = 0
  BY SizesAssumption
<1>2. r \in Nat /\ (r # 0 => (2 * r - 1) * (2 * r - 1) * den =< F)
  BY <1>1, RoundSqrtExists
<1>3. F \in Int
  BY <1>1
<1>4. Side(num, den) = Bigger(q * ModValue, ModValue)
  BY DEF Side, DownTo
<1> HIDE DEF r, F
<1>5. /\ q \in Int /\ r = q * ModValue + (r % ModValue) /\ r % ModValue \in 0 .. ModValue - 1
      /\ m \in Int /\ MaxHrSize = m * ModValue + (MaxHrSize % ModValue)
  <2>1. ModValue \in Nat \ {0} /\ r \in Int /\ MaxHrSize \in Int
    BY <1>1, <1>2
  <2>2. q \in Int /\ r = q * ModValue + (r % ModValue) /\ r % ModValue \in 0 .. ModValue - 1
    BY <2>1, DivFacts
  <2>3. m \in Int /\ MaxHrSize = m * ModValue + (MaxHrSize % ModValue)
    BY <2>1, DivFacts
  <2>. QED
    BY <2>2, <2>3
<1> HIDE DEF q, m
<1>6. MaxHrSize = m * ModValue /\ m >= 1
  <2>1. MaxHrSize = m * ModValue
    BY <1>1, <1>5
  <2>2. m =< 0 => m * ModValue =< 0 * ModValue
    BY <1>1, <1>5, Product
  <2>. QED
    BY <1>1, <1>5, <2>1, <2>2
<1>7. MaxHrSize >= ModValue
  <2>1. 1 * ModValue =< m * ModValue
    BY <1>1, <1>5, <1>6, Product
  <2>. QED
    BY <1>1, <1>6, <2>1
<1>8. q * ModValue > m * ModValue
  <2>1. q * ModValue \in Int
    BY <1>1, <1>5
  <2>. QED
    BY <1>1, <1>4, <1>6, <1>7, <2>1 DEF Bigger
<1>9. q >= m + 1
  <2>1. q =< m => q * ModValue =< m * ModValue
    BY <1>1, <1>5, Product
  <2>2. q * ModValue \in Int /\ m * ModValue \in Int
    BY <1>1, <1>5
  <2>. QED
    BY <1>5, <1>8, <2>1, <2>2
<1>10. r >= L
  <2>1. (m + 1) * ModValue =< q * ModValue
    BY <1>1, <1>5, <1>9, Product
  <2>2. (m + 1) * ModValue = m * ModValue + ModValue /\ m * ModValue \in Int
    BY <1>1, <1>5
  <2>3. q * ModValue \in Int
    BY <1>1, <1>5
  <2>. QED
    BY <1>1, <1>2, <1>5, <1>6, <2>1, <2>2, <2>3
<1> DEFINE a == 2 * L - 1
           b == 2 * r - 1
<1>11. a \in Nat /\ b \in Nat /\ a =< b /\ b * b * den =< F
  BY <1>1, <1>2, <1>10
<1> HIDE DEF a, b
<1>12. a * a * den =< b * b * den
  <2>1. a * a =< b * a /\ a * b =< b * b
    BY <1>11, Product
  <2> DEFINE aa == a * a
             ab == a * b
             bb == b * b
  <2>2. aa \in Int /\ ab \in Int /\ bb \in Int /\ b * a = ab
    BY <1>11
  <2> HIDE DEF aa, ab, bb
  <2>3. aa =< bb
    BY <2>1, <2>2 DEF aa, ab, bb
  <2>4. aa * den =< bb * den
    BY <2>2, <2>3, Product
  <2>. QED
    BY <2>4 DEF aa, bb
<1>13. a * a * den \in Int /\ b * b * den \in Int
  BY <1>11
<1> DEFINE x == a * a * den
           y == b * b * den
<1>14. x \in Int /\ y \in Int /\ x =< y /\ y =< F
  BY <1>11, <1>12, <1>13
<1> HIDE DEF x, y
<1>15. x =< F
  BY <1>3, <1>14
<1>. QED
  BY <1>15 DEF a, x, F

(* Only an oblong character makes frames too long for rmbg.                *)
LEMMA LongIsOblong ==
  ASSUME NEW r \in Requests, Longest(FrameSize(r.character)) > MaxHrSize
  PROVE  Oblong(r.character)
<1> DEFINE w == r.character.width
           h == r.character.height
           least == 2 * (MaxHrSize + ModValue) - 1
           n == least * least
           l == Bigger(w, h)
           s == Smaller(w, h)
           F == 4 * MaxArea
<1>1. w \in Nat \ {0} /\ h \in Nat \ {0} /\ F \in Nat
  BY InputsAssumption, SizesAssumption
<1>2. n \in Nat
  <2>1. least \in Nat
    BY SizesAssumption
  <2> HIDE DEF least
  <2>. QED
    BY <2>1
<1>3. Side(w, h) > MaxHrSize \/ Side(h, w) > MaxHrSize
  BY DEF Longest, FrameSize, Bigger
<1> HIDE DEF w, h
<1>4. n * h =< F * w \/ n * w =< F * h
  BY <1>1, <1>3, LongSide
<1> HIDE DEF n, F
<1>5. l \in Nat /\ s \in Nat /\ w =< l /\ h =< l /\ s =< w /\ s =< h
  BY <1>1 DEF Bigger, Smaller
<1>6. /\ w * F =< l * F /\ h * F =< l * F
      /\ s * n =< w * n /\ s * n =< h * n
  BY <1>1, <1>2, <1>5, Product
<1>7. /\ w * F = F * w /\ h * F = F * h /\ l * F = F * l
      /\ s * n = n * s /\ w * n = n * w /\ h * n = n * h
  BY <1>1, <1>2, <1>5
<1>8. /\ F * w \in Int /\ F * h \in Int /\ F * l \in Int
      /\ n * w \in Int /\ n * h \in Int /\ n * s \in Int
  BY <1>1, <1>2, <1>5
<1>9. F * l >= n * s
  BY ONLY <1>4, <1>6, <1>7, <1>8
<1>. QED
  BY <1>9 DEF Oblong, Longest, Shortest, n, F, w, h

LEMMA FrameCount ==
  ASSUME NEW n \in Int
  PROVE  /\ RoundNumFrames(n) \in Nat \ {0}
         /\ RoundNumFrames(n) < 2 => n < Temporal
<1>1. Temporal \in Nat \ {0} /\ Temporal >= 2
  BY SizesAssumption
<1> DEFINE q == n \div Temporal
<1>2. q \in Int /\ n % Temporal \in 0 .. Temporal - 1 /\ n = q * Temporal + (n % Temporal)
  BY <1>1, DivFacts
<1>3. RoundNumFrames(n) = Bigger(IF n % Temporal = 1 THEN n ELSE q * Temporal + 1, 1)
  BY DEF RoundNumFrames, DownTo
<1> HIDE DEF q
<1>4. q * Temporal \in Int /\ (q >= 1 => 1 * Temporal =< q * Temporal)
      /\ (q =< 0 => q * Temporal =< 0 * Temporal)
  BY <1>1, <1>2, Product
<1>5. RoundNumFrames(n) \in Nat \ {0}
  BY <1>1, <1>2, <1>3, <1>4 DEF Bigger
<1>6. RoundNumFrames(n) < 2 => n < Temporal
  BY <1>1, <1>2, <1>3, <1>4 DEF Bigger
<1>. QED
  BY <1>5, <1>6

-----------------------------------------------------------------------------
(* Videos and loops                                                        *)

(* A slice of consecutive frames is a view: the same atlas from a later    *)
(* cell on.                                                                *)
LEMMA SliceIsView ==
  ASSUME NEW atlas, NEW w, NEW h, NEW n \in Nat, NEW a \in 0 .. n - 1, NEW b \in a .. n - 1
  PROVE  Slice(FrameSet(atlas, w, h, n, 0), a, b + 1, 1) = FrameSet(atlas, w, h, b - a + 1, a)
<1> DEFINE len == b - a + 1
           c == Indices(n, a, b + 1, 1)
<1>1. c = [k \in 1 .. len |-> a + (k - 1) * 1]
  <2>1. a # None /\ b + 1 # None
    BY NoneAssumption
  <2>2. (b + 1 - a - 1) \div 1 + 1 = len
    OBVIOUS
  <2>3. a < b + 1 /\ ~(a < 0) /\ ~(a > n) /\ ~(b + 1 < 0) /\ ~(b + 1 > n)
    OBVIOUS
  <2>. QED
    BY <2>1, <2>2, <2>3 DEF Indices
<1>2. len \in Nat \ {0}
  OBVIOUS
<1> HIDE DEF c, len
<1>3. Len(c) = len /\ c # <<>> /\ c[1] = a
  <2>1. c \in [1 .. len -> Int]
    BY <1>1, <1>2
  <2>2. Len(c) = len
    BY <1>2, <2>1, SequenceOf
  <2>3. c[1] = a + (1 - 1) * 1
    BY <1>1, <1>2
  <2>4. c[1] = a
    BY <2>3
  <2>. QED
    BY <1>2, <2>2, <2>4
<1> DEFINE f == FrameSet(atlas, w, h, n, 0)
<1>4. f.count = n
  BY DEF FrameSet
<1>5. Slice(f, a, b + 1, 1) = [f EXCEPT !.count = len, !.offset = @ + a]
  <2> HIDE DEF f
  <2>. QED
    BY <1>3, <1>4 DEF Slice, c
<1>6. 0 + a = a
  OBVIOUS
<1>. QED
  BY <1>5, <1>6 DEF FrameSet, len

LEMMA VideoIs ==
  ASSUME NEW t, NEW r \in Requests, NEW try
  PROVE  LET size == FrameSize(r.character)
             n == RoundNumFrames(r.numFrames)
             images == [k \in 1 .. n |-> Picture(t, try, k, size)]
             video == Video(t, r, try)
         IN /\ video = FrameSet(Strip(images, size.width, size.height),
                                size.width, size.height, n, 0)
            /\ Shown(video) = images
            /\ Visible(video) /\ video.count = n
            /\ video.width = size.width /\ video.height = size.height
<1> DEFINE size == FrameSize(r.character)
           w == size.width
           h == size.height
           n == RoundNumFrames(r.numFrames)
           S == { Picture(t, try, k, size) : k \in 1 .. n }
           images == [k \in 1 .. n |-> Picture(t, try, k, size)]
           video == Video(t, r, try)
<1>1. n \in Nat \ {0}
  BY InputsAssumption, FrameCount
<1>2. w \in Nat \ {0} /\ h \in Nat \ {0}
  BY FrameSizeIsPositive
<1>3. \A k \in 1 .. n : images[k] = Sized(images[k], w, h)
  BY DEF Picture, Sized
<1>4. images \in [1 .. n -> S]
  OBVIOUS
<1>5. video = FromImages(images, w, h)
  BY DEF Video
<1> HIDE DEF images, S, video, n, size
<1>6. video = FrameSet(Strip(images, w, h), w, h, n, 0)
  BY <1>1, <1>4, <1>5, SequenceOf DEF FromImages
<1>7. Shown(video) = images
  <2> HIDE DEF w, h
  <2>. QED
    BY <1>1, <1>2, <1>3, <1>4, <1>5, ShownImages
<1>8. Visible(video) /\ video.count = n /\ video.width = w /\ video.height = h
  BY <1>1, <1>2, <1>6 DEF Visible, FrameSet
<1>. QED
  BY <1>6, <1>7, <1>8 DEF images, n, size, video

(* A set has frames, and they are of this size.                            *)
Whole(f, size) ==
  Visible(f) /\ f.count > 0 /\ f.width = size.width /\ f.height = size.height

LEMMA VideoIsWhole ==
  ASSUME NEW t, NEW r \in Requests, NEW try
  PROVE  Whole(Video(t, r, try), FrameSize(r.character))
<1> DEFINE video == Video(t, r, try)
           size == FrameSize(r.character)
           n == RoundNumFrames(r.numFrames)
<1>1. /\ Visible(video) /\ video.count = n
      /\ video.width = size.width /\ video.height = size.height
  BY ONLY VideoIs, Zenon
<1>2. n \in Nat \ {0}
  BY InputsAssumption, FrameCount
<1> HIDE DEF video, size, n
<1>3. Whole(video, size)
  BY <1>1, <1>2 DEF Whole
<1>. QED
  BY <1>3 DEF video, size

(* A loop shows the frames from the first to the last of its pair, which    *)
(* are alike and a period apart.                                           *)
Closed(t, try, size, sim, p, f) ==
  /\ p[1] \in Nat /\ p[2] \in Nat /\ p[2] - p[1] >= MinPeriod
  /\ sim[p[1], p[2]] >= MinStitch
  /\ Shown(f) = [k \in 1 .. p[2] - p[1] + 1 |-> Picture(t, try, p[1] + k, size)]

LEMMA LoopShows ==
  ASSUME NEW t, NEW r \in Requests, NEW try, NEW sim,
         NEW p \in Candidates(sim, Video(t, r, try).count)
  PROVE  LET loop == Loop(Video(t, r, try), p)
             size == FrameSize(r.character)
         IN Whole(loop, size) /\ Closed(t, try, size, sim, p, loop)
<1> DEFINE size == FrameSize(r.character)
           w == size.width
           h == size.height
           n == RoundNumFrames(r.numFrames)
           images == [k \in 1 .. n |-> Picture(t, try, k, size)]
           atlas == Strip(images, w, h)
           video == Video(t, r, try)
           loop == Loop(video, p)
           a == p[1]
           b == p[2]
           len == b - a + 1
<1>1. /\ video = FrameSet(atlas, w, h, n, 0)
      /\ Shown(video) = images
      /\ video.count = n
  BY VideoIs
<1>2. n \in Nat \ {0} /\ w \in Nat \ {0} /\ h \in Nat \ {0}
  BY InputsAssumption, FrameCount, FrameSizeIsPositive
<1>3. /\ p = <<a, b>> /\ a \in 0 .. n - 1 /\ b \in 0 .. n - 1
      /\ b >= a + MinPeriod /\ sim[p] >= MinStitch
  BY <1>1 DEF Candidates
<1>4. b \in a .. n - 1 /\ b - a >= MinPeriod /\ len \in Nat \ {0}
  BY <1>2, <1>3, CyclesAssumption
<1> HIDE DEF video, images, n, size
<1>5. loop = FrameSet(atlas, w, h, len, a)
  <2> HIDE DEF a, b, atlas, w, h
  <2>. QED
    BY <1>1, <1>2, <1>3, <1>4, SliceIsView DEF Loop, a, b
<1>6. /\ loop.count = len /\ loop.width = w /\ loop.height = h
      /\ Visible(loop)
  BY <1>2, <1>4, <1>5 DEF Visible, FrameSet
<1>7. ASSUME NEW k \in 1 .. len PROVE Cell(loop, k - 1) = Picture(t, try, a + k, size)
  <2> DEFINE i == a + (k - 1)
  <2>1. a \in Int /\ k - 1 \in Int /\ i + 1 = a + k /\ i \in 0 .. n - 1 /\ a + k \in 1 .. n
    BY <1>2, <1>3, <1>4
  <2> HIDE DEF a, b, len, atlas, w, h, loop
  <2>2. Cell(loop, k - 1) = Cell(video, i)
    BY <1>1, <1>5, <2>1, OffsetCell
  <2> HIDE DEF i
  <2>3. Shown(video) = [j \in 1 .. n |-> Cell(video, j - 1)]
    BY <1>1, <1>2, ShownCells
  <2>4. i + 1 \in 1 .. n /\ (i + 1) - 1 = i
    BY <1>2, <2>1
  <2>5. Shown(video)[i + 1] = Cell(video, i)
    BY <2>3, <2>4
  <2>6. images[a + k] = Picture(t, try, a + k, size)
    BY <2>1 DEF images
  <2>. QED
    BY <1>1, <2>1, <2>2, <2>5, <2>6
<1>8. Shown(loop) = [k \in 1 .. len |-> Picture(t, try, a + k, size)]
  <2>1. Shown(loop) = [k \in 1 .. len |-> Cell(loop, k - 1)]
    <3> HIDE DEF len, loop
    <3>. QED
      BY <1>4, <1>6, ShownCells
  <2> HIDE DEF len, loop, a, b
  <2>. QED
    BY <1>7, <2>1
<1>9. sim[a, b] >= MinStitch
  BY <1>3
<1>10. a \in Nat /\ b \in Nat
  BY <1>2, <1>3
<1> HIDE DEF a, b, len, loop
<1>11. /\ Visible(loop) /\ loop.count = len
       /\ loop.width = w /\ loop.height = h
       /\ a \in Nat /\ b \in Nat /\ b - a >= MinPeriod
       /\ sim[a, b] >= MinStitch
       /\ Shown(loop) = [k \in 1 .. len |-> Picture(t, try, a + k, size)]
  BY <1>4, <1>6, <1>8, <1>9, <1>10
<1>12. Whole(loop, size)
  <2>1. len > 0
    BY <1>4 DEF len
  <2>. QED
    BY <1>11, <2>1 DEF Whole
<1>13. Closed(t, try, size, sim, p, loop)
  BY <1>11 DEF a, b, len, Closed
<1>. QED
  BY <1>12, <1>13 DEF loop, size, video

(* The pictures a set shows, all of its size.                              *)
LEMMA ShownAre ==
  ASSUME NEW f, Visible(f)
  PROVE  /\ Shown(f) \in Seq({ Cell(f, k - 1) : k \in 1 .. f.count }) /\ Len(Shown(f)) = f.count
         /\ \A k \in 1 .. f.count : Shown(f)[k] = Sized(Shown(f)[k], f.width, f.height)
<1> DEFINE S == { Cell(f, k - 1) : k \in 1 .. f.count }
<1>1. f.count \in Nat /\ Shown(f) = [k \in 1 .. f.count |-> Cell(f, k - 1)]
  BY ShownCells DEF Visible
<1>2. Shown(f) \in [1 .. f.count -> S]
  BY <1>1
<1>3. Shown(f) \in Seq(S) /\ Len(Shown(f)) = f.count
  <2> HIDE DEF S
  <2>. QED
    BY <1>1, <1>2, SequenceOf
<1>. QED
  BY <1>1, <1>3, CellIsImage

(* What is made of a set shows what the networks make of each image.        *)
LEMMA PostShows ==
  ASSUME NEW f, Visible(f), NEW t
  PROVE  LET g == FromImages(Worked(Shown(f), t), f.width, f.height) IN
         /\ Visible(g) /\ g.count = f.count /\ g.width = f.width /\ g.height = f.height
         /\ Shown(g) = [k \in 1 .. f.count |-> WorkedOne(Shown(f)[k], t)]
<1> DEFINE w == f.width
           h == f.height
           n == f.count
           images == [k \in 1 .. n |-> WorkedOne(Shown(f)[k], t)]
           S == { WorkedOne(Shown(f)[k], t) : k \in 1 .. n }
           g == FromImages(Worked(Shown(f), t), w, h)
<1>1. w \in Nat \ {0} /\ h \in Nat \ {0} /\ n \in Nat
  BY DEF Visible
<1>2. Worked(Shown(f), t) = images
  <2> DEFINE s == Shown(f)
             T == { Cell(f, k - 1) : k \in 1 .. f.count }
  <2>1. s \in Seq(T) /\ Len(s) = n
    BY ShownAre
  <2> HIDE DEF s, T, n
  <2>2. Worked(s, t) = [k \in 1 .. n |-> WorkedOne(s[k], t)]
    BY <2>1, WorkedIsPerImage
  <2>. QED
    BY <2>2 DEF s
<1>3. ASSUME NEW k \in 1 .. n PROVE images[k] = Sized(images[k], w, h)
  <2> DEFINE x == Shown(f)[k]
  <2>1. x = Sized(x, w, h)
    BY ShownAre
  <2> HIDE DEF x
  <2>2. WorkedOne(x, t) = WorkedOne(Sized(x, w, h), t)
    BY <2>1
  <2>3. WorkedOne(Sized(x, w, h), t)
          = [width |-> w, height |-> h, at |-> [p \in Pixels(w, h) |-> <<t, x.at[p]>>]]
    <3> DEFINE y == Sized(x, w, h)
               new == [p \in DOMAIN y.at |-> <<t, y.at[p]>>]
    <3>1. y.at = [p \in Pixels(w, h) |-> x.at[p]]
      BY DEF Sized
    <3>2. new = [p \in Pixels(w, h) |-> <<t, x.at[p]>>]
      <4> HIDE DEF y
      <4>. QED
        BY <3>1
    <3>3. WorkedOne(y, t) = [y EXCEPT !.at = new]
      BY DEF WorkedOne
    <3> DEFINE old == [p \in Pixels(w, h) |-> x.at[p]]
    <3>4. y = [width |-> w, height |-> h, at |-> old]
      BY DEF Sized
    <3> HIDE DEF new, old, y
    <3>5. [y EXCEPT !.at = new] = [width |-> w, height |-> h, at |-> new]
      BY <3>4
    <3>. QED
      BY <3>2, <3>3, <3>5 DEF y
  <2>4. WorkedOne(x, t) = Sized(WorkedOne(x, t), w, h)
    BY <2>2, <2>3 DEF Sized
  <2>. QED
    BY <2>4 DEF x
<1>4. images \in [1 .. n -> S]
  OBVIOUS
<1> HIDE DEF images, S, w, h, n
<1>5. Shown(FromImages(images, w, h)) = images
  BY <1>1, <1>3, <1>4, ShownImages
<1>6. FromImages(images, w, h) = FrameSet(Strip(images, w, h), w, h, n, 0)
  BY <1>1, <1>4, SequenceOf DEF FromImages
<1>7. g.count = n /\ g.width = w /\ g.height = h /\ Visible(g)
  BY <1>1, <1>2, <1>6 DEF Visible, FrameSet
<1>. QED
  BY <1>2, <1>5, <1>7 DEF images, w, h, n

-----------------------------------------------------------------------------
(* What a task holds when it saves                                         *)

LEMMA TasksAre ==
  /\ Movies \cap Post = {} /\ Task \cap Uploads = {} /\ None \notin Task /\ None \notin Key
  /\ Movies \subseteq Task /\ Post \subseteq Task /\ Task \subseteq Key /\ Uploads \subseteq Key
  /\ Task = Movies \cup Post /\ Key = Task \cup Uploads /\ None \notin Meta
BY TasksAssumption, NoneAssumption DEF Task, Post, Key, Meta

LEMMA MetaOf ==
  ASSUME NEW f, Visible(f), f.count > 0
  PROVE  MetaToSave(f) \in Meta
BY DEF Visible, MetaToSave, Meta

LEMMA OutputIs ==
  ASSUME FramesTypeOK, OriginInv, HeldInv, NEW t \in Task, stage[t] \in Saving
  PROVE  LET f == output[t] IN
         /\ Visible(f) /\ f.count > 0 /\ Fits(t, f)
         /\ MetaToSave(f) \in Meta /\ Fits(t, MetaToSave(f))
<1> DEFINE f == output[t]
<1>1. Visible(f) /\ f.count > 0 /\ Fits(t, f)
  <2>1. CASE t \in Movies
    <3>1. MadeMovie(t)
      BY <2>1 DEF HeldInv
    <3>2. origin[t] = t /\ request[t] \in Requests
      BY <2>1 DEF OriginInv, FramesTypeOK
    <3> DEFINE r == request[t]
               try == tries[t]
               sim == r.sims[try]
               video == Video(t, r, try)
               size == FrameSize(r.character)
    <3>3. f = video \/ \E p \in Candidates(sim, video.count) : f = Loop(video, p)
      BY <3>1 DEF MadeMovie, MadeFrom
    <3> HIDE DEF f, r, try, sim, size
    <3>4. r \in Requests
      BY <3>2 DEF r
    <3>5. Whole(video, size)
      BY <3>4, VideoIsWhole DEF size
    <3>6. ASSUME NEW p \in Candidates(sim, video.count) PROVE Whole(Loop(video, p), size)
      BY <3>4, LoopShows DEF size
    <3> HIDE DEF video
    <3>7. Whole(f, size)
      BY <3>3, <3>5, <3>6
    <3>. QED
      BY <3>2, <3>7 DEF Fits, Whole, size, r
  <2>2. CASE t \in Post
    <3>1. /\ Visible(input[t]) /\ Fits(t, input[t]) /\ input[t].count > 0
          /\ f = FromImages(Worked(Shown(input[t]), t), input[t].width, input[t].height)
      BY <2>2 DEF HeldInv, MadePost
    <3> DEFINE g == input[t]
    <3> HIDE DEF f, g
    <3>2. /\ Visible(f) /\ f.count = g.count /\ f.width = g.width /\ f.height = g.height
      BY <3>1, PostShows DEF g
    <3>. QED
      BY <3>1, <3>2 DEF Fits, f, g
  <2>. QED
    BY <2>1, <2>2, TasksAre
<1>2. MetaToSave(f) \in Meta
  BY <1>1, MetaOf
<1>3. Fits(t, MetaToSave(f))
  <2>1. MetaToSave(f).width = f.width /\ MetaToSave(f).height = f.height
    BY DEF MetaToSave
  <2>. QED
    BY <1>1, <2>1 DEF Fits
<1>. QED
  BY <1>1, <1>2, <1>3

-----------------------------------------------------------------------------
(* Types                                                                   *)

LEMMA TypesInit == Init => FramesTypeOK
BY TasksAre DEF Init, FramesTypeOK, Origins, Stages

LEMMA TypesNext ==
  ASSUME FramesIInv, Next
  PROVE  FramesTypeOK'
<1> USE DEF FramesIInv
<1>1. ASSUME NEW t \in Movies, DeliverMovie(t) PROVE FramesTypeOK'
  BY <1>1, TasksAre DEF DeliverMovie, Deliver, Goto, store, FramesTypeOK, Stages
<1>2. ASSUME NEW t \in Movies, RunMovie(t) PROVE FramesTypeOK'
  BY <1>2, TasksAre DEF RunMovie, Fall, Make, Leave, Goto, store, history, FramesTypeOK, Stages
<1>3. ASSUME NEW t \in Post, DeliverPost(t) PROVE FramesTypeOK'
  BY <1>3, TasksAre DEF DeliverPost, Deliver, Goto, Offered, store, FramesTypeOK, Stages, Origins
<1>4. ASSUME NEW t \in Post, GetAtlas(t) PROVE FramesTypeOK'
  BY <1>4, TasksAre DEF GetAtlas, Leave, Goto, store, history, FramesTypeOK, Stages
<1>5. ASSUME NEW t \in Post, GetMeta(t) PROVE FramesTypeOK'
  BY <1>5, TasksAre DEF GetMeta, Goto, store, history, FramesTypeOK, Stages
<1>6. ASSUME NEW t \in Post, GetFails(t) PROVE FramesTypeOK'
  BY <1>6, TasksAre DEF GetFails, Leave, Goto, store, history, FramesTypeOK, Stages
<1>7. ASSUME NEW t \in Post, RunPost(t) PROVE FramesTypeOK'
  BY <1>7, TasksAre DEF RunPost, Fall, Make, Leave, Goto, store, history, FramesTypeOK, Stages
<1>8. ASSUME NEW t \in Task, GiveUp(t) PROVE FramesTypeOK'
  BY <1>8, TasksAre DEF GiveUp, Leave, Goto, store, history, FramesTypeOK, Stages
<1>9. ASSUME NEW t \in Task, PutAtlas(t) PROVE FramesTypeOK'
  BY <1>9, TasksAre DEF PutAtlas, Write, Goto, FramesTypeOK, Stages
<1>10. ASSUME NEW t \in Task, PutMeta(t) PROVE FramesTypeOK'
  <2>1. MetaToSave(output[t]) \in Meta
    BY <1>10, OutputIs DEF PutMeta, At, Saving
  <2>. QED
    BY <1>10, <2>1, TasksAre DEF PutMeta, Write, Leave, Goto, FramesTypeOK, Stages
<1>11. ASSUME NEW t \in Task, PutFails(t) PROVE FramesTypeOK'
  <2>1. stage[t] \in Saving
    BY <1>11 DEF PutFails, At, Saving
  <2>2. MetaToSave(output[t]) \in Meta
    BY <2>1, OutputIs
  <2>. QED
    BY <1>11, <2>2, TasksAre DEF PutFails, Write, Disturb, Leave, Goto, store, FramesTypeOK, Stages
<1>12. ASSUME NEW r \in flying, Land(r) PROVE FramesTypeOK'
  BY <1>12, TasksAre DEF Land, Write, Disturb, tasks, FramesTypeOK
<1>. QED
  BY <1>1, <1>2, <1>3, <1>4, <1>5, <1>6, <1>7, <1>8, <1>9, <1>10, <1>11, <1>12 DEF Next

-----------------------------------------------------------------------------
(* Where frames come from                                                  *)

LEMMA OriginsInit == Init => OriginInv
BY TasksAre DEF Init, OriginInv, Started

(* What a save writes is of the task that makes it.                        *)
LEMMA OriginsNext ==
  ASSUME FramesIInv, Next
  PROVE  OriginInv'
<1> USE DEF FramesIInv
<1>1. ASSUME UNCHANGED <<metas, flying, path, saved, origin, request>>,
             \A t \in Task : Started(t) => Started(t)',
             \A t \in Post : Started(t)' => Started(t)
      PROVE  OriginInv'
  BY <1>1, TasksAre DEF OriginInv, Fits, FramesTypeOK
<1>2. ASSUME NEW t \in Movies, DeliverMovie(t) PROVE OriginInv'
  <2>1. /\ UNCHANGED <<metas, flying, path, saved, origin, request>>
        /\ \A u \in Task : Started(u) => Started(u)'
        /\ \A u \in Post : Started(u)' => Started(u)
    BY <1>2, TasksAre DEF DeliverMovie, Deliver, Goto, store, Started, FramesTypeOK
  <2>. QED
    BY <1>1, <2>1
<1>3. ASSUME NEW t \in Post, DeliverPost(t) PROVE OriginInv'
  <2> PICK k \in IF path[t] = None THEN Offered(t) ELSE {path[t]} :
        /\ path' = [path EXCEPT ![t] = k]
        /\ origin' = [origin EXCEPT ![t] = IF k \in Uploads THEN k ELSE origin[k]]
    BY <1>3 DEF DeliverPost
  <2>1. /\ k # None /\ k \in Key
        /\ k \in Task => metas[k] # None
        /\ (IF k \in Uploads THEN k ELSE origin[k]) \in Origins
        /\ path[t] = None => k # t
        /\ path[t] # None => (IF k \in Uploads THEN k ELSE origin[k]) = origin[t]
    BY TasksAre DEF Offered, OriginInv, FramesTypeOK, Origins
  <2>2. UNCHANGED <<metas, flying, saved, request>> /\ stage' = [stage EXCEPT ![t] = "get_atlas"]
    BY <1>3 DEF DeliverPost, Deliver, Goto, store
  <2>3. \A u \in Task : Started(u)' <=> Started(u) \/ u = t
    BY <2>2 DEF Started, FramesTypeOK
  <2>4. \A u \in Task : u # t \/ path[t] # None => origin'[u] = origin[u]
    BY <2>1, TasksAre DEF FramesTypeOK
  <2>5. \A u \in Task : Started(u) => u # t \/ path[t] # None
    BY DEF OriginInv
  <2>6. \A u \in Task : \A f : Started(u) /\ Fits(u, f) => Fits(u, f)'
    BY <2>2, <2>4, <2>5, TasksAre DEF Fits
  <2>7. (\A u \in Movies : origin[u] = u)'
    BY <2>4, TasksAre DEF OriginInv
  <2>8. ASSUME NEW u \in Post
        PROVE  (/\ Started(u) => path[u] # None
                /\ path[u] # None =>
                     /\ origin[u] = IF path[u] \in Uploads THEN path[u] ELSE origin[path[u]]
                     /\ origin[u] \in Origins
                     /\ path[u] \in Task => metas[path[u]] # None)'
    <3>1. CASE u = t
      <4>1. path'[u] = k /\ origin'[u] = IF k \in Uploads THEN k ELSE origin[k]
        BY <3>1, TasksAre DEF FramesTypeOK
      <4>2. k \notin Uploads => origin'[k] = origin[k]
        BY <2>1, <2>4, TasksAre
      <4>. QED
        BY <2>1, <2>2, <4>1, <4>2
    <3>2. CASE u # t
      <4>1. path'[u] = path[u] /\ origin'[u] = origin[u] /\ (Started(u)' <=> Started(u))
        BY <2>3, <2>4, <3>2, TasksAre DEF FramesTypeOK
      <4>2. path[u] # None /\ path[u] \notin Uploads => origin'[path[u]] = origin[path[u]]
        BY <2>4, <2>5, TasksAre DEF OriginInv, FramesTypeOK
      <4>. QED
        BY <2>2, <4>1, <4>2 DEF OriginInv
    <3>. QED
      BY <3>1, <3>2
  <2>9. (/\ \A u \in Task : saved[u] # None => metas[u] # None
         /\ \A u \in Task : metas[u] # None => Started(u) /\ Fits(u, metas[u])
         /\ \A r \in flying : Started(r.key) /\ (r.part = "meta" => Fits(r.key, r.value)))'
    BY <2>2, <2>3, <2>6 DEF OriginInv, FramesTypeOK
  <2>. QED
    BY <2>7, <2>8, <2>9 DEF OriginInv
<1>4. ASSUME NEW t \in Task,
             stage[t] # "ready", NEW s \in Stages, s # "ready", stage' = [stage EXCEPT ![t] = s],
             UNCHANGED <<metas, flying, path, saved, origin, request>>
      PROVE  OriginInv'
  <2>1. \A u \in Task : Started(u)' <=> Started(u)
    BY <1>4 DEF Started, FramesTypeOK
  <2>. QED
    BY <1>1, <1>4, <2>1, TasksAre
<1>5. ASSUME NEW t \in Task, RunMovie(t) \/ RunPost(t) \/ GiveUp(t) \/ PutAtlas(t)
                             \/ GetAtlas(t) \/ GetMeta(t) \/ GetFails(t)
      PROVE  OriginInv'
  <2>1. /\ stage[t] # "ready"
        /\ \E s \in Stages : s # "ready" /\ stage' = [stage EXCEPT ![t] = s]
    BY <1>5 DEF RunMovie, RunPost, GiveUp, PutAtlas, GetAtlas, GetMeta, GetFails,
                At, Fall, Make, Leave, Goto, Stages
  <2>2. UNCHANGED <<metas, flying, path, saved, origin, request>>
    BY <1>5 DEF RunMovie, RunPost, GiveUp, PutAtlas, GetAtlas, GetMeta, GetFails,
                Write, store, history
  <2>. QED
    BY <1>4, <2>1, <2>2
<1>6. ASSUME NEW t \in Task, PutMeta(t) PROVE OriginInv'
  <2> DEFINE value == MetaToSave(output[t])
  <2>1. /\ stage[t] = "put_meta" /\ stage' = [stage EXCEPT ![t] = "answered"]
        /\ metas' = [metas EXCEPT ![t] = value] /\ saved' = [saved EXCEPT ![t] = output[t]]
        /\ UNCHANGED <<flying, path, origin, request>>
    BY <1>6 DEF PutMeta, At, Write, Leave, Goto
  <2>2. value # None /\ Fits(t, value)
    BY <2>1, OutputIs, TasksAre DEF Saving
  <2> HIDE DEF value
  <2>3. \A u \in Task : Started(u)' <=> Started(u)
    BY <2>1 DEF Started, FramesTypeOK
  <2>4. \A u \in Task : \A f : Fits(u, f)' <=> Fits(u, f)
    BY <2>1 DEF Fits
  <2>5. \A u \in Task : metas'[u] = IF u = t THEN value ELSE metas[u]
    BY <2>1, TasksAre DEF FramesTypeOK
  <2>6. \A u \in Task : u # t => saved'[u] = saved[u]
    BY <2>1, TasksAre DEF FramesTypeOK
  <2>7. Started(t)
    BY <2>1 DEF Started
  <2>. QED
    BY <2>1, <2>2, <2>3, <2>4, <2>5, <2>6, <2>7, TasksAre DEF OriginInv, FramesTypeOK
<1>7. ASSUME NEW t \in Task, PutFails(t) PROVE OriginInv'
  <2> DEFINE value == MetaToSave(output[t])
  <2>1. /\ stage[t] \in Saving /\ stage' = [stage EXCEPT ![t] = "failed"]
        /\ UNCHANGED <<path, saved, origin, request>>
        /\ metas' = metas \/ metas' = [metas EXCEPT ![t] = value]
        /\ \/ flying' = flying
           \/ flying' = flying \cup {[part |-> "atlas", key |-> t, value |-> AtlasToSave(output[t])]}
           \/ flying' = flying \cup {[part |-> "meta", key |-> t, value |-> value]}
    BY <1>7 DEF PutFails, At, Write, Disturb, Leave, Goto, Saving, store
  <2>2. value # None /\ Fits(t, value)
    BY <2>1, OutputIs, TasksAre
  <2> HIDE DEF value
  <2>3. \A u \in Task : Started(u)' <=> Started(u)
    BY <2>1 DEF Started, FramesTypeOK, Saving
  <2>4. \A u \in Task : \A f : Fits(u, f)' <=> Fits(u, f)
    BY <2>1 DEF Fits
  <2>5. \A u \in Task : metas'[u] = metas[u] \/ (u = t /\ metas'[u] = value)
    BY <2>1, TasksAre DEF FramesTypeOK
  <2>6. \A r \in flying' : \/ r \in flying
                           \/ r.key = t /\ (r.part = "meta" => r.value = value)
    BY <2>1
  <2>7. Started(t)
    BY <2>1 DEF Started, Saving
  <2>8. (\A r \in flying : Started(r.key) /\ (r.part = "meta" => Fits(r.key, r.value)))'
    BY <2>2, <2>3, <2>4, <2>6, <2>7 DEF OriginInv, FramesTypeOK
  <2>. QED
    BY <2>1, <2>2, <2>3, <2>4, <2>5, <2>7, <2>8, TasksAre DEF OriginInv, FramesTypeOK
<1>8. ASSUME NEW r \in flying, Land(r) PROVE OriginInv'
  <2>1. /\ flying' = flying \ {r}
        /\ metas' = metas \/ (r.part = "meta" /\ metas' = [metas EXCEPT ![r.key] = r.value])
        /\ UNCHANGED <<path, saved, origin, request, stage>>
    BY <1>8 DEF Land, Write, Disturb, tasks, FramesTypeOK
  <2>2. r.key \in Task /\ Started(r.key)
        /\ (r.part = "meta" => r.value # None /\ Fits(r.key, r.value))
    BY TasksAre DEF OriginInv, FramesTypeOK
  <2>3. \A u \in Task : Started(u)' <=> Started(u)
    BY <2>1 DEF Started
  <2>4. \A u \in Task : \A f : Fits(u, f)' <=> Fits(u, f)
    BY <2>1 DEF Fits
  <2>5. \A u \in Task :
          \/ metas'[u] = metas[u]
          \/ u = r.key /\ r.part = "meta" /\ metas'[u] = r.value
    BY <2>1, TasksAre DEF FramesTypeOK
  <2>6. (\A x \in flying : Started(x.key) /\ (x.part = "meta" => Fits(x.key, x.value)))'
    BY <2>1, <2>3, <2>4 DEF OriginInv, FramesTypeOK
  <2>. QED
    BY <2>1, <2>2, <2>3, <2>4, <2>5, <2>6, TasksAre DEF OriginInv, FramesTypeOK
<1>. QED
  BY <1>2, <1>3, <1>5, <1>6, <1>7, <1>8, TasksAre DEF Next

-----------------------------------------------------------------------------
(* Uploads, and what a task holds                                          *)

LEMMA UploadsInit == Init => UploadInv
BY TasksAre DEF Init, UploadInv

LEMMA UploadsNext ==
  ASSUME FramesIInv, Next
  PROVE  UploadInv'
<1> USE DEF FramesIInv
<1>1. \A k \in Uploads : UNCHANGED <<atlases[k], metas[k], saved[k]>>
  <2>1. ASSUME NEW t \in Task, PutAtlas(t) \/ PutMeta(t) \/ PutFails(t)
        PROVE  \A k \in Uploads : UNCHANGED <<atlases[k], metas[k], saved[k]>>
    BY <2>1, TasksAre DEF PutAtlas, PutMeta, PutFails, Write, Disturb, store, FramesTypeOK
  <2>2. ASSUME NEW r \in flying, Land(r)
        PROVE  \A k \in Uploads : UNCHANGED <<atlases[k], metas[k], saved[k]>>
    BY <2>2, TasksAre DEF Land, Write, Disturb, FramesTypeOK
  <2>3. ASSUME NEW t \in Task,
               DeliverMovie(t) \/ RunMovie(t) \/ DeliverPost(t) \/ GetAtlas(t) \/ GetMeta(t)
                 \/ GetFails(t) \/ RunPost(t) \/ GiveUp(t)
        PROVE  UNCHANGED <<atlases, metas, saved>>
    BY <2>3 DEF DeliverMovie, RunMovie, DeliverPost, Deliver, GetAtlas, GetMeta, GetFails, RunPost,
                GiveUp, store, history
  <2>. QED
    BY <2>1, <2>2, <2>3, TasksAre DEF Next
<1>2. ASSUME NEW t \in Post, path'[t] \in Uploads, stage'[t] = "get_meta"
      PROVE  got'[t] = Uploaded[path'[t]]
  <2>1. CASE GetAtlas(t)
    BY <1>2, <2>1, TasksAre DEF GetAtlas, Leave, Goto, At, UploadInv, FramesTypeOK
  <2>2. CASE ~GetAtlas(t)
    <3>1. path'[t] = path[t] /\ stage[t] = "get_meta" /\ got'[t] = got[t]
      <4>1. ASSUME NEW u \in Task, DeliverMovie(u) \/ DeliverPost(u)
            PROVE  path'[t] = path[t] /\ stage[t] = "get_meta" /\ got'[t] = got[t]
        BY <1>2, <4>1, TasksAre DEF DeliverMovie, DeliverPost, Deliver, Goto, FramesTypeOK
      <4>2. ASSUME NEW u \in Task, RunMovie(u) \/ RunPost(u) \/ GiveUp(u)
            PROVE  path'[t] = path[t] /\ stage[t] = "get_meta" /\ got'[t] = got[t]
        BY <1>2, <4>2, TasksAre DEF RunMovie, RunPost, GiveUp, Fall, Make, Leave, Goto, FramesTypeOK
      <4>3. ASSUME NEW u \in Task, u = t => ~GetAtlas(t),
                   GetAtlas(u) \/ GetMeta(u) \/ GetFails(u)
            PROVE  path'[t] = path[t] /\ stage[t] = "get_meta" /\ got'[t] = got[t]
        BY <1>2, <4>3, TasksAre DEF GetAtlas, GetMeta, GetFails, Leave, Goto, FramesTypeOK
      <4>4. ASSUME NEW u \in Task, PutAtlas(u) \/ PutMeta(u) \/ PutFails(u)
            PROVE  path'[t] = path[t] /\ stage[t] = "get_meta" /\ got'[t] = got[t]
        BY <1>2, <4>4, TasksAre DEF PutAtlas, PutMeta, PutFails, Leave, Goto, FramesTypeOK
      <4>5. ASSUME NEW r \in flying, Land(r)
            PROVE  path'[t] = path[t] /\ stage[t] = "get_meta" /\ got'[t] = got[t]
        BY <1>2, <4>5 DEF Land, tasks
      <4>. QED
        BY <2>2, <4>1, <4>2, <4>3, <4>4, <4>5, TasksAre DEF Next
    <3>. QED
      BY <1>2, <3>1 DEF UploadInv
  <2>. QED
    BY <2>1, <2>2
<1>. QED
  BY <1>1, <1>2 DEF UploadInv

LEMMA HeldInit == Init => HeldInv
BY TasksAre DEF Init, HeldInv, Saving

(* What the invariant says of one task, whoever takes the step.             *)
Holds(t) ==
  /\ stage[t] \notin Saving => output[t] = None
  /\ t \in Post /\ stage[t] \in {"job"} \cup Saving =>
       /\ Visible(input[t]) /\ Fits(t, input[t])
       /\ origin[t] \in Movies => input[t].count > 0
  /\ t \in Movies /\ stage[t] \in Saving => MadeMovie(t)
  /\ t \in Post /\ stage[t] \in Saving => MadePost(t)

(* Trimming leaves the video or takes a loop of it.                        *)
LEMMA TrimIs ==
  ASSUME NEW video, NEW sim
  PROVE  \/ Trim(video, sim) = video
         \/ \E p \in Candidates(sim, video.count) : Trim(video, sim) = Loop(video, p)
<1>1. CASE BestCycles(sim, video.count) = {}
  BY <1>1 DEF Trim
<1>2. CASE BestCycles(sim, video.count) # {}
  <2> DEFINE p == CHOOSE p \in BestCycles(sim, video.count) : TRUE
  <2>1. p \in BestCycles(sim, video.count)
    BY <1>2
  <2>2. Trim(video, sim) = Loop(video, p)
    BY <1>2 DEF Trim, Loop
  <2>. QED
    BY <2>1, <2>2 DEF BestCycles
<1>. QED
  BY <1>1, <1>2

(* Frames that were read are there to be seen, and have the size that their *)
(* origin gives them: square ones are made only of an upload.               *)
LEMMA ReadIs ==
  ASSUME FramesIInv, NEW t \in Post, stage[t] = "get_meta"
  PROVE  LET f == ToFrames(got[t], metas[path[t]]) IN
         /\ Visible(f) /\ Fits(t, f)
         /\ origin[t] \in Movies => f.count > 0
         /\ path[t] \in Task => metas[path[t]] # None /\ f.count = metas[path[t]].count
<1> USE DEF FramesIInv
<1> DEFINE k == path[t]
           m == metas[k]
           f == ToFrames(got[t], m)
<1>1. k \in Key /\ origin[t] = IF k \in Uploads THEN k ELSE origin[k]
  BY TasksAre DEF OriginInv, FramesTypeOK, Started
<1>2. CASE k \in Uploads
  <2>1. got[t] = Uploaded[k] /\ m = None
    BY <1>2 DEF UploadInv
  <2> DEFINE u == Uploaded[k]
  <2>2. u.width \in Nat \ {0} /\ u.height \in Nat \ {0}
    BY <1>2, InputsAssumption
  <2> HIDE DEF u
  <2>3. f = FrameSet(u, u.height, u.height, u.width \div u.height, 0)
    BY <2>1 DEF ToFrames, u
  <2>4. u.width \div u.height \in Nat
    <3> DEFINE x == u.width
               y == u.height
    <3>1. x \in Nat /\ y \in Nat \ {0}
      BY <2>2
    <3> HIDE DEF x, y
    <3>2. x \div y \in Nat
      BY <3>1, DivNonNegative
    <3>. QED
      BY <3>2 DEF x, y
  <2>5. Visible(f)
    BY <2>2, <2>3, <2>4 DEF Visible, FrameSet
  <2>6. origin[t] \notin Movies /\ k \notin Task
    BY <1>1, <1>2, TasksAre
  <2>. QED
    BY <2>5, <2>6 DEF Fits
<1>3. CASE k \in Task
  <2>1. m # None
    BY <1>1, <1>3, TasksAre DEF OriginInv
  <2>2. m \in Meta /\ Fits(k, m)
    BY <1>1, <1>3, <2>1, TasksAre DEF OriginInv, FramesTypeOK
  <2>3. f.width = m.width /\ f.height = m.height /\ f.count = m.count
    BY <2>1 DEF ToFrames, FrameSet
  <2>4. origin[t] = origin[k]
    BY <1>1, <1>3, TasksAre
  <2> HIDE DEF f, m
  <2>5. Visible(f) /\ f.count > 0
    BY <2>2, <2>3 DEF Meta, Visible
  <2>6. Fits(t, f)
    BY <2>2, <2>3, <2>4 DEF Fits
  <2>. QED
    BY <2>1, <2>3, <2>5, <2>6 DEF f, m
<1>. QED
  BY <1>1, <1>2, <1>3, TasksAre

LEMMA HeldNext ==
  ASSUME FramesIInv, Next
  PROVE  HeldInv'
<1> USE DEF FramesIInv
<1>1. ASSUME NEW t \in Task,
             UNCHANGED <<stage[t], output[t], input[t], origin[t], request, tries[t]>>
      PROVE  Holds(t)'
  <2>1. Holds(t)
    BY DEF HeldInv, Holds
  <2>. QED
    BY <1>1, <2>1 DEF Holds, Fits, MadeMovie, MadePost
<1>2. ASSUME NEW t \in Task, stage'[t] \notin {"job"} \cup Saving, output'[t] = None
      PROVE  Holds(t)'
  BY <1>2 DEF Holds
<1>3. ASSUME NEW t \in Task, NEW u \in Task, t # u,
             DeliverMovie(u) \/ DeliverPost(u) \/ RunMovie(u) \/ RunPost(u) \/ GiveUp(u)
               \/ GetAtlas(u) \/ GetMeta(u) \/ GetFails(u) \/ PutAtlas(u) \/ PutMeta(u) \/ PutFails(u)
      PROVE  UNCHANGED <<stage[t], output[t], input[t], origin[t], request, tries[t]>>
  <2>1. CASE DeliverMovie(u) \/ DeliverPost(u)
    BY <1>3, <2>1 DEF DeliverMovie, DeliverPost, Deliver, Goto, FramesTypeOK
  <2>2. CASE RunMovie(u) \/ RunPost(u) \/ GiveUp(u)
    BY <1>3, <2>2 DEF RunMovie, RunPost, GiveUp, Fall, Make, Leave, Goto, history, FramesTypeOK
  <2>3. CASE GetAtlas(u) \/ GetMeta(u) \/ GetFails(u)
    BY <1>3, <2>3 DEF GetAtlas, GetMeta, GetFails, Leave, Goto, history, FramesTypeOK
  <2>4. CASE PutAtlas(u) \/ PutMeta(u) \/ PutFails(u)
    BY <1>3, <2>4 DEF PutAtlas, PutMeta, PutFails, Disturb, Leave, Goto, FramesTypeOK
  <2>. QED
    BY <1>3, <2>1, <2>2, <2>3, <2>4
<1>4. ASSUME NEW t \in Movies, DeliverMovie(t) PROVE Holds(t)'
  <2>1. output'[t] = None /\ stage'[t] = "job"
    BY <1>4, TasksAre DEF DeliverMovie, Deliver, At, Goto, HeldInv, Saving, FramesTypeOK
  <2>. QED
    BY <2>1, TasksAre DEF Holds, Saving
<1>5. ASSUME NEW t \in Post, DeliverPost(t) PROVE Holds(t)'
  <2>1. output'[t] = None /\ stage'[t] = "get_atlas"
    BY <1>5, TasksAre DEF DeliverPost, Deliver, At, Goto, HeldInv, Saving, FramesTypeOK
  <2>. QED
    BY <1>2, <2>1, TasksAre DEF Saving
<1>6. ASSUME NEW t \in Post, GetAtlas(t) PROVE Holds(t)'
  <2>1. output'[t] = None /\ stage'[t] \in {"failed", "get_meta"}
    BY <1>6, TasksAre DEF GetAtlas, At, Leave, Goto, HeldInv, Saving, FramesTypeOK
  <2>. QED
    BY <1>2, <2>1, TasksAre DEF Saving
<1>7. ASSUME NEW t \in Post, GetMeta(t) PROVE Holds(t)'
  <2> DEFINE f == ToFrames(got[t], metas[path[t]])
  <2>1. /\ stage[t] = "get_meta" /\ stage'[t] = "job" /\ output'[t] = None
        /\ input'[t] = f /\ UNCHANGED <<origin, request>>
    BY <1>7, TasksAre DEF GetMeta, At, Goto, history, HeldInv, Saving, FramesTypeOK
  <2>2. Visible(f) /\ Fits(t, f) /\ (origin[t] \in Movies => f.count > 0)
    BY <2>1, ReadIs
  <2> HIDE DEF f
  <2>3. Fits(t, input[t])'
    BY <2>1, <2>2 DEF Fits
  <2>. QED
    BY <2>1, <2>2, <2>3, TasksAre DEF Holds, Saving
<1>8. ASSUME NEW t \in Task, GetFails(t) \/ GiveUp(t) \/ PutMeta(t) \/ PutFails(t)
      PROVE  Holds(t)'
  <2>1. output'[t] = None /\ stage'[t] \in {"failed", "answered"}
    BY <1>8, TasksAre DEF GetFails, GiveUp, PutMeta, PutFails, Leave, Goto, FramesTypeOK
  <2>. QED
    BY <1>2, <2>1 DEF Saving
<1>9. ASSUME NEW t \in Movies, RunMovie(t) PROVE Holds(t)'
  <2> DEFINE video == Video(t, request[t], tries[t])
             sim == request[t].sims[tries[t]]
  <2>1. CASE output'[t] = None /\ stage'[t] = "failed"
    BY <1>2, <2>1, TasksAre DEF Saving
  <2>2. CASE output'[t] \in {video, Trim(video, sim)} /\ stage'[t] = "put_atlas"
    <3>1. UNCHANGED <<request, tries>>
      BY <1>9 DEF RunMovie
    <3>2. MadeFrom(t, request[t], tries[t], output'[t])
      <4>1. \/ output'[t] = video
            \/ \E p \in Candidates(sim, video.count) : output'[t] = Loop(video, p)
        <5> HIDE DEF video, sim
        <5>. QED
          BY <2>2, TrimIs
      <4>. QED
        BY <4>1 DEF MadeFrom
    <3>3. MadeMovie(t)'
      BY <3>1, <3>2 DEF MadeMovie
    <3>. QED
      BY <2>2, <3>3, TasksAre DEF Holds, Saving
  <2>3. \/ output'[t] = None /\ stage'[t] = "failed"
        \/ output'[t] \in {video, Trim(video, sim)} /\ stage'[t] = "put_atlas"
    <3> DEFINE trimmed == Trim(video, sim)
    <3>1. Fall(t) \/ Make(t, video) \/ Make(t, trimmed)
      BY <1>9 DEF RunMovie
    <3> HIDE DEF video, trimmed
    <3>. QED
      BY <3>1, TasksAre DEF Fall, Make, Leave, Goto, FramesTypeOK, trimmed
  <2>. QED
    BY <2>1, <2>2, <2>3
<1>10. ASSUME NEW t \in Post, RunPost(t) PROVE Holds(t)'
  <2> DEFINE f == input[t]
             made == FromImages(Worked(Shown(f), t), f.width, f.height)
  <2>1. stage[t] = "job" /\ UNCHANGED <<origin, request>>
    BY <1>10 DEF RunPost, At, history
  <2>2. Visible(f) /\ Fits(t, f)
    BY <2>1, TasksAre DEF HeldInv
  <2>3. \/ output'[t] = None /\ stage'[t] = "failed"
        \/ /\ ~Refuses(t, f) /\ output'[t] = made /\ stage'[t] = "put_atlas"
           /\ input'[t] = f
    <3> HIDE DEF made
    <3>1. Fall(t) \/ (~Refuses(t, f) /\ Make(t, made))
      BY <1>10 DEF RunPost, made
    <3>. QED
      BY <3>1, TasksAre DEF Fall, Make, Leave, Goto, FramesTypeOK
  <2>4. CASE output'[t] = None /\ stage'[t] = "failed"
    BY <1>2, <2>4, TasksAre DEF Saving
  <2>5. CASE ~Refuses(t, f) /\ output'[t] = made /\ stage'[t] = "put_atlas" /\ input'[t] = f
    <3>1. f.count > 0
      BY <2>2, <2>5 DEF Refuses, Visible
    <3>2. MadePost(t)'
      BY <2>5, <3>1 DEF MadePost
    <3> HIDE DEF f, made
    <3>3. /\ Visible(input'[t]) /\ input'[t].count > 0
      BY <2>2, <2>5, <3>1
    <3>4. Fits(t, input[t])'
      BY <2>1, <2>2, <2>5 DEF Fits, f
    <3>. QED
      BY <2>5, <3>2, <3>3, <3>4, TasksAre DEF Holds, Saving
  <2>. QED
    BY <2>3, <2>4, <2>5
<1>11. ASSUME NEW t \in Task, PutAtlas(t) PROVE Holds(t)'
  <2>1. /\ stage[t] = "put_atlas" /\ stage'[t] = "put_meta"
        /\ UNCHANGED <<output, input, origin, request, tries>>
    BY <1>11, TasksAre DEF PutAtlas, At, Goto, FramesTypeOK
  <2>2. Holds(t)
    BY DEF HeldInv, Holds
  <2>. QED
    BY <2>1, <2>2 DEF Holds, Saving, Fits, MadeMovie, MadePost
<1>12. ASSUME NEW r \in flying, Land(r), NEW t \in Task PROVE Holds(t)'
  BY <1>1, <1>12 DEF Land, tasks, Disturb
<1>13. ASSUME NEW t \in Task PROVE Holds(t)'
  BY <1>1, <1>3, <1>4, <1>5, <1>6, <1>7, <1>8, <1>9, <1>10, <1>11, <1>12, <1>13, TasksAre DEF Next
<1>. QED
  BY <1>13 DEF HeldInv, Holds

-----------------------------------------------------------------------------
(* Saves nobody disturbs, and reads that begin after them                  *)

LEMMA SettledInit == Init => SettledInv /\ CalmInv
BY DEF Init, SettledInv, CalmInv

(* What the objects of a settled key are.                                  *)
Rests(k) ==
  /\ \A r \in flying : r.key # k
  /\ stage[k] = "put_meta" => atlases[k] = AtlasToSave(output[k])
  /\ stage[k] # "put_meta" =>
       /\ Visible(saved[k])
       /\ atlases[k] = AtlasToSave(saved[k])
       /\ metas[k] = MetaToSave(saved[k])

LEMMA SettledNext ==
  ASSUME FramesIInv, Next
  PROVE  SettledInv' /\ settled' \subseteq Task
<1> USE DEF FramesIInv
<1>0. settled \subseteq Task /\ \A k \in settled : Rests(k)
  BY DEF SettledInv, Rests, FramesTypeOK
<1>1. ASSUME NEW t \in Task,
             DeliverMovie(t) \/ DeliverPost(t) \/ RunMovie(t) \/ RunPost(t) \/ GiveUp(t)
               \/ GetAtlas(t) \/ GetMeta(t) \/ GetFails(t)
      PROVE  SettledInv' /\ settled' \subseteq Task
  <2>1. UNCHANGED <<settled, flying, atlases, metas, saved>>
    BY <1>1 DEF DeliverMovie, DeliverPost, Deliver, RunMovie, RunPost, GiveUp, GetAtlas, GetMeta,
                GetFails, store, history
  <2>2. stage[t] # "put_meta"
    BY <1>1 DEF DeliverMovie, DeliverPost, Deliver, RunMovie, RunPost, GiveUp, GetAtlas, GetMeta,
                GetFails, At
  <2>3. stage'[t] # "put_meta" /\ \A k \in Task : k # t => UNCHANGED <<stage[k], output[k]>>
    <3>1. CASE DeliverMovie(t) \/ DeliverPost(t)
      BY <3>1 DEF DeliverMovie, DeliverPost, Deliver, Goto, FramesTypeOK
    <3>2. CASE RunMovie(t) \/ RunPost(t) \/ GiveUp(t)
      BY <3>2 DEF RunMovie, RunPost, GiveUp, Fall, Make, Leave, Goto, FramesTypeOK
    <3>3. CASE GetAtlas(t) \/ GetMeta(t) \/ GetFails(t)
      BY <3>3 DEF GetAtlas, GetMeta, GetFails, Leave, Goto, FramesTypeOK
    <3>. QED
      BY <1>1, <3>1, <3>2, <3>3
  <2>4. ASSUME NEW k \in settled PROVE Rests(k)'
    BY <1>0, <2>1, <2>2, <2>3, <2>4 DEF Rests
  <2>. QED
    BY <1>0, <2>1, <2>4 DEF SettledInv, Rests
<1>2. ASSUME NEW t \in Task, PutAtlas(t) PROVE SettledInv' /\ settled' \subseteq Task
  <2>1. /\ stage' = [stage EXCEPT ![t] = "put_meta"]
        /\ atlases' = [atlases EXCEPT ![t] = AtlasToSave(output[t])]
        /\ UNCHANGED <<flying, metas, saved, output>>
        /\ settled' = IF \E r \in flying : r.key = t THEN settled \ {t} ELSE settled \cup {t}
    BY <1>2 DEF PutAtlas, Goto, Write
  <2>2. Rests(t)' \/ t \notin settled'
    BY <2>1, TasksAre DEF Rests, FramesTypeOK
  <2>3. ASSUME NEW k \in settled, k # t PROVE Rests(k)'
    <3>1. UNCHANGED <<stage[k], atlases[k]>>
      BY <1>0, <2>1, <2>3, TasksAre DEF FramesTypeOK
    <3>. QED
      BY <1>0, <2>1, <3>1 DEF Rests
  <2>4. settled' \subseteq settled \cup {t}
    BY <2>1
  <2>. QED
    BY <1>0, <2>2, <2>3, <2>4 DEF SettledInv, Rests
<1>3. ASSUME NEW t \in Task, PutMeta(t) PROVE SettledInv' /\ settled' \subseteq Task
  <2>1. /\ stage[t] = "put_meta" /\ stage' = [stage EXCEPT ![t] = "answered"]
        /\ metas' = [metas EXCEPT ![t] = MetaToSave(output[t])]
        /\ saved' = [saved EXCEPT ![t] = output[t]]
        /\ output' = [output EXCEPT ![t] = None]
        /\ UNCHANGED <<flying, atlases, settled>>
    BY <1>3 DEF PutMeta, At, Leave, Goto, Write
  <2>2. Visible(output[t])
    BY <2>1, OutputIs DEF Saving
  <2>3. t \in settled => Rests(t)'
    <3> DEFINE f == output[t]
    <3>1. stage'[t] = "answered" /\ metas'[t] = MetaToSave(f) /\ saved'[t] = f
      BY <2>1, TasksAre DEF FramesTypeOK
    <3> HIDE DEF f
    <3>2. t \in settled => atlases[t] = AtlasToSave(f) /\ \A r \in flying : r.key # t
      BY <1>0, <2>1 DEF Rests, f
    <3>. QED
      BY <2>1, <2>2, <3>1, <3>2 DEF Rests, f
  <2>4. ASSUME NEW k \in settled, k # t PROVE Rests(k)'
    <3>1. UNCHANGED <<stage[k], atlases[k], metas[k], saved[k], output[k]>>
      BY <1>0, <2>1, <2>4, TasksAre DEF FramesTypeOK
    <3>. QED
      BY <1>0, <2>1, <3>1 DEF Rests
  <2>. QED
    BY <1>0, <2>1, <2>3, <2>4 DEF SettledInv, Rests
<1>4. ASSUME NEW t \in Task, PutFails(t) PROVE SettledInv' /\ settled' \subseteq Task
  <2>1. /\ settled' = settled \ {t} /\ saved' = saved
        /\ \A r \in flying' : r \in flying \/ r.key = t
        /\ \A k \in Task : k # t =>
             UNCHANGED <<stage[k], atlases[k], metas[k], output[k]>>
    BY <1>4, TasksAre DEF PutFails, Disturb, Leave, Goto, Write, store, FramesTypeOK
  <2>2. ASSUME NEW k \in settled' PROVE Rests(k)'
    BY <1>0, <2>1 DEF Rests
  <2>. QED
    BY <1>0, <2>1, <2>2 DEF SettledInv, Rests
<1>5. ASSUME NEW r \in flying, Land(r) PROVE SettledInv' /\ settled' \subseteq Task
  <2>1. /\ settled' = settled \ {r.key} /\ UNCHANGED <<saved, stage, output>>
        /\ flying' = flying \ {r}
        /\ \A k \in Task : k # r.key => UNCHANGED <<atlases[k], metas[k]>>
    BY <1>5, TasksAre DEF Land, Disturb, Write, tasks, FramesTypeOK
  <2>2. ASSUME NEW k \in settled' PROVE Rests(k)'
    BY <1>0, <2>1 DEF Rests
  <2>. QED
    BY <1>0, <2>1, <2>2 DEF SettledInv, Rests
<1>. QED
  BY <1>1, <1>2, <1>3, <1>4, <1>5, TasksAre DEF Next

(* What a read that began after such a save relies on.                     *)
Quiet(t) ==
  /\ path[t] \in settled /\ stage[path[t]] # "put_meta"
  /\ stage[t] = "get_meta" => got[t] = AtlasToSave(saved[path[t]])

LEMMA CalmNext ==
  ASSUME FramesIInv, Next
  PROVE  CalmInv'
<1> USE DEF FramesIInv
<1>0. /\ calm \subseteq Post /\ settled \subseteq Task
      /\ \A t \in calm : Quiet(t)
      /\ \A k \in settled : Rests(k)
  BY DEF CalmInv, Quiet, SettledInv, Rests, FramesTypeOK
<1>1. ASSUME NEW t \in Task,
             DeliverMovie(t) \/ RunMovie(t) \/ RunPost(t) \/ GiveUp(t)
               \/ GetAtlas(t) \/ GetMeta(t) \/ GetFails(t)
      PROVE  CalmInv'
  <2>1. UNCHANGED <<calm, settled, saved, path>>
    BY <1>1 DEF DeliverMovie, Deliver, RunMovie, RunPost, GiveUp, GetAtlas, GetMeta, GetFails,
                store, history
  <2>2. /\ stage'[t] # "put_meta"
        /\ \A k \in Task : k # t => UNCHANGED <<stage[k], got[k]>>
    <3>1. CASE DeliverMovie(t)
      BY <3>1 DEF DeliverMovie, Deliver, Goto, FramesTypeOK
    <3>2. CASE RunMovie(t) \/ RunPost(t) \/ GiveUp(t)
      BY <3>2 DEF RunMovie, RunPost, GiveUp, Fall, Make, Leave, Goto, FramesTypeOK
    <3>3. CASE GetAtlas(t) \/ GetMeta(t) \/ GetFails(t)
      BY <3>3 DEF GetAtlas, GetMeta, GetFails, Leave, Goto, FramesTypeOK
    <3>. QED
      BY <1>1, <3>1, <3>2, <3>3
  <2>3. stage'[t] = "get_meta" => got'[t] = atlases[path[t]]
    <3>1. CASE DeliverMovie(t)
      BY <3>1 DEF DeliverMovie, Deliver, Goto, FramesTypeOK
    <3>2. CASE RunMovie(t) \/ RunPost(t) \/ GiveUp(t)
      BY <3>2 DEF RunMovie, RunPost, GiveUp, Fall, Make, Leave, Goto, FramesTypeOK
    <3>3. CASE GetAtlas(t) \/ GetMeta(t) \/ GetFails(t)
      BY <3>3 DEF GetAtlas, GetMeta, GetFails, Leave, Goto, FramesTypeOK
    <3>. QED
      BY <1>1, <3>1, <3>2, <3>3
  <2>4. ASSUME NEW u \in calm PROVE Quiet(u)'
    <3>1. u \in Task /\ path[u] \in Task /\ Quiet(u)
      BY <1>0, TasksAre DEF Quiet
    <3>2. (path[u] \in settled /\ stage[path[u]] # "put_meta")'
      BY <2>1, <2>2, <3>1 DEF Quiet
    <3>3. (stage[u] = "get_meta" => got[u] = AtlasToSave(saved[path[u]]))'
      <4>1. CASE u # t
        BY <2>1, <2>2, <3>1, <4>1 DEF Quiet
      <4>2. CASE u = t
        <5>1. atlases[path[t]] = AtlasToSave(saved[path[t]])
          BY <1>0, <3>1, <4>2 DEF Quiet, Rests
        <5>. QED
          BY <2>1, <2>3, <4>2, <5>1
      <4>. QED
        BY <4>1, <4>2
    <3>. QED
      BY <3>2, <3>3 DEF Quiet
  <2>. QED
    BY <2>1, <2>4 DEF CalmInv, Quiet
<1>2. ASSUME NEW t \in Post, DeliverPost(t) PROVE CalmInv'
  <2> PICK k \in IF path[t] = None THEN Offered(t) ELSE {path[t]} :
        /\ path' = [path EXCEPT ![t] = k]
        /\ calm' = IF k \in settled /\ stage[k] # "put_meta" THEN calm \cup {t} ELSE calm \ {t}
    BY <1>2 DEF DeliverPost
  <2>1. stage' = [stage EXCEPT ![t] = "get_atlas"] /\ UNCHANGED <<settled, saved, got>>
    BY <1>2 DEF DeliverPost, Deliver, Goto
  <2>2. ASSUME NEW u \in calm', u # t PROVE Quiet(u)'
    <3>1. u \in calm /\ u \in Post /\ Quiet(u) /\ path[u] \in Task
      BY <1>0, <2>2 DEF Quiet
    <3>2. path'[u] = path[u] /\ stage'[u] = stage[u]
      BY <2>1, <2>2, <3>1, TasksAre DEF FramesTypeOK
    <3>3. stage'[path[u]] # "put_meta"
      BY <2>1, <3>1 DEF Quiet, FramesTypeOK
    <3>. QED
      BY <2>1, <3>1, <3>2, <3>3 DEF Quiet
  <2>3. t \in calm' => Quiet(t)'
    <3>1. path'[t] = k /\ stage'[t] = "get_atlas"
      BY <2>1, TasksAre DEF FramesTypeOK
    <3>2. t \in calm' => k \in settled /\ stage[k] # "put_meta"
      OBVIOUS
    <3>3. k \in settled /\ stage[k] # "put_meta" => stage'[k] # "put_meta"
      BY <1>0, <2>1 DEF FramesTypeOK
    <3>. QED
      BY <2>1, <3>1, <3>2, <3>3 DEF Quiet
  <2>. QED
    BY <2>2, <2>3 DEF CalmInv, Quiet
<1>3. ASSUME NEW t \in Task, PutAtlas(t) \/ PutMeta(t) \/ PutFails(t)
      PROVE  CalmInv'
  <2>1. /\ path' = path /\ calm' = { u \in calm : path[u] # t }
        /\ settled \ {t} \subseteq settled'
        /\ stage'[t] # "get_meta"
        /\ \A k \in Task : k # t => UNCHANGED <<stage[k], got[k], saved[k]>>
    BY <1>3, TasksAre DEF PutAtlas, PutMeta, PutFails, Disturb, Leave, Goto, FramesTypeOK
  <2>2. ASSUME NEW u \in calm' PROVE Quiet(u)'
    <3>1. u \in Task /\ Quiet(u) /\ path[u] \in Task /\ path[u] # t
      BY <1>0, <2>1, TasksAre DEF Quiet
    <3>. QED
      BY <2>1, <3>1 DEF Quiet
  <2>. QED
    BY <2>2 DEF CalmInv, Quiet
<1>4. ASSUME NEW r \in flying, Land(r) PROVE CalmInv'
  <2>1. /\ calm' = { u \in calm : path[u] # r.key } /\ settled' = settled \ {r.key}
        /\ UNCHANGED <<path, stage, got, saved>>
    BY <1>4 DEF Land, Disturb, tasks
  <2>2. ASSUME NEW u \in calm' PROVE Quiet(u)'
    <3>1. Quiet(u) /\ path[u] # r.key
      BY <1>0, <2>1
    <3>. QED
      BY <2>1, <3>1 DEF Quiet
  <2>. QED
    BY <2>2 DEF CalmInv, Quiet
<1>. QED
  BY <1>1, <1>2, <1>3, <1>4, TasksAre DEF Next

-----------------------------------------------------------------------------
(* Jobs that raise                                                         *)

(* Why one task may end the worker.                                        *)
Foreseen(t) ==
  \/ t \in Movies /\ request[t].lastFrame /\ request[t].numFrames < Temporal
  \/ origin[t] \in Uploads
  \/ t \in Cuts /\ Oblong(request[origin[t]].character)
  \/ t \in Norms /\ Shortest(FrameSize(request[origin[t]].character)) < MinSide

LEMMA MovieFalls ==
  ASSUME FramesIInv, NEW t \in Movies,
         LatentsRaise(Video(t, request[t], tries[t]).count, request[t].lastFrame)
  PROVE  Foreseen(t)
<1> DEFINE r == request[t]
           try == tries[t]
<1>1. r \in Requests
  BY DEF FramesIInv, FramesTypeOK
<1>2. r.lastFrame /\ Video(t, r, try).count < 2
  BY DEF LatentsRaise
<1> HIDE DEF r, try
<1>3. Video(t, r, try).count = RoundNumFrames(r.numFrames)
  BY ONLY <1>1, VideoIs, Zenon
<1>4. r.numFrames \in Int
  BY <1>1, InputsAssumption
<1>5. r.numFrames < Temporal
  BY <1>2, <1>3, <1>4, FrameCount
<1>. QED
  BY <1>2, <1>5 DEF Foreseen, r

LEMMA PostFalls ==
  ASSUME FramesIInv, NEW t \in Post, stage[t] = "job", Refuses(t, input[t])
  PROVE  Foreseen(t)
<1> DEFINE f == input[t]
           r == request[origin[t]]
           size == FrameSize(r.character)
<1>1. CASE origin[t] \in Uploads
  BY <1>1 DEF Foreseen
<1>2. CASE origin[t] \in Movies
  <2>1. Visible(f) /\ Fits(t, f) /\ f.count > 0
    BY <1>2, TasksAre DEF FramesIInv, HeldInv
  <2>2. f.width = size.width /\ f.height = size.height
    BY <1>2, <2>1 DEF Fits
  <2>3. r \in Requests
    BY <1>2 DEF FramesIInv, FramesTypeOK
  <2>4. Refuses(t, f)
    OBVIOUS
  <2> HIDE DEF f, r
  <2>5. f.count # 0
    BY <2>1 DEF Visible
  <2>6. CASE t \in Cuts /\ RmbgRefuses(f)
    <3>1. Longest(size) > MaxHrSize
      BY <2>2, <2>6 DEF RmbgRefuses, Longest
    <3>2. Oblong(r.character)
      BY <2>3, <3>1, LongIsOblong
    <3>. QED
      BY <2>6, <3>2 DEF Foreseen, r
  <2>7. CASE t \in Norms /\ NormMapRefuses(f)
    <3>1. Shortest(size) < MinSide
      BY <2>2, <2>7 DEF NormMapRefuses, Shortest
    <3>. QED
      BY <2>7, <3>1 DEF Foreseen, r
  <2>. QED
    BY <2>4, <2>5, <2>6, <2>7 DEF Refuses
<1>3. origin[t] \in Origins
  BY DEF FramesIInv, OriginInv, FramesTypeOK, Started
<1>. QED
  BY <1>1, <1>2, <1>3 DEF Origins

LEMMA FallsNext ==
  ASSUME FramesIInv, Next
  PROVE  FallsAreForeseeable'
<1>1. UNCHANGED <<request>> /\ (fallen # {} => UNCHANGED <<fallen, origin>>)
  <2>1. ASSUME NEW t \in Task, DeliverMovie(t) \/ DeliverPost(t)
        PROVE  UNCHANGED <<request>> /\ (fallen # {} => UNCHANGED <<fallen, origin>>)
    BY <2>1 DEF DeliverMovie, DeliverPost, Deliver, At, Alive
  <2>2. ASSUME NEW t \in Task,
               RunMovie(t) \/ RunPost(t) \/ GiveUp(t) \/ GetAtlas(t) \/ GetMeta(t) \/ GetFails(t)
        PROVE  UNCHANGED <<request>> /\ (fallen # {} => UNCHANGED <<fallen, origin>>)
    BY <2>2 DEF RunMovie, RunPost, GiveUp, GetAtlas, GetMeta, GetFails, At, Alive
  <2>3. ASSUME NEW t \in Task, PutAtlas(t) \/ PutMeta(t) \/ PutFails(t)
        PROVE  UNCHANGED <<request>> /\ (fallen # {} => UNCHANGED <<fallen, origin>>)
    BY <2>3 DEF PutAtlas, PutMeta, PutFails, At, Alive
  <2>4. ASSUME NEW r \in flying, Land(r)
        PROVE  UNCHANGED <<request>> /\ (fallen # {} => UNCHANGED <<fallen, origin>>)
    BY <2>4 DEF Land, Disturb, tasks
  <2>. QED
    BY <2>1, <2>2, <2>3, <2>4, TasksAre DEF Next
<1>2. ASSUME NEW t \in fallen', fallen = {} PROVE Foreseen(t) /\ UNCHANGED origin
  <2>1. ASSUME NEW u \in Movies, RunMovie(u) PROVE Foreseen(t) /\ UNCHANGED origin
    <3>1. /\ fallen' # {} => fallen' = {u} /\
               LatentsRaise(Video(u, request[u], tries[u]).count, request[u].lastFrame)
          /\ UNCHANGED origin
      BY <1>2, <2>1 DEF RunMovie, Fall, Make, history
    <3>. QED
      BY <3>1, MovieFalls
  <2>2. ASSUME NEW u \in Post, RunPost(u) PROVE Foreseen(t) /\ UNCHANGED origin
    <3>1. /\ fallen' # {} => fallen' = {u} /\ stage[u] = "job" /\ Refuses(u, input[u])
          /\ UNCHANGED origin
      BY <1>2, <2>2 DEF RunPost, At, Fall, Make, history
    <3>. QED
      BY <3>1, PostFalls
  <2>3. ASSUME NEW u \in Task,
               DeliverMovie(u) \/ DeliverPost(u) \/ GiveUp(u) \/ GetAtlas(u) \/ GetMeta(u)
                 \/ GetFails(u) \/ PutAtlas(u) \/ PutMeta(u) \/ PutFails(u)
        PROVE  UNCHANGED fallen
    BY <2>3 DEF DeliverMovie, DeliverPost, Deliver, GiveUp, GetAtlas, GetMeta, GetFails, PutAtlas,
                PutMeta, PutFails
  <2>4. ASSUME NEW r \in flying, Land(r) PROVE UNCHANGED fallen
    BY <2>4 DEF Land, tasks
  <2>. QED
    BY <1>2, <2>1, <2>2, <2>3, <2>4, TasksAre DEF Next
<1>3. \A t \in fallen : Foreseen(t)
  BY DEF FramesIInv, FallsAreForeseeable, Foreseen
<1>4. ASSUME NEW t \in fallen' PROVE Foreseen(t)'
  <2>1. CASE fallen = {}
    BY <1>1, <1>2, <2>1 DEF Foreseen
  <2>2. CASE fallen # {}
    BY <1>1, <1>3, <2>2 DEF Foreseen
  <2>. QED
    BY <2>1, <2>2
<1>. QED
  BY <1>4 DEF FallsAreForeseeable, Foreseen

-----------------------------------------------------------------------------
(* The invariant                                                           *)

LEMMA FramesInit == Init => FramesIInv
<1>1. Init => FallsAreForeseeable
  BY DEF Init, FallsAreForeseeable
<1>. QED
  BY <1>1, TypesInit, OriginsInit, UploadsInit, HeldInit, SettledInit DEF FramesIInv

LEMMA FramesNext == FramesIInv /\ [Next]_vars => FramesIInv'
<1> SUFFICES ASSUME FramesIInv, [Next]_vars PROVE FramesIInv'
  OBVIOUS
<1>1. CASE Next
  BY <1>1, TypesNext, OriginsNext, UploadsNext, HeldNext, SettledNext, CalmNext, FallsNext
     DEF FramesIInv
<1>2. CASE UNCHANGED vars
  <2>1. FramesTypeOK' /\ OriginInv' /\ UploadInv'
    BY <1>2 DEF vars, store, tasks, history, FramesIInv, FramesTypeOK, OriginInv, UploadInv,
                Started, Fits
  <2>2. HeldInv'
    BY <1>2 DEF vars, store, tasks, history, FramesIInv, HeldInv, Fits, MadeMovie, MadePost
  <2>3. SettledInv' /\ CalmInv' /\ FallsAreForeseeable'
    BY <1>2 DEF vars, store, tasks, history, FramesIInv, SettledInv, CalmInv, FallsAreForeseeable
  <2>. QED
    BY <2>1, <2>2, <2>3 DEF FramesIInv
<1>. QED
  BY <1>1, <1>2

LEMMA FramesInvariance == Spec => []FramesIInv
BY FramesInit, FramesNext, PTL DEF Spec

-----------------------------------------------------------------------------
(* Theorems                                                                *)

(* Tasks, objects and puts on their way are what the store takes them for:  *)
(* metadata that is there has positive sides and a positive count.          *)
THEOREM FramesTypeCorrect == Spec => []FramesTypeOK
<1>1. FramesIInv => FramesTypeOK
  BY DEF FramesIInv
<1>. QED
  BY <1>1, FramesInvariance, PTL

(* A job ends the worker only for reasons the request or an upload shows,   *)
(* whatever the limits of the pipelines.                                   *)
THEOREM JobsFallForeseeably == Spec => []FallsAreForeseeable
<1>1. FramesIInv => FallsAreForeseeable
  BY DEF FramesIInv
<1>. QED
  BY <1>1, FramesInvariance, PTL

(* rmbg and norm_map give back one frame per frame, in order, for batches   *)
(* of any size and sets of any number of frames.                           *)
THEOREM BatchesKeepFrames == Spec => []FramePerFrame
<1>1. FramesIInv => FramePerFrame
  <2> SUFFICES ASSUME FramesIInv, NEW t \in Post, output[t] # None
               PROVE  /\ output[t].count = input[t].count
                      /\ \A k \in 1 .. input[t].count :
                           LET before == Shown(input[t])[k].at
                               after == Shown(output[t])[k].at
                           IN \A p \in DOMAIN before : after[p] = <<t, before[p]>>
    BY DEF FramePerFrame
  <2> DEFINE f == input[t]
             g == FromImages(Worked(Shown(f), t), f.width, f.height)
  <2>1. output[t] = g /\ Visible(f)
    BY TasksAre DEF FramesIInv, HeldInv, MadePost
  <2> HIDE DEF f
  <2>2. g.count = f.count /\ Shown(g) = [k \in 1 .. f.count |-> WorkedOne(Shown(f)[k], t)]
    BY <2>1, PostShows
  <2> HIDE DEF g
  <2>3. ASSUME NEW k \in 1 .. f.count
        PROVE  \A p \in DOMAIN Shown(f)[k].at : Shown(g)[k].at[p] = <<t, Shown(f)[k].at[p]>>
    <3> DEFINE x == Shown(f)[k]
    <3>1. x = Sized(x, f.width, f.height) /\ Shown(g)[k] = WorkedOne(x, t)
      BY <2>1, <2>2, ShownAre
    <3> HIDE DEF x
    <3>2. WorkedOne(x, t).at = [p \in DOMAIN x.at |-> <<t, x.at[p]>>]
      BY <3>1 DEF WorkedOne, Sized
    <3>. QED
      BY <3>1, <3>2 DEF x
  <2>. QED
    BY <2>1, <2>2, <2>3 DEF f
<1>. QED
  BY <1>1, FramesInvariance, PTL

(* A video that was trimmed starts and ends with frames that are alike, at  *)
(* least a period apart, and shows those between them in order.             *)
THEOREM TrimmedVideosLoop == Spec => []LoopsMeet
<1>1. FramesIInv => LoopsMeet
  <2> SUFFICES ASSUME FramesIInv, NEW t \in Movies, output[t] # None,
                      Len(Shown(output[t])) < RoundNumFrames(request[t].numFrames)
               PROVE  LET shown == Shown(output[t])
                          first == FrameOf(shown[1])
                          last == FrameOf(shown[Len(shown)])
                      IN /\ last - first >= MinPeriod
                         /\ request[t].sims[tries[t]][first - 1, last - 1] >= MinStitch
                         /\ \A k \in DOMAIN shown : FrameOf(shown[k]) = first + k - 1
    BY DEF LoopsMeet
  <2> DEFINE f == output[t]
             r == request[t]
             try == tries[t]
             sim == r.sims[try]
             size == FrameSize(r.character)
             video == Video(t, r, try)
             shown == Shown(f)
  <2>1. MadeFrom(t, r, try, f) /\ r \in Requests
    BY TasksAre DEF FramesIInv, FramesTypeOK, HeldInv, MadeMovie
  <2>2. Len(shown) < RoundNumFrames(r.numFrames)
    OBVIOUS
  <2> HIDE DEF f, r, try
  <2>3. /\ video.count = RoundNumFrames(r.numFrames) /\ Visible(video)
    BY ONLY <2>1, VideoIs, Zenon
  <2>4. f # video
    <3>1. Len(Shown(video)) = video.count /\ video.count \in Nat
      BY <2>3, ShownAre DEF Visible
    <3> HIDE DEF video
    <3>. QED
      BY <2>2, <2>3, <3>1
  <2>5. PICK p \in Candidates(sim, video.count) : f = Loop(video, p)
    BY <2>1, <2>4 DEF MadeFrom
  <2>6. Closed(t, try, size, sim, p, f) /\ size.width \in Nat \ {0} /\ size.height \in Nat \ {0}
    BY <2>1, <2>5, LoopShows, FrameSizeIsPositive
  <2> DEFINE a == p[1]
             b == p[2]
             len == b - a + 1
  <2>7. a \in Nat /\ b \in Nat /\ b - a >= MinPeriod
    BY <2>6 DEF Closed
  <2>8. sim[a, b] >= MinStitch /\ shown = [k \in 1 .. len |-> Picture(t, try, a + k, size)]
    BY <2>6 DEF Closed
  <2> HIDE DEF size, sim, video, shown, a, b
  <2>9. len \in Nat \ {0} /\ len = b - a + 1
    BY <2>7, CyclesAssumption
  <2> HIDE DEF len
  <2>10. ASSUME NEW k \in 1 .. len PROVE FrameOf(shown[k]) = a + k
    <3> DEFINE x == a + k
    <3>1. shown[k] = Picture(t, try, x, size)
      BY <2>8
    <3> HIDE DEF x
    <3>2. <<0, 0>> \in Pixels(size.width, size.height)
      BY <2>6 DEF Pixels
    <3>3. Picture(t, try, x, size).at[<<0, 0>>] = <<t, try, x, <<0, 0>>>>
      BY <3>2 DEF Picture
    <3>. QED
      BY <3>1, <3>3 DEF FrameOf, x
  <2>11. DOMAIN shown = 1 .. len /\ Len(shown) = len
    <3>1. shown \in [1 .. len -> { shown[k] : k \in 1 .. len }]
      BY <2>8
    <3>. QED
      BY <2>8, <2>9, <3>1, SequenceOf
  <2>12. FrameOf(shown[1]) = a + 1 /\ FrameOf(shown[len]) = a + len
    BY <2>9, <2>10
  <2> DEFINE first == FrameOf(shown[1])
             last == FrameOf(shown[Len(shown)])
  <2>13. first = a + 1 /\ last = b + 1
    BY <2>7, <2>9, <2>11, <2>12
  <2> HIDE DEF first, last
  <2>14. last - first >= MinPeriod /\ first - 1 = a /\ last - 1 = b
    BY <2>7, <2>13, CyclesAssumption
  <2>15. \A k \in DOMAIN shown : FrameOf(shown[k]) = first + k - 1
    BY <2>7, <2>10, <2>11, <2>13
  <2>16. sim[first - 1, last - 1] >= MinStitch
    BY <2>8, <2>14
  <2>. QED
    BY <2>14, <2>15, <2>16 DEF first, last, shown, f, sim, r, try
<1>. QED
  BY <1>1, FramesInvariance, PTL

(* Only the second read of a get gives a task its input, and its job.       *)
LEMMA OnlyGetMetaReads ==
  ASSUME FramesIInv, Next, NEW t \in Post,
         \/ input[t] = None /\ input'[t] # None
         \/ stage[t] = "get_meta" /\ stage'[t] = "job"
  PROVE  GetMeta(t)
<1> USE DEF FramesIInv
<1> DEFINE Idle == (input[t] = None => input'[t] = None)
                   /\ (stage[t] = "get_meta" => stage'[t] # "job")
<1>1. ASSUME NEW u \in Task,
             DeliverMovie(u) \/ DeliverPost(u) \/ RunMovie(u) \/ RunPost(u) \/ GiveUp(u)
               \/ GetAtlas(u) \/ GetFails(u) \/ PutAtlas(u) \/ PutMeta(u) \/ PutFails(u)
      PROVE  input[t] = None => input'[t] = None
  <2>1. CASE DeliverMovie(u) \/ DeliverPost(u)
    BY <2>1 DEF DeliverMovie, DeliverPost, Deliver
  <2>2. CASE RunMovie(u) \/ RunPost(u) \/ GiveUp(u)
    BY <2>2, TasksAre DEF RunMovie, RunPost, GiveUp, Fall, Make, Leave, FramesTypeOK
  <2>3. CASE GetAtlas(u) \/ GetFails(u)
    BY <2>3, TasksAre DEF GetAtlas, GetFails, Leave, FramesTypeOK
  <2>4. CASE PutAtlas(u) \/ PutMeta(u) \/ PutFails(u)
    BY <2>4, TasksAre DEF PutAtlas, PutMeta, PutFails, Leave, FramesTypeOK
  <2>. QED
    BY <1>1, <2>1, <2>2, <2>3, <2>4
<1>2. ASSUME NEW u \in Task,
             DeliverMovie(u) \/ DeliverPost(u) \/ RunMovie(u) \/ RunPost(u) \/ GiveUp(u)
               \/ GetAtlas(u) \/ GetFails(u) \/ PutAtlas(u) \/ PutMeta(u) \/ PutFails(u)
      PROVE  stage[t] = "get_meta" => stage'[t] # "job"
  <2>1. CASE DeliverMovie(u) \/ DeliverPost(u)
    BY <2>1, TasksAre DEF DeliverMovie, DeliverPost, Deliver, At, Goto, FramesTypeOK
  <2>2. CASE RunMovie(u) \/ RunPost(u) \/ GiveUp(u)
    BY <2>2, TasksAre DEF RunMovie, RunPost, GiveUp, Fall, Make, Leave, Goto, FramesTypeOK
  <2>3. CASE GetAtlas(u) \/ GetFails(u)
    BY <2>3, TasksAre DEF GetAtlas, GetFails, Leave, Goto, FramesTypeOK
  <2>4. CASE PutAtlas(u) \/ PutMeta(u) \/ PutFails(u)
    BY <2>4, TasksAre DEF PutAtlas, PutMeta, PutFails, Leave, Goto, FramesTypeOK
  <2>. QED
    BY <1>2, <2>1, <2>2, <2>3, <2>4
<1>3. ASSUME NEW u \in Post, u # t, GetMeta(u) PROVE Idle
  BY <1>3, TasksAre DEF GetMeta, Goto, FramesTypeOK
<1>4. ASSUME NEW r \in flying, Land(r) PROVE Idle
  BY <1>4 DEF Land, tasks
<1>. QED
  BY <1>1, <1>2, <1>3, <1>4, TasksAre DEF Next

(* A read that no save of its key overlaps, after a save that left no put   *)
(* behind, finds the very frames that were saved.                          *)
THEOREM CalmReadsFindWhatWasSaved == Spec => CalmReadsAreExact
<1>1. ASSUME FramesIInv, [Next]_vars, NEW t \in Post,
             input[t] = None, input'[t] # None, t \in calm
      PROVE  Shown(input'[t]) = Shown(saved[path[t]])
  <2>1. GetMeta(t)
    <3>1. ~UNCHANGED vars
      BY <1>1 DEF vars, tasks
    <3>. QED
      BY <1>1, <3>1, OnlyGetMetaReads
  <2> DEFINE k == path[t]
             f == saved[k]
  <2>2. stage[t] = "get_meta" /\ input'[t] = ToFrames(got[t], metas[k])
    BY <1>1, <2>1, TasksAre DEF GetMeta, At, FramesIInv, FramesTypeOK
  <2>3. k \in settled /\ stage[k] # "put_meta" /\ got[t] = AtlasToSave(f)
    BY <1>1, <2>2 DEF FramesIInv, CalmInv
  <2>4. Visible(f) /\ metas[k] = MetaToSave(f)
    BY <1>1, <2>3 DEF FramesIInv, SettledInv
  <2> HIDE DEF k, f
  <2>5. Shown(ToFrames(AtlasToSave(f), MetaToSave(f))) = Shown(f)
    BY <2>4, StoredShowsTheSame
  <2>6. Shown(input'[t]) = Shown(f)
    BY <2>2, <2>3, <2>4, <2>5
  <2>. QED
    BY <2>6 DEF f, k
<1>2. FramesIInv /\ [Next]_vars =>
        [\A t \in Post : input[t] = None /\ input'[t] # None /\ t \in calm =>
           Shown(input'[t]) = Shown(saved[path[t]])]_vars
  BY <1>1
<1>. QED
  BY <1>2, FramesInvariance, PTL DEF Spec, CalmReadsAreExact

(* Once a task has answered with a path, a get of it never lacks an object, *)
(* whatever later deliveries of the task do.                               *)
THEOREM AnswersStayReadable == Spec => AnsweredIsReadable
<1>1. ASSUME FramesIInv, [Next]_vars, NEW t \in Post,
             path[t] \in Task, stage[t] = "get_meta", stage'[t] = "job"
      PROVE  metas[path[t]] # None /\ input'[t].count = metas[path[t]].count
  <2>1. GetMeta(t)
    <3>1. ~UNCHANGED vars
      BY <1>1 DEF vars, tasks
    <3>. QED
      BY <1>1, <3>1, OnlyGetMetaReads
  <2>2. input'[t] = ToFrames(got[t], metas[path[t]])
    BY <1>1, <2>1, TasksAre DEF GetMeta, FramesIInv, FramesTypeOK
  <2>. QED
    BY <1>1, <2>2, ReadIs
<1>2. FramesIInv /\ [Next]_vars =>
        [\A t \in Post :
           path[t] \in Task /\ stage[t] = "get_meta" /\ stage'[t] = "job" =>
             LET meta == metas[path[t]] IN
             /\ meta # None
             /\ input'[t].count = meta.count]_vars
  BY <1>1
<1>. QED
  BY <1>2, FramesInvariance, PTL DEF Spec, AnsweredIsReadable
=============================================================================
