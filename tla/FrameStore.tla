----------------------------- MODULE FrameStore -----------------------------
(***************************************************************************)
(* Frame sets on their way through tasks and the object storage: animate    *)
(* makes one and saves it, rmbg and norm_map read one, work on it in        *)
(* batches and save the result.  A save is two puts, a get two reads, each   *)
(* can fail or be canceled, and a put given up may still be carried out.     *)
(* A task may be delivered again, and then overwrites its own objects.       *)
(***************************************************************************)
EXTENDS Frames, Cycles, Sizes

CONSTANTS
  Movies,      \* animate tasks
  Cuts,        \* rmbg tasks
  Norms,       \* norm_map tasks
  Uploads,     \* atlases put there by others, without metadata
  Uploaded,    \* their images
  Requests,    \* what may be asked of an animate task, and (sims) how alike
               \* the frames are that the networks make at each delivery
  Batch,       \* batch_size of the two pipelines
  MaxTries,    \* bound: deliveries of each task
  MaxFlying    \* bound: puts given up and not carried out yet

ASSUME TasksAssumption ==
  /\ Movies \cap (Cuts \cup Norms) = {}
  /\ Uploads \cap (Movies \cup Cuts \cup Norms) = {}
  /\ None \notin Movies \cup Cuts \cup Norms \cup Uploads
  /\ Batch \in Nat \ {0}

(* A picture has an area, and the number of frames is a number.            *)
ASSUME InputsAssumption ==
  /\ \A k \in Uploads :
       Uploaded[k].width \in Nat \ {0} /\ Uploaded[k].height \in Nat \ {0}
  /\ \A r \in Requests :
       /\ r.character.width \in Nat \ {0} /\ r.character.height \in Nat \ {0}
       /\ r.numFrames \in Int

VARIABLES
  atlases,   \* objects <key>.png
  metas,     \* objects <key>.json
  flying,    \* puts given up by the client that the storage may still do
  stage,     \* the await a task is at
  tries,     \* deliveries of it so far
  request,   \* of an animate task
  path,      \* what a task reads, None before it is known
  got,       \* the atlas it has read
  input,     \* the frames it has read
  output,    \* the frames it has made
  fallen,    \* tasks whose job raised and ended the worker
  saved,     \* history: the frames of the last save that was completed
  settled,   \* history: keys whose last save no failed put could disturb
  calm,      \* history: tasks whose read began after such a save and met no other
  origin     \* history: the animation or upload a task's frames come from

store == <<atlases, metas, flying>>
tasks == <<stage, tries, request, path, got, input, output, fallen>>
history == <<saved, settled, calm, origin>>
vars == <<store, tasks, history>>

Post == Cuts \cup Norms
Task == Movies \cup Post
Key == Task \cup Uploads

Init ==
  /\ atlases = [k \in Key |-> IF k \in Uploads THEN Uploaded[k] ELSE None]
  /\ metas = [k \in Key |-> None]
  /\ flying = {}
  /\ stage = [t \in Task |-> "ready"]
  /\ tries = [t \in Task |-> 0]
  /\ request \in [Movies -> Requests]
  /\ path = [t \in Task |-> None]
  /\ got = [t \in Task |-> None]
  /\ input = [t \in Task |-> None]
  /\ output = [t \in Task |-> None]
  /\ fallen = {}
  /\ saved = [k \in Key |-> None]
  /\ settled = {}
  /\ calm = {}
  /\ origin = [t \in Task |-> IF t \in Movies THEN t ELSE None]

-----------------------------------------------------------------------------
(* What the jobs compute.                                                  *)

(* A video: numFrames pictures of the size that fits the character.        *)
Picture(t, try, k, size) ==
  [width |-> size.width, height |-> size.height,
   at |-> [p \in Pixels(size.width, size.height) |-> <<t, try, k, p>>]]

Video(t, r, try) ==
  LET size == FrameSize(r.character) IN
  FromImages([k \in 1 .. RoundNumFrames(r.numFrames) |-> Picture(t, try, k, size)],
             size.width, size.height)

(* Deviation of Trim: the last frame of the cycle is left out.             *)
TrimWithoutEnd(video, sim) ==
  LET best == BestCycles(sim, video.count)
      cycle == CHOOSE p \in best : TRUE
  IN IF best = {} THEN video ELSE Slice(video, cycle[1], cycle[2], 1)

(* _trim_to_best_cycle                                                     *)
Trim(video, sim) ==
  LET best == BestCycles(sim, video.count)
      cycle == CHOOSE p \in best : TRUE
  IN IF best = {} THEN video ELSE Slice(video, cycle[1], cycle[2] + 1, 1)

(* Deviation of Batches: a last batch that is not full is left out.        *)
FullBatches(n) == n \div Batch

(* How many batches there are of n images.                                 *)
Batches(n) == (n + Batch - 1) \div Batch

(* What the networks make of an image.                                     *)
WorkedOne(image, t) ==
  [image EXCEPT !.at = [p \in DOMAIN image.at |-> <<t, image.at[p]>>]]

(* The images start + 1 .. start + Batch, as far as there are so many.      *)
Chunk(images, start, t) ==
  [k \in 1 .. Smaller(Batch, Len(images) - start) |-> WorkedOne(images[start + k], t)]

(* One network call per batch, the results joined.                         *)
Worked(images, t) ==
  LET results[b \in 0 .. Batches(Len(images))] ==
        IF b = 0 THEN <<>> ELSE results[b - 1] \o Chunk(images, (b - 1) * Batch, t)
  IN results[Batches(Len(images))]

Refuses(t, f) ==
  \/ t \in Cuts /\ RmbgRefuses(f)
  \/ t \in Norms /\ NormMapRefuses(f)
  \/ f.count = 0

-----------------------------------------------------------------------------
Alive == fallen = {}

Goto(t, s) == stage' = [stage EXCEPT ![t] = s]

(* The task's function is left, and what it held is gone.                  *)
Leave(t, s) ==
  /\ Goto(t, s)
  /\ got' = [got EXCEPT ![t] = None]
  /\ input' = [input EXCEPT ![t] = None]
  /\ output' = [output EXCEPT ![t] = None]

At(t, s) == Alive /\ stage[t] = s

(* A delivery: the first one, or again after a failure or a restart.       *)
Deliver(t, next) ==
  /\ At(t, "ready") \/ At(t, "failed") \/ At(t, "answered")
  /\ tries[t] < MaxTries[t]
  /\ tries' = [tries EXCEPT ![t] = @ + 1]
  /\ Goto(t, next)
  /\ UNCHANGED <<store, request, got, input, output, fallen, saved, settled>>

DeliverMovie(t) == Deliver(t, "job") /\ UNCHANGED <<path, calm, origin>>

(* A client names a set that some task has answered with, or its own.      *)
Offered(t) == (Uploads \cup { k \in Task : saved[k] # None }) \ {t}

DeliverPost(t) ==
  /\ Deliver(t, "get_atlas")
  /\ \E k \in IF path[t] = None THEN Offered(t) ELSE {path[t]} :
       /\ path' = [path EXCEPT ![t] = k]
       /\ origin' = [origin EXCEPT ![t] = IF k \in Uploads THEN k ELSE origin[k]]
       /\ calm' = IF k \in settled /\ stage[k] # "put_meta" THEN calm \cup {t} ELSE calm \ {t}

(* get_frames: the atlas, whose absence is an error ...                    *)
GetAtlas(t) ==
  /\ At(t, "get_atlas")
  /\ IF atlases[path[t]] = None
     THEN Leave(t, "failed")
     ELSE /\ Goto(t, "get_meta")
          /\ got' = [got EXCEPT ![t] = atlases[path[t]]]
          /\ UNCHANGED <<input, output>>
  /\ UNCHANGED <<store, tries, request, path, fallen, history>>

(* ... and the metadata, whose absence is none.                            *)
GetMeta(t) ==
  /\ At(t, "get_meta")
  /\ input' = [input EXCEPT ![t] = ToFrames(got[t], metas[path[t]])]
  /\ got' = [got EXCEPT ![t] = None]
  /\ Goto(t, "job")
  /\ UNCHANGED <<store, tries, request, path, output, fallen, history>>

(* Deviation of GetFails: any error of the second read passes for absence. *)
GetFailsOpen(t) ==
  /\ \/ At(t, "get_atlas") /\ Leave(t, "failed")
     \/ /\ At(t, "get_meta")
        /\ Goto(t, "job")
        /\ input' = [input EXCEPT ![t] = ToFrames(got[t], None)]
        /\ UNCHANGED <<got, output>>
  /\ UNCHANGED <<store, tries, request, path, fallen, history>>

(* Any other error of a read, or a cancellation in it.                     *)
GetFails(t) ==
  /\ At(t, "get_atlas") \/ At(t, "get_meta")
  /\ Leave(t, "failed")
  /\ UNCHANGED <<store, tries, request, path, fallen, history>>

Fall(t) ==
  /\ fallen' = {t}
  /\ Leave(t, "failed")

Make(t, frames) ==
  /\ output' = [output EXCEPT ![t] = frames]
  /\ Goto(t, "put_atlas")
  /\ UNCHANGED <<fallen, got, input>>

RunMovie(t) ==
  /\ t \in Movies
  /\ At(t, "job")
  /\ LET r == request[t]
         video == Video(t, r, tries[t])
     IN IF LatentsRaise(video.count, r.lastFrame) THEN Fall(t)
        ELSE IF ~r.loop THEN Make(t, video)
        ELSE Make(t, Trim(video, r.sims[tries[t]]))
  /\ UNCHANGED <<store, tries, request, path, history>>

RunPost(t) ==
  /\ t \in Post
  /\ At(t, "job")
  /\ IF Refuses(t, input[t]) THEN Fall(t)
     ELSE Make(t, FromImages(Worked(Shown(input[t]), t), input[t].width, input[t].height))
  /\ UNCHANGED <<store, tries, request, path, history>>

(* The job, or the wait for it, is canceled.                               *)
GiveUp(t) ==
  /\ At(t, "job")
  /\ Leave(t, "failed")
  /\ UNCHANGED <<store, tries, request, path, fallen, history>>

-----------------------------------------------------------------------------
(* save_frames                                                             *)

Write(part, key, value) ==
  IF part = "atlas"
  THEN atlases' = [atlases EXCEPT ![key] = value] /\ UNCHANGED metas
  ELSE metas' = [metas EXCEPT ![key] = value] /\ UNCHANGED atlases

Disturb(key) ==
  /\ settled' = settled \ {key}
  /\ calm' = { t \in calm : path[t] # key }
  /\ UNCHANGED <<saved, origin>>

PutAtlas(t) ==
  /\ At(t, "put_atlas")
  /\ Write("atlas", t, AtlasToSave(output[t]))
  /\ Goto(t, "put_meta")
  /\ settled' = IF \E r \in flying : r.key = t THEN settled \ {t} ELSE settled \cup {t}
  /\ calm' = { u \in calm : path[u] # t }
  /\ UNCHANGED <<saved, origin>>
  /\ UNCHANGED <<flying, tries, request, path, got, input, output, fallen>>

PutMeta(t) ==
  /\ At(t, "put_meta")
  /\ Write("meta", t, MetaToSave(output[t]))
  /\ Leave(t, "answered")
  /\ saved' = [saved EXCEPT ![t] = output[t]]
  /\ calm' = { u \in calm : path[u] # t }
  /\ UNCHANGED <<flying, settled, origin, tries, request, path, fallen>>

(* A put raises or is canceled: it was carried out, or was not, or will be. *)
PutFails(t) ==
  /\ \E part \in {"atlas", "meta"} :
       /\ At(t, IF part = "atlas" THEN "put_atlas" ELSE "put_meta")
       /\ LET value == IF part = "atlas" THEN AtlasToSave(output[t]) ELSE MetaToSave(output[t])
          IN \/ Write(part, t, value) /\ UNCHANGED flying
             \/ /\ Cardinality(flying) < MaxFlying
                /\ flying' = flying \cup {[part |-> part, key |-> t, value |-> value]}
                /\ UNCHANGED <<atlases, metas>>
             \/ UNCHANGED store
  /\ Leave(t, "failed")
  /\ Disturb(t)
  /\ UNCHANGED <<tries, request, path, fallen>>

Land(r) ==
  /\ flying' = flying \ {r}
  /\ Write(r.part, r.key, r.value)
  /\ Disturb(r.key)
  /\ UNCHANGED tasks

Next ==
  \/ \E t \in Movies : DeliverMovie(t) \/ RunMovie(t)
  \/ \E t \in Post : DeliverPost(t) \/ GetAtlas(t) \/ GetMeta(t) \/ GetFails(t) \/ RunPost(t)
  \/ \E t \in Task : GiveUp(t) \/ PutAtlas(t) \/ PutMeta(t) \/ PutFails(t)
  \/ \E r \in flying : Land(r)

Spec == Init /\ [][Next]_vars

-----------------------------------------------------------------------------
(* Properties                                                              *)

(* A read that no save of its key overlaps, after a save that was completed *)
(* and left no put behind, finds the very frames that were saved: trimmed,  *)
(* stored in a new atlas or not, they come back in number, order and size.  *)
CalmReadsAreExact ==
  [][\A t \in Post :
       input[t] = None /\ input'[t] # None /\ t \in calm =>
         Shown(input'[t]) = Shown(saved[path[t]])]_vars

(* Once a task has answered with a path, a get of it never lacks an object, *)
(* whatever later deliveries of the task, failing or not, do to them: its   *)
(* frames are never taken for square ones.                                  *)
AnsweredIsReadable ==
  [][\A t \in Post :
       path[t] \in Task /\ stage[t] = "get_meta" /\ stage'[t] = "job" =>
         LET meta == metas[path[t]] IN
         /\ meta # None
         /\ input'[t].count = meta.count]_vars

(* A video trimmed to a loop starts and ends with frames that are alike, at *)
(* least a period apart, and shows all the frames between them in order:    *)
(* what the detection found in the whole video is what the slice shows.     *)
FrameOf(image) == image.at[<<0, 0>>][3]
LoopsMeet ==
  \A t \in Movies :
    LET shown == Shown(output[t])
        first == FrameOf(shown[1])
        last == FrameOf(shown[Len(shown)])
    IN output[t] # None /\ Len(shown) < RoundNumFrames(request[t].numFrames) =>
         /\ last - first >= MinPeriod
         /\ request[t].sims[tries[t]][first - 1, last - 1] >= MinStitch
         /\ \A k \in DOMAIN shown : FrameOf(shown[k]) = first + k - 1

(* rmbg and norm_map give back one frame per frame, in order, whatever the  *)
(* size of the last batch.                                                  *)
FramePerFrame ==
  \A t \in Post :
    output[t] # None =>
      /\ output[t].count = input[t].count
      /\ \A k \in 1 .. input[t].count :
           LET before == Shown(input[t])[k].at
               after == Shown(output[t])[k].at
           IN \A p \in DOMAIN before : after[p] = <<t, before[p]>>

(* What a character must be for its animation to be refused by rmbg: its    *)
(* sides so unequal that the longer side of the video exceeds the limit.    *)
Oblong(character) ==
  LET least == 2 * (MaxHrSize + ModValue) - 1 IN
  4 * MaxArea * Longest(character) >= least * least * Shortest(character)

(* A job ends the worker for reasons the request shows: a last frame asked  *)
(* of a clip of one frame, rmbg of an animation of an oblong character,     *)
(* norm_map of frames too small, or an upload that does not look like a      *)
(* strip of squares of a size the task takes.                               *)
FallsAreForeseeable ==
  \A t \in fallen :
    \/ t \in Movies /\ request[t].lastFrame /\ request[t].numFrames < Temporal
    \/ origin[t] \in Uploads
    \/ t \in Cuts /\ Oblong(request[origin[t]].character)
    \/ t \in Norms /\ Shortest(FrameSize(request[origin[t]].character)) < MinSide
=============================================================================
