---------------------------- MODULE PipelineFile ----------------------------
(***************************************************************************)
(* The pipeline file of the standalone mode: the schema of its tasks, what *)
(* parse makes of it, and what the services of app/ read and write for a   *)
(* task of each type.                                                      *)
(*                                                                         *)
(* A file is a record: whether it is a YAML mapping at all (readable), its *)
(* version, the inputs it declares (with a default or "none"), the inputs   *)
(* the command line specifies, and the sequence of its tasks.  A task has  *)
(* an id ("" when the file gives none), a type and the fields of its       *)
(* `inputs`; a field is what _to_task_input makes of the text found there. *)
(***************************************************************************)
EXTENDS Naturals, FiniteSets, Sequences, SequencesExt, TLC

-----------------------------------------------------------------------------
(* Fields: a text is a "number" or "words", for all that int() tells apart *)

Text(v) == [kind |-> "value", value |-> v]
FromPipeline(i) == [kind |-> "pipeline", input |-> i]
FromTask(id, output) == [kind |-> "link", task |-> id, output |-> output]
Null == [kind |-> "none"]
Unsupported == [kind |-> "other"]   \* a number with a fraction, a list

-----------------------------------------------------------------------------
(* Task types: the fields, the optional ones among them, the outputs       *)

AddTask ==
  [fields |-> {"character", "asset", "prompt", "negative_prompt"},
   outputs |-> {"character"}]
DeleteTask ==
  [fields |-> {"character", "prompt", "negative_prompt"},
   outputs |-> {"character"}]
StandTask ==
  [fields |-> {"character", "prompt", "pose", "negative_prompt"},
   outputs |-> {"character"}]
AnimateTask ==
  [fields |-> {"first_frame", "prompt", "last_frame", "num_frames", "loop"},
   outputs |-> {"frames"}]
RmbgTask == [fields |-> {"frames"}, outputs |-> {"frames"}]
NormMapTask == [fields |-> {"frames"}, outputs |-> {"frames"}]

TaskType ==
  [add |-> AddTask, delete |-> DeleteTask, stand |-> StandTask,
   animate |-> AnimateTask, rmbg |-> RmbgTask, norm_map |-> NormMapTask]

Optional == {"negative_prompt", "pose", "last_frame", "num_frames", "loop"}

(* The strict schema: known type, all required fields, no others, and a    *)
(* value where one is required.                                            *)
ValidTask(task) ==
  /\ task.type \in DOMAIN TaskType
  /\ LET fields == TaskType[task.type].fields
     IN  /\ DOMAIN task.inputs \subseteq fields
         /\ fields \ Optional \subseteq DOMAIN task.inputs
  /\ \A f \in DOMAIN task.inputs :
       /\ task.inputs[f].kind # "other"
       /\ task.inputs[f].kind = "none" => f \in Optional

(* TaskInputs.__iter__: the fields that have a value.                      *)
InputsOf(task) == { f \in DOMAIN task.inputs : task.inputs[f] # Null }

-----------------------------------------------------------------------------
(* parse                                                                   *)

AnonymousId(n) == "anonymous_" \o ToString(n)

(* A task without an id gets the next anonymous one.                       *)
IdOf(tasks, t) ==
  IF tasks[t].id # "" THEN tasks[t].id
  ELSE AnonymousId(Cardinality({ u \in 1 .. t : tasks[u].id = "" }))

DuplicateId(tasks) ==
  \E t \in DOMAIN tasks : \E u \in 1 .. t - 1 : IdOf(tasks, u) = IdOf(tasks, t)

(* Inputs without a default must be specified; undeclared ones may be.     *)
MissingInput(file) ==
  \E i \in DOMAIN file.declared :
    i \notin DOMAIN file.specified /\ file.declared[i] = "none"

(* What is specified prevails.                                             *)
MergedInputs(file) ==
  [i \in DOMAIN file.specified \cup DOMAIN file.declared |->
     IF i \in DOMAIN file.specified THEN file.specified[i] ELSE file.declared[i]]

ParseFails(file) ==
  \/ file.version # "v1"
  \/ \E t \in DOMAIN file.tasks : ~ValidTask(file.tasks[t])
  \/ DuplicateId(file.tasks)
  \/ MissingInput(file)

-----------------------------------------------------------------------------
(* References, as topsort looks them up                                    *)

Nowhere == 0

TasksCalled(tasks, id) == { t \in DOMAIN tasks : IdOf(tasks, t) = id }

(* The tasks an input refers to, or Nowhere when what it names is missing. *)
Referred(file, input) ==
  CASE input.kind = "pipeline" ->
         IF input.input \in DOMAIN MergedInputs(file) THEN {} ELSE {Nowhere}
    [] input.kind = "link" ->
         LET deps == TasksCalled(file.tasks, input.task)
         IN  IF \E t \in deps : input.output \in TaskType[file.tasks[t].type].outputs
             THEN deps ELSE {Nowhere}
    [] OTHER -> {}

(* The fields of a task whose reference topsort follows or refuses.        *)
LinkFields(file, task) ==
  { f \in InputsOf(task) : Referred(file, task.inputs[f]) # {} }

(* What a task refers to.  Values, and pipeline inputs that exist, put no   *)
(* order on tasks.                                                         *)
References(file, task) ==
  UNION { Referred(file, task.inputs[f]) : f \in LinkFields(file, task) }

-----------------------------------------------------------------------------
(* What the services do with the fields: the objects they fetch, in order,  *)
(* as pairs of a field and a part, and the field whose image they fetch    *)
(* last if it has a value.  A frame set is an atlas and its metadata.       *)

Image(field) == <<field, "image">>
FrameSet(field) == <<Image(field), <<field, "meta">>>>

AddService == [reads |-> <<Image("character"), Image("asset")>>, optional |-> "none"]
DeleteService == [reads |-> <<Image("character")>>, optional |-> "none"]
StandService == [reads |-> <<Image("character")>>, optional |-> "pose"]
AnimateService == [reads |-> <<Image("first_frame")>>, optional |-> "last_frame"]
RmbgService == [reads |-> FrameSet("frames"), optional |-> "none"]
NormMapService == [reads |-> FrameSet("frames"), optional |-> "none"]

Service ==
  [add |-> AddService, delete |-> DeleteService, stand |-> StandService,
   animate |-> AnimateService, rmbg |-> RmbgService, norm_map |-> NormMapService]

ReadsOf(task) ==
  LET service == Service[task.type]
  IN  IF service.optional \in InputsOf(task)
      THEN Append(service.reads, Image(service.optional))
      ELSE service.reads

(* The parts a task saves.                                                 *)
SavedParts(task) ==
  IF "frames" \in TaskType[task.type].outputs THEN <<"image", "meta">> ELSE <<"image">>

(* resolve: the text a field stands for; the output of a task is a path.   *)
Resolved(file, input) ==
  CASE input.kind = "value" -> input.value
    [] input.kind = "pipeline" -> MergedInputs(file)[input.input]
    [] OTHER -> "words"

(* to_animate_request: int() refuses what is no number.                    *)
RequestFails(file, task) ==
  /\ task.type = "animate"
  /\ "num_frames" \in InputsOf(task)
  /\ Resolved(file, task.inputs["num_frames"]) # "number"
=============================================================================
