-------------------------- MODULE MCLocalPipeline --------------------------
(***************************************************************************)
(* Three tasks.  The files considered: every graph of stand tasks with two *)
(* inputs that may be links (cycles, repeated links and links to nothing   *)
(* included), and a pipeline like the one of the README with every change   *)
(* of one or two of its parts.                                             *)
(***************************************************************************)
EXTENDS LocalPipeline

Names == <<"a", "b", "c">>

Sound3(tasks) ==
  [readable |-> TRUE, version |-> "v1", declared |-> [i \in {"in"} |-> "words"],
   specified |-> [i \in {} |-> "words"], tasks |-> tasks]

StandTaskOf(id, character, pose) ==
  [id |-> id, type |-> "stand",
   inputs |-> [character |-> character, prompt |-> Text("words"), pose |-> pose]]

(* No link, one that leads nowhere, or two that lead somewhere.            *)
GraphInputs ==
  { <<Text("words"), Null>>, <<FromTask("z", "character"), Null>> }
  \cup { <<FromTask(Names[t], "character"), FromTask(Names[u], "character")>> :
           <<t, u>> \in { p \in (1 .. 3) \X (1 .. 3) : p[1] =< p[2] } }

Graphs ==
  { Sound3([t \in 1 .. 3 |-> StandTaskOf(Names[t], g[t][1], g[t][2])]) :
      g \in [1 .. 3 -> GraphInputs] }

DeleteTaskOf(id) ==
  [id |-> id, type |-> "delete",
   inputs |-> [character |-> FromPipeline("in"), prompt |-> Text("words")]]
AddTaskOf(id) ==
  [id |-> id, type |-> "add",
   inputs |-> [character |-> Text("words"), asset |-> FromPipeline("in"),
               prompt |-> Text("words")]]
AnimateTaskOf(id, last, n) ==
  [id |-> id, type |-> "animate",
   inputs |-> [first_frame |-> FromTask("a", "character"), prompt |-> Text("words"),
               last_frame |-> last, num_frames |-> n]]
FramesTaskOf(id, type, frames) ==
  [id |-> id, type |-> type, inputs |-> [frames |-> frames]]
WrongTasks ==
  { [id |-> "c", type |-> "upscale", inputs |-> [frames |-> Text("words")]],
    [id |-> "c", type |-> "rmbg", inputs |-> [f \in {} |-> Null]],
    [id |-> "c", type |-> "rmbg", inputs |-> [frames |-> Null]],
    [id |-> "c", type |-> "rmbg", inputs |-> [frames |-> Unsupported]],
    [id |-> "c", type |-> "rmbg", inputs |-> [frames |-> Text("words"), loop |-> Null]] }

ThirdTasks ==
  WrongTasks \cup
  { FramesTaskOf(id, "rmbg", f) :
      id \in {"c", "b", "", "anonymous_1"},
      f \in { FromTask("b", "frames"), FromTask("a", "character"),
              FromTask("anonymous_2", "frames"), FromPipeline("out") } }

Chains ==
  { Sound3(<<first, AnimateTaskOf(middle, Null, Null), third>>) :
      first \in { DeleteTaskOf("a"), DeleteTaskOf("") }, middle \in {"b", "", "a"},
      third \in ThirdTasks }
  \cup
  { Sound3(<<first, AnimateTaskOf("b", last, Null),
            FramesTaskOf("c", "rmbg", FromTask("b", "frames"))>>) :
      first \in { DeleteTaskOf("a"), DeleteTaskOf("") },
      last \in { FromTask("a", "frames"), FromTask("anonymous_1", "character") } }
  \cup
  { Sound3(<<AddTaskOf("a"), AnimateTaskOf("b", FromTask("a", "character"), n),
            FramesTaskOf("c", type, FromTask("b", "frames"))>>) :
      n \in { Null, Text("words"), Text("number"), FromPipeline("in") },
      type \in {"rmbg", "norm_map"} }

BadHeads ==
  { [ Sound3(<<DeleteTaskOf("a"), AnimateTaskOf("b", Null, FromPipeline("n")),
               FramesTaskOf("c", "rmbg", FromTask("b", "frames"))>>)
      EXCEPT !.readable = r, !.version = v, !.declared = d, !.specified = s ] :
      r \in BOOLEAN, v \in {"v1", "v2"},
      d \in [{"in", "n"} -> {"none", "words", "number"}],
      s \in UNION { [names -> {"words", "number"}] : names \in SUBSET {"in", "n"} } }

MCFiles == Graphs \cup Chains \cup BadHeads
=============================================================================
