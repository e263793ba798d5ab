------------------------ MODULE LocalPipeline_proofs ------------------------
(***************************************************************************)
(* Proofs about LocalPipeline, for files of any number of tasks.           *)
(***************************************************************************)
EXTENDS LocalPipeline, FiniteSetTheorems, SequenceTheorems, WellFoundedInduction, TLAPS

PartName == {"image", "meta"}
FieldName == {"character", "asset", "pose", "first_frame", "last_frame", "frames", "none"}
Stages == {"none", "ticket", "reading", "waiting", "writing", "leaving"}

Distinct(s) == \A i, j \in 1 .. Len(s) : s[i] = s[j] => i = j

(* The tasks that come before the n-th of the result.                      *)
Before(n) == { result[j] : j \in 1 .. n - 1 }

Saved(t) ==
  \A p \in ToSet(SavedParts(file.tasks[t])) : <<t, p>> \in stored \cup torn

(* The types of the variables.  What is under way is a list of fields and   *)
(* parts to read, or of parts to write.                                    *)
LocalTypeOK ==
  /\ file \in Files
  /\ phase \in {"parsing", "sorting", "running"} \cup Ended
  /\ inDegree \in [Task -> Nat]
  /\ queue \in Seq(Task)
  /\ result \in Seq(Task)
  /\ index \in Nat \ {0}
  /\ stage \in Stages
  /\ stage = "reading" => todo \in Seq(FieldName \X PartName)
  /\ stage = "writing" => todo \in Seq(PartName)
  /\ stage \notin {"reading", "writing"} => todo = <<>>
  /\ attempt \in 0 .. Attempts
  /\ lost \in BOOLEAN /\ gone \in BOOLEAN
  /\ resources \subseteq Task
  /\ stored \subseteq Task \X PartName
  /\ torn \subseteq Task \X PartName
  /\ late \subseteq Task \X PartName
  /\ cancelled \in BOOLEAN

(* Kahn's algorithm: a task counts the references to tasks that have no     *)
(* place yet, and has one itself, or is queued, when it counts none.        *)
KahnInv ==
  phase = "sorting" =>
    /\ Distinct(queue) /\ ToSet(queue) \cap ToSet(result) = {}
    /\ \A t \in Task :
         /\ inDegree[t] = Cardinality(Refers[t] \ ToSet(result))
         /\ t \in ToSet(result) \cup ToSet(queue) <=> inDegree[t] = 0

(* Each task has its place behind those it refers to.                      *)
OrderInv ==
  /\ Distinct(result)
  /\ \A i \in 1 .. Len(result) : Refers[result[i]] \subseteq Before(i)

PhaseInv ==
  /\ phase = "parsing" => result = <<>>
  /\ phase \in {"sorting", "running"} =>
       ~Malformed /\ \A t \in Task : Nowhere \notin Refers[t]
  /\ phase = "running" => Len(result) = Size
  /\ phase \in {"parsing", "sorting"} => index = 1
  /\ phase # "running" => stage = "none"

(* The loop over the tasks records the artifacts in order.                 *)
LoopInv ==
  /\ resources = Before(index)
  /\ phase = "running" =>
       /\ index =< Size + 1
       /\ stage # "none" => index =< Size

StoreInv ==
  /\ \A t \in resources : Saved(t)
  /\ stage = "leaving" => Saved(Current)
  /\ stage = "writing" =>
       /\ todo # <<>>
       /\ \A p \in ToSet(SavedParts(CurrentTask)) :
            <<Current, p>> \in stored \cup torn \/ p \in ToSet(todo)
  /\ stage = "reading" => \A n \in DOMAIN todo : todo[n][1] \in InputsOf(CurrentTask)

LocalIInv ==
  /\ LocalTypeOK
  /\ KahnInv
  /\ OrderInv
  /\ PhaseInv
  /\ LoopInv
  /\ StoreInv

-----------------------------------------------------------------------------
(* Sequences without duplicates                                            *)

(* The elements of a sequence are as many as it is long.                   *)
LEMMA DistinctCount ==
  ASSUME NEW S, NEW s \in Seq(S), Distinct(s)
  PROVE  /\ IsFiniteSet(ToSet(s))
         /\ Cardinality(ToSet(s)) = Len(s)
<1>1. Len(s) \in Nat /\ DOMAIN s = 1 .. Len(s)
  BY LenProperties
<1>2. s \in Bijection(1 .. Len(s), ToSet(s))
  <2>1. s \in [1 .. Len(s) -> ToSet(s)]
    BY <1>1 DEF ToSet
  <2>2. s \in Injection(1 .. Len(s), ToSet(s))
    BY <2>1 DEF Distinct, Injection, IsInjective
  <2>3. s \in Surjection(1 .. Len(s), ToSet(s))
    BY <1>1, <2>1 DEF ToSet, Surjection
  <2>. QED
    BY <2>2, <2>3 DEF Bijection
<1>3. IsFiniteSet(1 .. Len(s)) /\ Cardinality(1 .. Len(s)) = Len(s)
  BY <1>1, FS_Interval
<1>. QED
  BY <1>2, <1>3, FS_Bijection DEF ExistsBijection

LEMMA ConcatDistinct ==
  ASSUME NEW S, NEW s \in Seq(S), NEW u \in Seq(S),
         Distinct(s), Distinct(u), ToSet(s) \cap ToSet(u) = {}
  PROVE  /\ s \o u \in Seq(S)
         /\ Distinct(s \o u)
         /\ ToSet(s \o u) = ToSet(s) \cup ToSet(u)
<1>1. /\ Len(s) \in Nat /\ DOMAIN s = 1 .. Len(s)
      /\ Len(u) \in Nat /\ DOMAIN u = 1 .. Len(u)
  BY LenProperties
<1> DEFINE c == s \o u
<1>2. /\ c \in Seq(S) /\ Len(c) = Len(s) + Len(u) /\ DOMAIN c = 1 .. Len(s) + Len(u)
      /\ \A i \in 1 .. Len(s) + Len(u) :
           c[i] = IF i =< Len(s) THEN s[i] ELSE u[i - Len(s)]
  BY ConcatProperties, LenProperties
<1> HIDE DEF c
<1>3. /\ \A i \in 1 .. Len(s) : s[i] \in ToSet(s)
      /\ \A i \in 1 .. Len(u) : u[i] \in ToSet(u)
  BY <1>1 DEF ToSet
<1>4. \A i \in 1 .. Len(s) : c[i] = s[i]
  BY <1>1, <1>2
<1>5. \A i \in 1 .. Len(u) : c[Len(s) + i] = u[i] /\ Len(s) + i \in 1 .. Len(s) + Len(u)
  BY <1>1, <1>2
<1>6. ToSet(c) = ToSet(s) \cup ToSet(u)
  <2>1. ToSet(c) \subseteq ToSet(s) \cup ToSet(u)
    <3> SUFFICES ASSUME NEW i \in 1 .. Len(s) + Len(u)
                 PROVE  c[i] \in ToSet(s) \cup ToSet(u)
      BY <1>2 DEF ToSet
    <3>1. CASE i =< Len(s)
      BY <1>1, <1>2, <1>3, <3>1
    <3>2. CASE i > Len(s)
      <4>1. i - Len(s) \in 1 .. Len(u) /\ c[i] = u[i - Len(s)]
        BY <1>1, <1>2, <3>2
      <4>. QED
        BY <1>3, <4>1
    <3>. QED
      BY <1>1, <3>1, <3>2
  <2>2. ToSet(s) \subseteq ToSet(c)
    BY <1>1, <1>2, <1>4 DEF ToSet
  <2>3. ToSet(u) \subseteq ToSet(c)
    BY <1>1, <1>2, <1>5 DEF ToSet
  <2>. QED
    BY <2>1, <2>2, <2>3
<1>7. Distinct(c)
  <2> SUFFICES ASSUME NEW i \in 1 .. Len(s) + Len(u), NEW j \in 1 .. Len(s) + Len(u),
                      c[i] = c[j]
               PROVE  i = j
    BY <1>2 DEF Distinct
  <2>1. CASE i =< Len(s) /\ j =< Len(s)
    BY <1>1, <1>2, <2>1 DEF Distinct
  <2>2. CASE i > Len(s) /\ j > Len(s)
    <3>1. i - Len(s) \in 1 .. Len(u) /\ j - Len(s) \in 1 .. Len(u)
      BY <1>1, <2>2
    <3>2. u[i - Len(s)] = u[j - Len(s)]
      BY <1>1, <1>2, <2>2
    <3>3. i - Len(s) = j - Len(s)
      BY <3>1, <3>2 DEF Distinct
    <3>. QED
      BY <1>1, <3>3
  <2>3. CASE i =< Len(s) /\ j > Len(s)
    BY <1>1, <1>2, <1>3, <2>3
  <2>4. CASE i > Len(s) /\ j =< Len(s)
    BY <1>1, <1>2, <1>3, <2>4
  <2>. QED
    BY <1>1, <2>1, <2>2, <2>3, <2>4
<1>. QED
  BY <1>2, <1>6, <1>7 DEF c

LEMMA HeadTail ==
  ASSUME NEW S, NEW s \in Seq(S), s # <<>>
  PROVE  /\ Head(s) \in S /\ Tail(s) \in Seq(S)
         /\ ToSet(s) = {Head(s)} \cup ToSet(Tail(s))
         /\ \A n \in DOMAIN Tail(s) : n + 1 \in DOMAIN s /\ Tail(s)[n] = s[n + 1]
         /\ Len(s) = 1 => ToSet(Tail(s)) = {}
         /\ Tail(s) = <<>> => Len(s) = 1
<1>1. /\ Len(s) \in Nat \ {0} /\ DOMAIN s = 1 .. Len(s) /\ Head(s) = s[1]
      /\ Tail(s) \in Seq(S) /\ Len(Tail(s)) = Len(s) - 1
      /\ DOMAIN Tail(s) = 1 .. Len(s) - 1
      /\ \A n \in 1 .. Len(s) - 1 : Tail(s)[n] = s[n + 1]
  BY HeadTailProperties, LenProperties, EmptySeq
<1>2. ToSet(s) = {Head(s)} \cup ToSet(Tail(s))
  <2>1. ASSUME NEW i \in 1 .. Len(s), i # 1 PROVE s[i] \in ToSet(Tail(s))
    <3>1. i - 1 \in 1 .. Len(s) - 1 /\ Tail(s)[i - 1] = s[i]
      BY <1>1, <2>1
    <3>. QED
      BY <1>1, <3>1 DEF ToSet
  <2>2. ToSet(s) \subseteq {Head(s)} \cup ToSet(Tail(s))
    BY <1>1, <2>1 DEF ToSet
  <2>3. ToSet(Tail(s)) \subseteq ToSet(s) /\ Head(s) \in ToSet(s)
    BY <1>1 DEF ToSet
  <2>. QED
    BY <2>2, <2>3
<1>3. Len(s) = 1 => ToSet(Tail(s)) = {}
  BY <1>1 DEF ToSet
<1>4. Head(s) \in S
  BY <1>1, ElementOfSeq
<1>5. Tail(s) = <<>> => Len(s) = 1
  BY <1>1, EmptySeq
<1>6. \A n \in DOMAIN Tail(s) : n + 1 \in DOMAIN s /\ Tail(s)[n] = s[n + 1]
  BY <1>1
<1>. QED
  BY <1>1, <1>2, <1>3, <1>4, <1>5, <1>6

LEMMA HeadDistinct ==
  ASSUME NEW S, NEW s \in Seq(S), s # <<>>, Distinct(s)
  PROVE  Distinct(Tail(s)) /\ Head(s) \notin ToSet(Tail(s))
<1>1. /\ Len(s) \in Nat \ {0} /\ Head(s) = s[1]
      /\ Len(Tail(s)) = Len(s) - 1 /\ DOMAIN Tail(s) = 1 .. Len(s) - 1
      /\ \A n \in 1 .. Len(s) - 1 : Tail(s)[n] = s[n + 1]
  BY HeadTailProperties, LenProperties, EmptySeq
<1>2. \A n \in 1 .. Len(s) - 1 : n + 1 \in 1 .. Len(s) /\ n + 1 # 1
  BY <1>1
<1>3. Head(s) \notin ToSet(Tail(s))
  BY <1>1, <1>2 DEF ToSet, Distinct
<1>4. Distinct(Tail(s))
  <2> SUFFICES ASSUME NEW i \in 1 .. Len(s) - 1, NEW j \in 1 .. Len(s) - 1,
                      Tail(s)[i] = Tail(s)[j]
               PROVE  i = j
    BY <1>1 DEF Distinct
  <2>1. i + 1 = j + 1
    BY <1>1, <1>2 DEF Distinct
  <2>. QED
    BY <1>1, <2>1
<1>. QED
  BY <1>3, <1>4

LEMMA AppendDistinct ==
  ASSUME NEW S, NEW s \in Seq(S), NEW e \in S, Distinct(s), e \notin ToSet(s)
  PROVE  /\ Append(s, e) \in Seq(S) /\ Len(Append(s, e)) = Len(s) + 1
         /\ Distinct(Append(s, e))
         /\ ToSet(Append(s, e)) = ToSet(s) \cup {e}
         /\ \A i \in 1 .. Len(s) : Append(s, e)[i] = s[i]
         /\ Append(s, e)[Len(s) + 1] = e
<1> DEFINE a == Append(s, e)
<1>1. /\ Len(s) \in Nat /\ DOMAIN s = 1 .. Len(s)
      /\ a \in Seq(S) /\ Len(a) = Len(s) + 1 /\ DOMAIN a = 1 .. Len(s) + 1
      /\ \A i \in 1 .. Len(s) : a[i] = s[i]
      /\ a[Len(s) + 1] = e
  BY AppendProperties, LenProperties
<1> HIDE DEF a
<1>2. ToSet(a) = ToSet(s) \cup {e}
  <2>1. ToSet(a) \subseteq ToSet(s) \cup {e}
    BY <1>1 DEF ToSet
  <2>2. ToSet(s) \subseteq ToSet(a) /\ e \in ToSet(a)
    BY <1>1 DEF ToSet
  <2>. QED
    BY <2>1, <2>2
<1>3. \A i \in 1 .. Len(s) : s[i] # e
  BY <1>1 DEF ToSet
<1>4. Distinct(a)
  BY <1>1, <1>3 DEF Distinct
<1>. QED
  BY <1>1, <1>2, <1>4 DEF a

-----------------------------------------------------------------------------
(* Tasks and their references                                              *)

LEMMA TasksFinite ==
  /\ IsFiniteSet(Task) /\ Cardinality(Task) = Size
  /\ \A S \in SUBSET Task : IsFiniteSet(S) /\ Cardinality(S) \in Nat
<1>1. IsFiniteSet(Task) /\ Cardinality(Task) = Size
  BY PipelineAssumption, FS_Interval DEF Task
<1>. QED
  BY <1>1, FS_Subset, FS_CardinalityType

LEMMA InOrderFacts ==
  ASSUME NEW S \in SUBSET Task, NEW s \in InOrder(S)
  PROVE  s \in Seq(Task) /\ Distinct(s) /\ ToSet(s) = S
<1>1. Cardinality(S) \in Nat
  BY TasksFinite
<1>2. /\ s \in [1 .. Cardinality(S) -> S] /\ ToSet(s) = S
      /\ \A i, j \in DOMAIN s : i < j => s[i] < s[j]
  BY DEF InOrder
<1>3. s \in Seq(Task) /\ DOMAIN s = 1 .. Len(s)
  BY <1>1, <1>2, SeqDef
<1>4. \A i \in DOMAIN s : s[i] \in Int
  <2>1. \A i \in DOMAIN s : s[i] \in Task
    BY <1>2
  <2>2. Task \subseteq Int
    BY PipelineAssumption DEF Task
  <2>. QED
    BY <2>1, <2>2
<1>5. Distinct(s)
  <2> SUFFICES ASSUME NEW i \in DOMAIN s, NEW j \in DOMAIN s, s[i] = s[j]
               PROVE  i = j
    BY <1>3 DEF Distinct
  <2>1. i \in Int /\ j \in Int
    BY <1>1, <1>2
  <2>2. ~(i < j) /\ ~(j < i)
    BY <1>2, <1>4
  <2>. QED
    BY <2>1, <2>2
<1>. QED
  BY <1>2, <1>3, <1>5

LEMMA ReferredType ==
  ASSUME file \in Files, NEW input
  PROVE  Referred(file, input) \subseteq Task \cup {Nowhere}
<1>1. TasksCalled(file.tasks, input.task) \subseteq Task
  BY PipelineAssumption DEF TasksCalled, Task
<1>. QED
  BY <1>1 DEF Referred

LEMMA RefersType ==
  ASSUME file \in Files
  PROVE  Refers \in [Task -> SUBSET (Task \cup {Nowhere})]
BY ReferredType DEF Refers, References

(* What a field links to is among what its task refers to.                 *)
LEMMA FieldRefers ==
  ASSUME NEW t \in Task, NEW f \in InputsOf(file.tasks[t])
  PROVE  Referred(file, file.tasks[t].inputs[f]) \subseteq Refers[t]
BY DEF Refers, References, LinkFields

(* parse refuses the malformed files: its checks, made one after the other, *)
(* are the rules of the format.                                            *)
LEMMA ParseIsExact ==
  ASSUME file \in Files
  PROVE  Malformed <=> ~file.readable \/ ParseFails(file)
<1>1. DOMAIN file.tasks = Task
  BY PipelineAssumption DEF Task
<1>2. DuplicateId(file.tasks) <=> ~IsInjective([t \in Task |-> IdOf(file.tasks, t)])
  <2> DEFINE id == [t \in Task |-> IdOf(file.tasks, t)]
  <2>1. ASSUME DuplicateId(file.tasks) PROVE ~IsInjective(id)
    <3>1. PICK t \in Task : \E u \in 1 .. t - 1 : IdOf(file.tasks, u) = IdOf(file.tasks, t)
      BY <1>1, <2>1 DEF DuplicateId
    <3>2. PICK u \in 1 .. t - 1 : IdOf(file.tasks, u) = IdOf(file.tasks, t)
      BY <3>1
    <3>3. u \in Task /\ u # t
      BY <3>2, PipelineAssumption DEF Task
    <3>. QED
      BY <3>2, <3>3 DEF IsInjective
  <2>2. ASSUME ~IsInjective(id) PROVE DuplicateId(file.tasks)
    <3>1. PICK t \in Task, u \in Task : id[t] = id[u] /\ t # u
      BY <2>2 DEF IsInjective
    <3>2. IdOf(file.tasks, t) = IdOf(file.tasks, u)
      BY <3>1
    <3>3. u \in 1 .. t - 1 \/ t \in 1 .. u - 1
      BY <3>1, PipelineAssumption DEF Task
    <3>. QED
      BY <1>1, <3>2, <3>3 DEF DuplicateId
  <2>. QED
    BY <2>1, <2>2
<1>3. MissingInput(file)
        <=> \E i \in DOMAIN MergedInputs(file) : MergedInputs(file)[i] = "none"
  BY PipelineAssumption DEF MissingInput, MergedInputs
<1>. QED
  BY <1>1, <1>2, <1>3 DEF Malformed, ParseFails

LEMMA ShortSequences ==
  ASSUME NEW S, NEW a \in S, NEW b \in S
  PROVE  /\ <<a>> \in Seq(S) /\ DOMAIN <<a>> = {1} /\ <<a>>[1] = a /\ <<a>> # <<>>
         /\ <<a, b>> \in Seq(S) /\ DOMAIN <<a, b>> = {1, 2} /\ <<a, b>> # <<>>
         /\ <<a, b>>[1] = a /\ <<a, b>>[2] = b
<1>1. <<a>> \in Seq(S) /\ DOMAIN <<a>> = {1} /\ <<a>>[1] = a /\ <<a>> # <<>>
  OBVIOUS
<1>2. <<a, b>> \in Seq(S) /\ DOMAIN <<a, b>> = {1, 2} /\ <<a, b>> # <<>>
  OBVIOUS
<1>3. <<a, b>>[1] = a /\ <<a, b>>[2] = b
  OBVIOUS
<1>. QED
  BY <1>1, <1>2, <1>3

(* The services read fields that a valid task gives a value.                *)
LEMMA ReadsAreInputs ==
  ASSUME NEW task, ValidTask(task)
  PROVE  /\ ReadsOf(task) \in Seq(FieldName \X PartName)
         /\ \A n \in DOMAIN ReadsOf(task) : ReadsOf(task)[n][1] \in InputsOf(task)
<1> DEFINE fields == TaskType[task.type].fields
           service == Service[task.type]
<1>1. /\ task.type \in DOMAIN TaskType
      /\ fields \ Optional \subseteq InputsOf(task)
  BY DEF ValidTask, InputsOf, Null
<1>2. /\ service.reads \in Seq(FieldName \X PartName)
      /\ service.optional \in FieldName
      /\ \A n \in DOMAIN service.reads : service.reads[n][1] \in fields \ Optional
  <2>0. \A f \in FieldName :
          /\ Image(f) \in FieldName \X PartName /\ Image(f)[1] = f
          /\ <<f, "meta">> \in FieldName \X PartName /\ <<f, "meta">>[1] = f
    BY DEF Image, PartName
  <2> DEFINE Fits(svc, type) ==
               /\ svc.reads \in Seq(FieldName \X PartName)
               /\ svc.optional \in FieldName
               /\ \A n \in DOMAIN svc.reads : svc.reads[n][1] \in type.fields \ Optional
  <2>1. Fits(AddService, AddTask)
    BY <2>0, ShortSequences DEF AddService, AddTask, Optional, FieldName
  <2>2. Fits(DeleteService, DeleteTask)
    BY <2>0, ShortSequences DEF DeleteService, DeleteTask, Optional, FieldName
  <2>3. Fits(StandService, StandTask)
    BY <2>0, ShortSequences DEF StandService, StandTask, Optional, FieldName
  <2>4. Fits(AnimateService, AnimateTask)
    BY <2>0, ShortSequences DEF AnimateService, AnimateTask, Optional, FieldName
  <2>5. Fits(RmbgService, RmbgTask)
    <3> DEFINE atlas == Image("frames")
               meta == <<"frames", "meta">>
    <3>1. RmbgService.reads = <<atlas, meta>>
      BY DEF RmbgService, FrameSet
    <3>2. /\ atlas \in FieldName \X PartName /\ atlas[1] = "frames"
          /\ meta \in FieldName \X PartName /\ meta[1] = "frames"
      BY <2>0 DEF FieldName
    <3>3. RmbgService.optional = "none" /\ "frames" \in RmbgTask.fields \ Optional
      BY DEF RmbgService, RmbgTask, Optional
    <3> HIDE DEF atlas, meta
    <3>4. \A n \in DOMAIN <<atlas, meta>> : <<atlas, meta>>[n][1] = "frames"
      BY <3>2, ShortSequences
    <3>. QED
      BY <3>1, <3>2, <3>3, <3>4, ShortSequences DEF FieldName
  <2>6. Fits(NormMapService, NormMapTask)
    <3> DEFINE atlas == Image("frames")
               meta == <<"frames", "meta">>
    <3>1. NormMapService.reads = <<atlas, meta>>
      BY DEF NormMapService, FrameSet
    <3>2. /\ atlas \in FieldName \X PartName /\ atlas[1] = "frames"
          /\ meta \in FieldName \X PartName /\ meta[1] = "frames"
      BY <2>0 DEF FieldName
    <3>3. NormMapService.optional = "none" /\ "frames" \in NormMapTask.fields \ Optional
      BY DEF NormMapService, NormMapTask, Optional
    <3> HIDE DEF atlas, meta
    <3>4. \A n \in DOMAIN <<atlas, meta>> : <<atlas, meta>>[n][1] = "frames"
      BY <3>2, ShortSequences
    <3>. QED
      BY <3>1, <3>2, <3>3, <3>4, ShortSequences DEF FieldName
  <2>7. \/ task.type = "add" /\ service = AddService /\ fields = AddTask.fields
        \/ task.type = "delete" /\ service = DeleteService /\ fields = DeleteTask.fields
        \/ task.type = "stand" /\ service = StandService /\ fields = StandTask.fields
        \/ task.type = "animate" /\ service = AnimateService /\ fields = AnimateTask.fields
        \/ task.type = "rmbg" /\ service = RmbgService /\ fields = RmbgTask.fields
        \/ task.type = "norm_map" /\ service = NormMapService /\ fields = NormMapTask.fields
    BY <1>1 DEF TaskType, Service
  <2> HIDE DEF service, fields
  <2>. QED
    BY <2>1, <2>2, <2>3, <2>4, <2>5, <2>6, <2>7
<1>3. CASE service.optional \in InputsOf(task)
  <2> DEFINE last == Image(service.optional)
             reads == Append(service.reads, last)
  <2>1. last \in FieldName \X PartName /\ last[1] \in InputsOf(task)
    BY <1>2, <1>3 DEF Image, PartName
  <2> HIDE DEF last
  <2>2. /\ reads \in Seq(FieldName \X PartName)
        /\ DOMAIN reads = 1 .. Len(service.reads) + 1
        /\ DOMAIN service.reads = 1 .. Len(service.reads) /\ Len(service.reads) \in Nat
        /\ \A n \in 1 .. Len(service.reads) : reads[n] = service.reads[n]
        /\ reads[Len(service.reads) + 1] = last
    BY <1>2, <2>1, AppendProperties, LenProperties
  <2>3. ReadsOf(task) = reads
    BY <1>3 DEF ReadsOf, last
  <2> HIDE DEF reads, service, fields
  <2>. QED
    BY <1>1, <1>2, <2>1, <2>2, <2>3
<1>4. CASE service.optional \notin InputsOf(task)
  BY <1>1, <1>2, <1>4 DEF ReadsOf
<1>. QED
  BY <1>3, <1>4

LEMMA SavedPartsType ==
  ASSUME NEW task
  PROVE  SavedParts(task) \in Seq(PartName) /\ SavedParts(task) # <<>>
<1>1. "image" \in PartName /\ "meta" \in PartName
  BY DEF PartName
<1>. QED
  BY <1>1, ShortSequences DEF SavedParts

-----------------------------------------------------------------------------
(* The invariant holds                                                     *)

LEMMA LocalInit == Init => LocalIInv
<1> SUFFICES ASSUME Init PROVE LocalIInv
  OBVIOUS
<1> USE DEF Init
<1>0. /\ Len(<<>>) = 0 /\ <<>> \in Seq(Task)
      /\ file \in Files /\ result = <<>> /\ index = 1 /\ resources = {}
  BY EmptySeq
<1>1. LocalTypeOK
  <2>1. attempt \in 0 .. Attempts
    BY PipelineAssumption
  <2>2. inDegree \in [Task -> Nat]
    OBVIOUS
  <2>3. queue \in Seq(Task) /\ result \in Seq(Task)
    BY <1>0
  <2>4. phase \in {"parsing", "sorting", "running"} /\ stage \in Stages /\ todo = <<>>
    BY DEF Stages
  <2>5. stage \notin {"reading", "writing"}
    OBVIOUS
  <2>6. lost \in BOOLEAN /\ gone \in BOOLEAN /\ cancelled \in BOOLEAN
    OBVIOUS
  <2>. QED
    BY <1>0, <2>1, <2>2, <2>3, <2>4, <2>5, <2>6 DEF LocalTypeOK
<1>2. KahnInv
  BY DEF KahnInv
<1>3. OrderInv
  BY <1>0 DEF OrderInv, Distinct
<1>4. PhaseInv
  BY DEF PhaseInv
<1>5. LoopInv
  BY <1>0 DEF LoopInv, Before
<1>6. StoreInv
  BY <1>0 DEF StoreInv
<1>. QED
  BY <1>1, <1>2, <1>3, <1>4, <1>5, <1>6 DEF LocalIInv

(* The steps by what they touch.                                           *)
SortStep == Parse \/ Pop \/ Sorted
TaskStep ==
  \/ QueueTicket \/ Resolve \/ Read \/ ReadDamaged \/ ReadWithout \/ StorageFails
  \/ UseTicket \/ ReceiveResult \/ Write \/ FinishTask \/ Complete
  \/ LoseTicket \/ WorkerEnds \/ Cancel

LEMMA StepCases ==
  ASSUME [Next]_vars
  PROVE  SortStep \/ TaskStep \/ (\E o \in late : LateOpen(o)) \/ UNCHANGED vars
BY DEF Next, Advance, SortStep, TaskStep

LEMMA FileFixed ==
  ASSUME [Next]_vars
  PROVE  /\ file' = file /\ Refers' = Refers /\ Malformed' = Malformed
         /\ Links' = Links
<1>1. file' = file
  BY DEF Next, Advance, Parse, Pop, Sorted, QueueTicket, Resolve, Read, ReadDamaged,
         ReadWithout, StorageFails, UseTicket, ReceiveResult, Write, FinishTask, Complete,
         LoseTicket, WorkerEnds, Cancel, LateOpen, vars
<1>2. Refers' = Refers
  BY <1>1 DEF Refers
<1>3. Malformed' = Malformed
  BY <1>1 DEF Malformed
<1>. QED
  BY <1>1, <1>2, <1>3 DEF Links

(* The loop over the tasks leaves the order alone, and runs or has ended.   *)
LEMMA TaskStepShape ==
  ASSUME TaskStep
  PROVE  /\ phase = "running" /\ UNCHANGED <<inDegree, queue, result>>
         /\ phase' \in {"running", "completed", "stopped"}
BY DEF TaskStep, QueueTicket, Resolve, Read, ReadDamaged, ReadWithout, StorageFails, UseTicket,
       ReceiveResult, Write, FinishTask, Complete, LoseTicket, WorkerEnds, Cancel,
       AttemptFails, Continue, Abort, Running, sortVars

LEMMA CurrentIsTask ==
  ASSUME LocalIInv, Running, stage # "none"
  PROVE  /\ index \in 1 .. Len(result) /\ Len(result) = Size
         /\ Current \in Task
         /\ Refers[Current] \subseteq resources
         /\ ValidTask(CurrentTask)
<1>1. /\ Len(result) = Size /\ index \in Nat \ {0} /\ index =< Size /\ Size \in Nat
      /\ result \in Seq(Task) /\ file \in Files
  BY PipelineAssumption DEF LocalIInv, PhaseInv, LoopInv, LocalTypeOK, Running
<1>2. index \in 1 .. Len(result)
  BY <1>1
<1>3. Current \in Task
  BY <1>1, <1>2, ElementOfSeq DEF Current
<1>4. Refers[Current] \subseteq resources
  BY <1>2 DEF LocalIInv, OrderInv, LoopInv, Current
<1>5. ValidTask(CurrentTask)
  BY <1>3 DEF LocalIInv, PhaseInv, Running, Malformed, CurrentTask
<1>. QED
  BY <1>1, <1>2, <1>3, <1>4, <1>5

-----------------------------------------------------------------------------
(* Kahn's algorithm                                                        *)

(* The tasks that count no reference are those with none left to wait for.  *)
LEMMA NoReferenceLeft ==
  ASSUME NEW S \in SUBSET Task
  PROVE  Cardinality(S) = 0 <=> S = {}
BY TasksFinite, FS_EmptySet

LEMMA ParseKahn ==
  ASSUME LocalIInv, Parse, phase' = "sorting"
  PROVE  /\ inDegree' \in [Task -> Nat] /\ queue' \in Seq(Task)
         /\ ~Malformed /\ \A t \in Task : Nowhere \notin Refers[t]
         /\ Distinct(queue') /\ ToSet(queue') \cap ToSet(result) = {}
         /\ \A t \in Task :
              /\ inDegree'[t] = Cardinality(Refers[t] \ ToSet(result))
              /\ t \in ToSet(result) \cup ToSet(queue') <=> inDegree'[t] = 0
<1>1. /\ file \in Files /\ file.readable /\ ~ParseFails(file)
      /\ \A t \in Task : Nowhere \notin Refers[t]
      /\ inDegree' = [t \in Task |-> Degree(t)]
      /\ queue' \in InOrder({ t \in Task : Refers[t] = {} })
      /\ result = <<>>
  BY DEF Parse, LocalIInv, LocalTypeOK, PhaseInv
<1>2. ToSet(result) = {}
  BY <1>1, EmptySeq DEF ToSet
<1>3. \A t \in Task : Refers[t] \in SUBSET Task
  BY <1>1, RefersType
<1>4. \A t \in Task : /\ inDegree'[t] = Cardinality(Refers[t])
                      /\ Cardinality(Refers[t]) \in Nat
                      /\ Cardinality(Refers[t]) = 0 <=> Refers[t] = {}
  BY <1>1, <1>3, NoReferenceLeft, TasksFinite DEF Degree
<1>5. queue' \in Seq(Task) /\ Distinct(queue') /\ ToSet(queue') = { t \in Task : Refers[t] = {} }
  BY <1>1, InOrderFacts
<1>6. inDegree' \in [Task -> Nat]
  BY <1>1, <1>3, TasksFinite DEF Degree
<1>7. ~Malformed
  BY <1>1, ParseIsExact
<1>. QED
  BY <1>1, <1>2, <1>4, <1>5, <1>6, <1>7

(* A task moves from the queue to the result; those it was the last one to  *)
(* wait for are queued.                                                    *)
LEMMA PopKahn ==
  ASSUME LocalIInv, Pop
  PROVE  /\ inDegree' \in [Task -> Nat] /\ queue' \in Seq(Task) /\ result' \in Seq(Task)
         /\ Distinct(queue') /\ ToSet(queue') \cap ToSet(result') = {}
         /\ \A t \in Task :
              /\ inDegree'[t] = Cardinality(Refers[t] \ ToSet(result'))
              /\ t \in ToSet(result') \cup ToSet(queue') <=> inDegree'[t] = 0
         /\ Distinct(result')
         /\ \A i \in 1 .. Len(result') :
              Refers[result'[i]] \subseteq { result'[j] : j \in 1 .. i - 1 }
<1> DEFINE t == Head(queue)
           ready == { u \in Task : t \in Refers[u] /\ inDegree'[u] = 0 }
<1>1. /\ queue # <<>> /\ queue \in Seq(Task) /\ result \in Seq(Task)
      /\ inDegree \in [Task -> Nat] /\ file \in Files
      /\ Distinct(queue) /\ Distinct(result) /\ ToSet(queue) \cap ToSet(result) = {}
      /\ \A u \in Task :
           /\ inDegree[u] = Cardinality(Refers[u] \ ToSet(result))
           /\ u \in ToSet(result) \cup ToSet(queue) <=> inDegree[u] = 0
      /\ \A u \in Task : Nowhere \notin Refers[u]
  BY DEF Pop, LocalIInv, LocalTypeOK, KahnInv, OrderInv, PhaseInv
<1>2. /\ result' = Append(result, t)
      /\ inDegree' = [u \in Task |-> IF t \in Refers[u] THEN inDegree[u] - 1 ELSE inDegree[u]]
  BY DEF Pop
<1>3. PICK added \in InOrder(ready) : queue' = Tail(queue) \o added
  BY <1>2 DEF Pop
<1>4. /\ t \in Task /\ Tail(queue) \in Seq(Task) /\ Distinct(Tail(queue))
      /\ t \notin ToSet(Tail(queue)) /\ ToSet(queue) = {t} \cup ToSet(Tail(queue))
  BY <1>1, HeadTail, HeadDistinct
<1>5. added \in Seq(Task) /\ Distinct(added) /\ ToSet(added) = ready
  BY <1>3, InOrderFacts
<1>6. \A u \in Task : Refers[u] \in SUBSET Task
  BY <1>1, RefersType
<1>7. t \notin ToSet(result) /\ Refers[t] \subseteq ToSet(result)
  <2>1. Refers[t] \ ToSet(result) \in SUBSET Task /\ Cardinality(Refers[t] \ ToSet(result)) = 0
    BY <1>1, <1>4, <1>6
  <2>. QED
    BY <1>1, <1>4, <2>1, NoReferenceLeft
<1>8. /\ result' \in Seq(Task) /\ Len(result') = Len(result) + 1 /\ Distinct(result')
      /\ ToSet(result') = ToSet(result) \cup {t}
      /\ \A i \in 1 .. Len(result) : result'[i] = result[i]
      /\ result'[Len(result) + 1] = t
      /\ Len(result) \in Nat /\ DOMAIN result = 1 .. Len(result)
  BY <1>1, <1>2, <1>4, <1>7, AppendDistinct, LenProperties
<1>9. ASSUME NEW u \in Task
      PROVE  /\ inDegree'[u] = Cardinality(Refers[u] \ ToSet(result'))
             /\ inDegree'[u] \in Nat
  <2> DEFINE left == Refers[u] \ ToSet(result)
  <2>1. left \in SUBSET Task /\ IsFiniteSet(left)
    BY <1>6, TasksFinite
  <2>2. Refers[u] \ ToSet(result') = left \ {t}
    BY <1>8
  <2>3. Cardinality(left \ {t}) = IF t \in left THEN Cardinality(left) - 1 ELSE Cardinality(left)
    BY <2>1, FS_RemoveElement
  <2>4. Cardinality(left \ {t}) \in Nat
    BY <2>1, TasksFinite
  <2>5. t \in left <=> t \in Refers[u]
    BY <1>7
  <2>. QED
    BY <1>1, <1>2, <2>2, <2>3, <2>4, <2>5
<1>10. inDegree' \in [Task -> Nat]
  BY <1>2, <1>9
<1>11. ASSUME NEW u \in ready PROVE u \notin ToSet(result) \cup ToSet(queue)
  <2>1. u \in Task /\ inDegree'[u] = inDegree[u] - 1 /\ inDegree'[u] = 0
    BY <1>2
  <2>2. inDegree[u] \in Nat /\ inDegree[u] # 0
    BY <1>1, <2>1
  <2>. QED
    BY <1>1, <2>1, <2>2
<1>12. /\ queue' \in Seq(Task) /\ Distinct(queue')
       /\ ToSet(queue') = ToSet(Tail(queue)) \cup ready
  <2>1. ToSet(Tail(queue)) \cap ToSet(added) = {}
    BY <1>4, <1>5, <1>11
  <2>2. /\ Tail(queue) \o added \in Seq(Task)
        /\ Distinct(Tail(queue) \o added)
        /\ ToSet(Tail(queue) \o added) = ToSet(Tail(queue)) \cup ToSet(added)
    <3> DEFINE rest == Tail(queue)
    <3>1. rest \in Seq(Task) /\ Distinct(rest) /\ ToSet(rest) \cap ToSet(added) = {}
      BY <1>4, <2>1
    <3>2. added \in Seq(Task) /\ Distinct(added)
      BY <1>5
    <3> HIDE DEF t, ready, rest
    <3>3. /\ rest \o added \in Seq(Task) /\ Distinct(rest \o added)
          /\ ToSet(rest \o added) = ToSet(rest) \cup ToSet(added)
      BY ONLY <3>1, <3>2, ConcatDistinct
    <3>. QED
      BY <3>3 DEF rest
  <2>. QED
    BY <1>3, <1>5, <2>2
<1>13. ToSet(queue') \cap ToSet(result') = {}
  BY <1>1, <1>4, <1>8, <1>11, <1>12
<1>14. ASSUME NEW u \in Task
       PROVE  u \in ToSet(result') \cup ToSet(queue') <=> inDegree'[u] = 0
  <2>1. u \in ToSet(result') \cup ToSet(queue')
          <=> u \in ToSet(result) \cup ToSet(queue) \/ u \in ready
    BY <1>4, <1>8, <1>12
  <2>2. CASE t \in Refers[u]
    <3>1. u \notin ToSet(result) \cup ToSet(queue)
      <4>1. inDegree'[u] = inDegree[u] - 1 /\ inDegree'[u] \in Nat
        BY <1>2, <1>9, <2>2
      <4>2. inDegree[u] # 0
        BY <1>1, <4>1
      <4>. QED
        BY <1>1, <4>2
    <3>. QED
      BY <2>1, <2>2, <3>1
  <2>3. CASE t \notin Refers[u]
    BY <1>1, <1>2, <2>1, <2>3
  <2>. QED
    BY <2>2, <2>3
<1>15. \A i \in 1 .. Len(result') :
         Refers[result'[i]] \subseteq { result'[j] : j \in 1 .. i - 1 }
  <2> SUFFICES ASSUME NEW i \in 1 .. Len(result) + 1, NEW r \in Refers[result'[i]]
               PROVE  \E j \in 1 .. i - 1 : r = result'[j]
    BY <1>8
  <2>1. CASE i = Len(result) + 1
    BY <1>7, <1>8, <2>1 DEF ToSet
  <2>2. CASE i \in 1 .. Len(result)
    <3>1. r \in Before(i)
      BY <1>8, <2>2 DEF LocalIInv, OrderInv
    <3>. QED
      BY <1>8, <2>2, <3>1 DEF Before
  <2>. QED
    BY <1>8, <2>1, <2>2
<1>. QED
  BY <1>8, <1>9, <1>10, <1>12, <1>13, <1>14, <1>15

(* When the queue is empty, the result is everything, or the tasks that are *)
(* left refer to each other.                                               *)
LEMMA SortedAll ==
  ASSUME LocalIInv, Len(result) = Size
  PROVE  ToSet(result) = Task
<1>1. IsFiniteSet(Task) /\ Cardinality(Task) = Size
  BY TasksFinite
<1>2. result \in Seq(Task) /\ Distinct(result)
  BY DEF LocalIInv, LocalTypeOK, OrderInv
<1>3. Cardinality(ToSet(result)) = Size
  BY <1>2, DistinctCount
<1>4. ToSet(result) \in SUBSET Task
  BY <1>2, ElementOfSeq, LenProperties DEF ToSet
<1>. QED
  BY <1>1, <1>3, <1>4, FS_Subset

LEMMA LeftIsCyclic ==
  ASSUME LocalIInv, phase = "sorting", queue = <<>>, Len(result) # Size
  PROVE  \E S \in SUBSET Task : S # {} /\ \A t \in S : Refers[t] \cap S # {}
<1> DEFINE S == Task \ ToSet(result)
<1>1. result \in Seq(Task) /\ Distinct(result) /\ file \in Files
  BY DEF LocalIInv, LocalTypeOK, OrderInv
<1>2. S # {}
  <2> SUFFICES ASSUME Task \subseteq ToSet(result) PROVE FALSE
    OBVIOUS
  <2>1. ToSet(result) = Task
    BY <1>1, ElementOfSeq, LenProperties DEF ToSet
  <2>2. Cardinality(ToSet(result)) = Len(result)
    BY <1>1, DistinctCount
  <2>. QED
    BY <2>1, <2>2, TasksFinite
<1>3. ASSUME NEW t \in S PROVE Refers[t] \cap S # {}
  <2>1. ToSet(queue) = {}
    BY EmptySeq DEF ToSet
  <2>2. Cardinality(Refers[t] \ ToSet(result)) # 0
    BY <2>1 DEF LocalIInv, KahnInv
  <2>3. Refers[t] \in SUBSET Task
    BY <1>1, RefersType DEF LocalIInv, PhaseInv
  <2>4. Refers[t] \ ToSet(result) # {}
    BY <2>2, FS_EmptySet
  <2>. QED
    BY <2>3, <2>4
<1>. QED
  BY <1>2, <1>3

(* An order in which each task has its place behind those it refers to     *)
(* leaves no cycle: of the tasks of a cycle, look at the first.             *)
LEMMA OrderedIsAcyclic ==
  ASSUME LocalIInv, Len(result) = Size,
         NEW S \in SUBSET Task, S # {}, \A t \in S : Refers[t] \cap S # {}
  PROVE  FALSE
<1> DEFINE places == { i \in 1 .. Len(result) : result[i] \in S }
<1>1. Len(result) \in Nat /\ DOMAIN result = 1 .. Len(result)
  BY LenProperties DEF LocalIInv, LocalTypeOK
<1>2. places \subseteq Nat /\ places # {}
  <2>1. PICK t \in S : TRUE
    OBVIOUS
  <2>2. t \in ToSet(result)
    BY SortedAll
  <2>. QED
    BY <1>1, <2>2 DEF ToSet
<1>3. PICK i \in places : \A j \in places : ~(<<j, i>> \in OpToRel(<, Nat))
  BY <1>2, NatLessThanWellFounded, WFMin
<1>4. PICK r \in Refers[result[i]] \cap S : TRUE
  OBVIOUS
<1>5. PICK j \in 1 .. i - 1 : r = result[j]
  BY <1>4 DEF LocalIInv, OrderInv, Before
<1>6. j \in places /\ j < i
  BY <1>1, <1>4, <1>5
<1>. QED
  BY <1>2, <1>3, <1>6 DEF OpToRel

-----------------------------------------------------------------------------
(* Every step keeps the invariant                                          *)

(* What happens to the task under way: nothing that concerns the order.     *)
LEMMA TypeStep ==
  ASSUME LocalIInv, [Next]_vars
  PROVE  LocalTypeOK'
<1>0. LocalTypeOK /\ PhaseInv /\ file' = file
  BY FileFixed DEF LocalIInv
<1> USE DEF LocalTypeOK
<1>a. ASSUME UNCHANGED <<stage, todo, attempt, lost, gone, resources, stored, torn, late, cancelled>>
      PROVE  /\ stage' \in Stages
             /\ stage' = "reading" => todo' \in Seq(FieldName \X PartName)
             /\ stage' = "writing" => todo' \in Seq(PartName)
             /\ stage' \notin {"reading", "writing"} => todo' = <<>>
             /\ attempt' \in 0 .. Attempts /\ lost' \in BOOLEAN /\ gone' \in BOOLEAN
             /\ resources' \subseteq Task
             /\ stored' \subseteq Task \X PartName /\ torn' \subseteq Task \X PartName
             /\ late' \subseteq Task \X PartName /\ cancelled' \in BOOLEAN
  BY <1>0, <1>a
<1>b. ASSUME TaskStep
      PROVE  /\ file' \in Files /\ phase' \in {"parsing", "sorting", "running"} \cup Ended
             /\ inDegree' \in [Task -> Nat] /\ queue' \in Seq(Task) /\ result' \in Seq(Task)
  BY <1>0, <1>b, TaskStepShape DEF Ended
<1>c. ASSUME Continue("none", <<>>, 0) \/ Continue("ticket", <<>>, 0)
               \/ Continue("waiting", <<>>, 0) \/ Continue("leaving", <<>>, 0) \/ Abort
      PROVE  /\ stage' \in Stages \ {"reading", "writing"} /\ todo' = <<>>
             /\ attempt' \in 0 .. Attempts
  BY <1>c, PipelineAssumption DEF Continue, Abort, Stages
<1>d. 1 \in 0 .. Attempts
  BY PipelineAssumption
<1>1. CASE Parse
  <2>1. /\ UNCHANGED <<file, index, result>>
        /\ UNCHANGED <<stage, todo, attempt, lost, gone, resources, stored, torn, late, cancelled>>
        /\ phase' \in {"sorting"} \cup Ended
    BY <1>1 DEF Parse, taskVars, storeVars, sortVars, Ended
  <2>2. inDegree' \in [Task -> Nat] /\ queue' \in Seq(Task)
    <3>1. CASE phase' = "sorting"
      BY <1>1, <3>1, ParseKahn
    <3>2. CASE phase' # "sorting"
      BY <1>0, <1>1, <3>2 DEF Parse, sortVars
    <3>. QED
      BY <3>1, <3>2
  <2>. QED
    BY <1>0, <1>a, <2>1, <2>2
<1>2. CASE Pop
  <2>1. /\ UNCHANGED <<file, index, phase>>
        /\ UNCHANGED <<stage, todo, attempt, lost, gone, resources, stored, torn, late, cancelled>>
    BY <1>2 DEF Pop, taskVars, storeVars
  <2>. QED
    BY <1>0, <1>2, <1>a, <2>1, PopKahn
<1>3. CASE Sorted
  <2>1. /\ UNCHANGED <<file, index, inDegree, queue, result>>
        /\ UNCHANGED <<stage, todo, attempt, lost, gone, resources, stored, torn, late, cancelled>>
        /\ phase' \in {"running", "refused"}
    BY <1>3 DEF Sorted, taskVars, storeVars, sortVars
  <2>. QED
    BY <1>0, <1>a, <2>1 DEF Ended
<1>4. CASE QueueTicket \/ UseTicket
  <2>1. /\ TaskStep /\ UNCHANGED <<index, lost, gone, resources, stored, torn, late, cancelled>>
        /\ Continue("ticket", <<>>, 0) \/ Continue("waiting", <<>>, 0)
    BY <1>4 DEF TaskStep, QueueTicket, UseTicket, storeVars
  <2>. QED
    BY <1>0, <1>b, <1>c, <2>1
<1>5. CASE Resolve
  <2>1. /\ TaskStep /\ UNCHANGED <<index, lost, gone, resources, stored, torn, late, cancelled>>
        /\ Abort \/ Continue("reading", ReadsOf(CurrentTask), 1)
        /\ Running /\ stage # "none"
    BY <1>5 DEF TaskStep, Resolve, storeVars
  <2>2. ReadsOf(CurrentTask) \in Seq(FieldName \X PartName)
    BY <2>1, CurrentIsTask, ReadsAreInputs
  <2>3. CASE Abort
    BY <1>0, <1>b, <1>c, <2>1, <2>3
  <2>4. CASE Continue("reading", ReadsOf(CurrentTask), 1)
    BY <1>0, <1>b, <1>d, <2>1, <2>2, <2>4 DEF Continue, Stages
  <2>. QED
    BY <2>1, <2>3, <2>4
<1>6. CASE Read \/ ReadWithout
  <2>1. /\ TaskStep /\ UNCHANGED <<index, lost, gone, resources, stored, torn, late, cancelled>>
        /\ Continue("reading", Tail(todo), 1) /\ todo # <<>> /\ stage = "reading"
    BY <1>6 DEF TaskStep, Read, ReadWithout, storeVars
  <2>2. Tail(todo) \in Seq(FieldName \X PartName)
    BY <1>0, <2>1, HeadTail
  <2>. QED
    BY <1>0, <1>b, <1>d, <2>1, <2>2 DEF Continue, Stages
<1>7. CASE ReadDamaged
  <2>1. /\ TaskStep /\ UNCHANGED <<index, lost, gone, resources, stored, torn, late, cancelled>>
        /\ Abort
    BY <1>7 DEF TaskStep, ReadDamaged, storeVars
  <2>. QED
    BY <1>0, <1>b, <1>c, <2>1
<1>8. ASSUME AttemptFails, TaskStep, Running,
             UNCHANGED <<index, lost, gone, resources>>, cancelled' \in BOOLEAN
      PROVE  LocalTypeOK'
  <2>1. /\ stage \in {"reading", "writing"} /\ todo # <<>>
        /\ (attempt < Attempts /\ Continue(stage, todo, attempt + 1)) \/ Abort
        /\ UNCHANGED <<stored, torn>>
    BY <1>8 DEF AttemptFails
  <2>2. late' \subseteq Task \X PartName
    <3>1. CASE late' = late
      BY <1>0, <3>1
    <3>2. CASE stage = "writing" /\ late' = late \cup {<<Current, Head(todo)>>}
      <4>1. Head(todo) \in PartName
        BY <1>0, <2>1, <3>2, HeadTail
      <4>2. Current \in Task
        BY <1>8, <2>1, CurrentIsTask
      <4>. QED
        BY <1>0, <3>2, <4>1, <4>2
    <3>. QED
      BY <1>8, <3>1, <3>2 DEF AttemptFails
  <2>3. CASE Abort
    BY <1>0, <1>8, <1>b, <1>c, <2>1, <2>2, <2>3
  <2>4. CASE attempt < Attempts /\ Continue(stage, todo, attempt + 1)
    <3>1. attempt' \in 0 .. Attempts
      BY <1>0, <2>4, PipelineAssumption DEF Continue
    <3>2. stage' = stage /\ todo' = todo
      BY <2>4 DEF Continue
    <3>. QED
      BY <1>0, <1>8, <1>b, <2>1, <2>2, <3>1, <3>2
  <2>. QED
    BY <2>1, <2>3, <2>4
<1>9. CASE StorageFails
  BY <1>0, <1>8, <1>9 DEF StorageFails, TaskStep
<1>10. CASE ReceiveResult
  <2>1. /\ TaskStep /\ UNCHANGED <<index, lost, gone, resources, stored, torn, late, cancelled>>
        /\ Continue("writing", SavedParts(CurrentTask), 1)
    BY <1>10 DEF TaskStep, ReceiveResult, storeVars
  <2>. QED
    BY <1>0, <1>b, <1>d, <2>1, SavedPartsType DEF Continue, Stages
<1>11. CASE Write
  <2>1. /\ TaskStep /\ UNCHANGED <<index, lost, gone, resources, torn, late, cancelled>>
        /\ stage = "writing" /\ Running /\ stored' = stored \cup {<<Current, Head(todo)>>}
        /\ Continue("leaving", <<>>, 0) \/ Continue("writing", Tail(todo), 1)
    BY <1>11 DEF TaskStep, Write
  <2>2. todo # <<>> /\ todo \in Seq(PartName)
    BY <2>1 DEF LocalIInv, StoreInv
  <2>3. Head(todo) \in PartName /\ Tail(todo) \in Seq(PartName) /\ Current \in Task
    BY <2>1, <2>2, HeadTail, CurrentIsTask
  <2>4. stored' \subseteq Task \X PartName
    BY <1>0, <2>1, <2>3
  <2>5. CASE Continue("leaving", <<>>, 0)
    BY <1>0, <1>b, <1>c, <2>1, <2>4, <2>5
  <2>6. CASE Continue("writing", Tail(todo), 1)
    BY <1>0, <1>b, <1>d, <2>1, <2>3, <2>4, <2>6 DEF Continue, Stages
  <2>. QED
    BY <2>1, <2>5, <2>6
<1>12. CASE FinishTask
  <2>1. /\ TaskStep /\ Running /\ stage = "leaving"
        /\ UNCHANGED <<gone, stored, torn, late, cancelled>>
        /\ Continue("none", <<>>, 0) /\ index' = index + 1 /\ lost' = FALSE
        /\ resources' = resources \cup {Current}
    BY <1>12 DEF TaskStep, FinishTask, storeVars
  <2>2. index' \in Nat \ {0} /\ resources' \subseteq Task
    BY <1>0, <2>1, CurrentIsTask
  <2>3. lost' \in BOOLEAN
    BY <2>1
  <2>. QED
    BY <1>0, <1>b, <1>c, <2>1, <2>2, <2>3
<1>13. CASE Complete
  <2>1. /\ TaskStep /\ UNCHANGED index
        /\ UNCHANGED <<stage, todo, attempt, lost, gone, resources, stored, torn, late, cancelled>>
    BY <1>13 DEF TaskStep, Complete, taskVars, storeVars
  <2>. QED
    BY <1>0, <1>a, <1>b, <2>1
<1>14. CASE LoseTicket \/ WorkerEnds
  <2>1. /\ TaskStep /\ lost' \in BOOLEAN /\ gone' \in BOOLEAN
        /\ UNCHANGED <<index, stage, todo, attempt, resources, stored, torn, late, cancelled>>
    BY <1>0, <1>14 DEF TaskStep, LoseTicket, WorkerEnds, storeVars
  <2>. QED
    BY <1>0, <1>b, <2>1
<1>15. CASE Cancel
  <2>1. /\ TaskStep /\ Running /\ cancelled' \in BOOLEAN
        /\ UNCHANGED <<index, lost, gone, resources>>
        /\ AttemptFails \/ (Abort /\ UNCHANGED storeVars)
    BY <1>15 DEF TaskStep, Cancel
  <2>2. CASE AttemptFails
    BY <1>8, <2>1, <2>2
  <2>3. CASE Abort /\ UNCHANGED storeVars
    BY <1>0, <1>b, <1>c, <2>1, <2>3 DEF storeVars
  <2>. QED
    BY <2>1, <2>2, <2>3
<1>16. ASSUME NEW o \in late, LateOpen(o) PROVE LocalTypeOK'
  <2>1. /\ late' = late \ {o} /\ stored' = stored \ {o} /\ torn' = torn \cup (stored \cap {o})
        /\ UNCHANGED <<file, phase, inDegree, queue, result, index, stage, todo, attempt, lost,
                      gone, resources, cancelled>>
    BY <1>16 DEF LateOpen, sortVars, taskVars
  <2>2. /\ late' \subseteq Task \X PartName /\ stored' \subseteq Task \X PartName
        /\ torn' \subseteq Task \X PartName
    BY <1>0, <2>1
  <2>. QED
    BY <1>0, <2>1, <2>2
<1>17. CASE UNCHANGED vars
  BY <1>0, <1>a, <1>17 DEF vars
<1>. QED
  BY <1>1, <1>2, <1>3, <1>4, <1>5, <1>6, <1>7, <1>9, <1>10, <1>11, <1>12, <1>13, <1>14, <1>15,
     <1>16, <1>17, StepCases DEF SortStep, TaskStep

(* A late open touches the storage only.                                   *)
LEMMA OrderStep ==
  ASSUME LocalIInv, [Next]_vars
  PROVE  KahnInv' /\ OrderInv' /\ PhaseInv'
<1>0. /\ KahnInv /\ OrderInv /\ PhaseInv
      /\ Refers' = Refers /\ Malformed' = Malformed
  BY FileFixed DEF LocalIInv
<1>1. CASE Parse
  <2>1. /\ phase = "parsing" /\ result = <<>> /\ UNCHANGED <<result, index, stage>>
        /\ phase' \in {"sorting", "refused", "raised"}
    BY <1>0, <1>1 DEF Parse, PhaseInv, sortVars, taskVars
  <2>2. KahnInv'
    BY <1>0, <1>1, <2>1, ParseKahn DEF KahnInv
  <2>3. OrderInv'
    BY <1>0, <2>1 DEF OrderInv, Before
  <2>4. PhaseInv'
    BY <1>0, <1>1, <2>1, ParseKahn DEF PhaseInv
  <2>. QED
    BY <2>2, <2>3, <2>4
<1>2. CASE Pop
  <2>1. phase = "sorting" /\ UNCHANGED <<phase, index, stage>>
    BY <1>2 DEF Pop, taskVars
  <2>2. KahnInv'
    BY <1>0, <1>2, PopKahn DEF KahnInv
  <2>3. OrderInv'
    BY <1>0, <1>2, PopKahn DEF OrderInv, Before
  <2>4. PhaseInv'
    BY <1>0, <2>1 DEF PhaseInv
  <2>. QED
    BY <2>2, <2>3, <2>4
<1>3. CASE Sorted
  <2>1. /\ phase = "sorting" /\ UNCHANGED <<result, index, stage>>
        /\ phase' = IF Len(result) = Size THEN "running" ELSE "refused"
    BY <1>3 DEF Sorted, sortVars, taskVars
  <2>2. OrderInv'
    BY <1>0, <2>1 DEF OrderInv, Before
  <2>. QED
    BY <1>0, <2>1, <2>2 DEF KahnInv, PhaseInv
<1>4. CASE TaskStep
  <2>1. /\ phase = "running" /\ UNCHANGED result
        /\ phase' \in {"running", "completed", "stopped"}
    BY <1>4, TaskStepShape
  <2>2. phase' # "running" => stage' = "none"
    BY <1>4 DEF TaskStep, QueueTicket, Resolve, Read, ReadDamaged, ReadWithout, StorageFails,
                UseTicket, ReceiveResult, Write, FinishTask, Complete, LoseTicket,
                WorkerEnds, Cancel,
                AttemptFails, Continue, Abort, Running, taskVars
  <2>3. OrderInv'
    BY <1>0, <2>1 DEF OrderInv, Before
  <2>. QED
    BY <1>0, <2>1, <2>2, <2>3 DEF KahnInv, PhaseInv
<1>5. CASE (\E o \in late : LateOpen(o)) \/ UNCHANGED vars
  <2>1. UNCHANGED <<phase, inDegree, queue, result, index, stage>>
    BY <1>5 DEF LateOpen, vars, sortVars, taskVars
  <2>2. OrderInv'
    BY <1>0, <2>1 DEF OrderInv, Before
  <2>3. KahnInv'
    BY <1>0, <2>1 DEF KahnInv
  <2>. QED
    BY <1>0, <2>1, <2>2, <2>3 DEF PhaseInv
<1>. QED
  BY <1>1, <1>2, <1>3, <1>4, <1>5, StepCases DEF SortStep

(* Only FinishTask records an artifact and moves on.                       *)
LEMMA LoopStep ==
  ASSUME LocalIInv, [Next]_vars
  PROVE  LoopInv'
<1>0. LoopInv /\ PhaseInv /\ index \in Nat \ {0} /\ result \in Seq(Task) /\ Size \in Nat
  BY PipelineAssumption DEF LocalIInv, LocalTypeOK
<1>1. CASE SortStep
  <2>1. /\ index = 1 /\ stage = "none" /\ UNCHANGED <<index, stage, resources>>
    BY <1>0, <1>1 DEF SortStep, Parse, Pop, Sorted, taskVars, PhaseInv
  <2>2. 1 .. 1 - 1 = {} /\ index' = 1 /\ stage' = "none" /\ 1 =< Size + 1
    BY <1>0, <2>1
  <2>3. Before(index) = {} /\ Before(index)' = {}
    BY <2>1, <2>2 DEF Before
  <2>4. resources' = Before(index)'
    BY <1>0, <2>1, <2>3 DEF LoopInv
  <2>. QED
    BY <2>2, <2>4 DEF LoopInv
<1>2. CASE FinishTask
  <2>1. /\ index' = index + 1 /\ stage' = "none" /\ phase' = phase /\ UNCHANGED result
        /\ resources' = resources \cup {result[index]}
        /\ Running /\ stage = "leaving"
    BY <1>2 DEF FinishTask, Continue, Current, sortVars
  <2>2. index =< Size
    BY <1>0, <2>1 DEF LoopInv, Running
  <2>3. 1 .. index = (1 .. index - 1) \cup {index} /\ index + 1 - 1 = index
    BY <1>0
  <2>4. Before(index)' = Before(index) \cup {result[index]}
    BY <2>1, <2>3 DEF Before
  <2>. QED
    BY <1>0, <2>1, <2>2, <2>4 DEF LoopInv
<1>3. CASE TaskStep /\ ~FinishTask
  <2>1. phase = "running" /\ UNCHANGED result
    BY <1>3, TaskStepShape
  <2>2. UNCHANGED <<index, resources>>
    BY <1>3 DEF TaskStep, QueueTicket, Resolve, Read, ReadDamaged, ReadWithout, StorageFails,
                UseTicket, ReceiveResult, Write, Complete, LoseTicket, WorkerEnds, Cancel
  <2>3. stage' # "none" => stage # "none" \/ index =< Len(result)
    BY <1>3 DEF TaskStep, QueueTicket, Resolve, Read, ReadDamaged, ReadWithout, StorageFails,
                UseTicket, ReceiveResult, Write, Complete, LoseTicket, WorkerEnds, Cancel,
                AttemptFails, Continue, Abort, taskVars
  <2>4. Len(result) = Size
    BY <1>0, <2>1 DEF PhaseInv
  <2>. QED
    BY <1>0, <2>1, <2>2, <2>3, <2>4 DEF LoopInv, Before
<1>4. CASE (\E o \in late : LateOpen(o)) \/ UNCHANGED vars
  <2>1. UNCHANGED <<phase, result, index, stage, resources>>
    BY <1>4 DEF LateOpen, vars, sortVars, taskVars
  <2>. QED
    BY <1>0, <2>1 DEF LoopInv, Before
<1>. QED
  BY <1>1, <1>2, <1>3, <1>4, StepCases

(* What has been written stays written, or is emptied.                     *)
LEMMA SavedKept ==
  ASSUME LocalIInv, [Next]_vars
  PROVE  /\ stored \cup torn \subseteq stored' \cup torn'
         /\ \A t \in Task : Saved(t) => Saved(t)'
<1>1. stored \cup torn \subseteq stored' \cup torn'
  <2>1. CASE SortStep \/ UNCHANGED vars
    BY <2>1 DEF SortStep, Parse, Pop, Sorted, storeVars, vars
  <2>2. CASE TaskStep
    <3>1. torn' = torn /\ stored \subseteq stored'
      BY <2>2 DEF TaskStep, QueueTicket, Resolve, Read, ReadDamaged, ReadWithout, StorageFails,
                  UseTicket, ReceiveResult, Write, FinishTask, Complete, LoseTicket,
                WorkerEnds, Cancel,
                  AttemptFails, storeVars
    <3>. QED
      BY <3>1
  <2>3. CASE \E o \in late : LateOpen(o)
    BY <2>3 DEF LateOpen
  <2>. QED
    BY <2>1, <2>2, <2>3, StepCases
<1>. QED
  BY <1>1, FileFixed DEF Saved

(* A part is written when its turn comes; what is left to read is what is    *)
(* left of the fields of the task.                                         *)
LEMMA StoreStep ==
  ASSUME LocalIInv, [Next]_vars
  PROVE  StoreInv'
<1>0. /\ StoreInv /\ LocalTypeOK /\ PhaseInv /\ file' = file
      /\ stored \cup torn \subseteq stored' \cup torn'
      /\ \A t \in Task : Saved(t) => Saved(t)'
  BY FileFixed, SavedKept DEF LocalIInv
<1> DEFINE Here ==
      /\ stage' = "leaving" => Saved(Current)'
      /\ stage' = "writing" =>
           /\ todo' # <<>>
           /\ \A p \in ToSet(SavedParts(CurrentTask))' :
                <<Current', p>> \in stored' \cup torn' \/ p \in ToSet(todo')
      /\ stage' = "reading" => \A n \in DOMAIN todo' : todo'[n][1] \in InputsOf(CurrentTask)'
<1>1. ASSUME UNCHANGED resources, Here PROVE StoreInv'
  <2>1. \A t \in resources : t \in Task /\ Saved(t)
    BY <1>0 DEF StoreInv, LocalTypeOK
  <2>2. \A t \in resources' : Saved(t)'
    BY <1>0, <1>1, <2>1
  <2>. QED
    BY <1>1, <2>2 DEF StoreInv
<1>2. CASE SortStep
  <2>1. stage' = "none" /\ UNCHANGED resources
    BY <1>0, <1>2 DEF SortStep, Parse, Pop, Sorted, taskVars, PhaseInv
  <2>. QED
    BY <1>1, <2>1
<1>3. CASE (\E o \in late : LateOpen(o)) \/ UNCHANGED vars
  <2>1. UNCHANGED <<file, phase, result, index, stage, todo, resources>>
    BY <1>3 DEF LateOpen, vars, sortVars, taskVars
  <2>2. Current' = Current /\ CurrentTask' = CurrentTask
    BY <2>1 DEF Current, CurrentTask
  <2>3. ASSUME stage = "leaving" PROVE Saved(Current)'
    <3>1. Running
      BY <1>0, <2>3 DEF PhaseInv, Running
    <3>2. Current \in Task /\ Saved(Current)
      BY <1>0, <2>3, <3>1, CurrentIsTask DEF StoreInv
    <3>. QED
      BY <1>0, <2>2, <3>2 DEF Saved
  <2>. QED
    BY <1>0, <1>1, <2>1, <2>2, <2>3 DEF StoreInv
<1>4. CASE FinishTask
  <2>1. /\ Running /\ stage = "leaving" /\ stage' = "none"
        /\ resources' = resources \cup {Current}
    BY <1>4 DEF FinishTask, Continue
  <2>2. Current \in Task /\ Saved(Current)
    BY <1>0, <2>1, CurrentIsTask DEF StoreInv
  <2>3. \A t \in resources' : t \in Task /\ Saved(t)
    BY <1>0, <2>1, <2>2 DEF StoreInv, LocalTypeOK
  <2>4. \A t \in resources' : Saved(t)'
    BY <1>0, <2>3
  <2>. QED
    BY <2>1, <2>4 DEF StoreInv
<1>5. CASE TaskStep /\ ~FinishTask
  <2>1. Running /\ UNCHANGED <<file, result, index, resources>>
    <3>1. phase = "running" /\ UNCHANGED <<inDegree, queue, result>>
      BY <1>5, TaskStepShape
    <3>2. UNCHANGED <<index, resources>>
      BY <1>5 DEF TaskStep, QueueTicket, Resolve, Read, ReadDamaged, ReadWithout, StorageFails,
                  UseTicket, ReceiveResult, Write, Complete, LoseTicket, WorkerEnds, Cancel
    <3>. QED
      BY <1>0, <3>1, <3>2 DEF Running
  <2>2. Current' = Current /\ CurrentTask' = CurrentTask
    BY <2>1 DEF Current, CurrentTask
  <2>3. ASSUME stage' \notin {"reading", "writing", "leaving"} PROVE StoreInv'
    BY <1>1, <2>1, <2>3
  <2>4. ASSUME UNCHANGED <<stage, todo>>, stage # "leaving" PROVE StoreInv'
    BY <1>0, <1>1, <2>1, <2>2, <2>4 DEF StoreInv
  <2>5. ASSUME AttemptFails \/ Abort PROVE StoreInv'
    <3>1. CASE Abort
      BY <2>3, <3>1 DEF Abort
    <3>2. CASE ~Abort
      <4>1. UNCHANGED <<stage, todo>> /\ stage # "leaving"
        BY <2>5, <3>2 DEF AttemptFails, Continue
      <4>. QED
        BY <2>4, <4>1
    <3>. QED
      BY <3>1, <3>2
  <2>6. CASE QueueTicket \/ UseTicket \/ Complete
    <3>1. stage' \notin {"reading", "writing", "leaving"}
      BY <2>6 DEF QueueTicket, UseTicket, Complete, Continue, taskVars
    <3>. QED
      BY <2>3, <3>1
  <2>7. CASE Resolve
    <3>1. Abort \/ Continue("reading", ReadsOf(CurrentTask), 1)
      BY <2>7 DEF Resolve
    <3>2. CASE Continue("reading", ReadsOf(CurrentTask), 1)
      <4>1. stage' = "reading" /\ todo' = ReadsOf(CurrentTask) /\ stage = "ticket"
        BY <2>7, <3>2 DEF Continue, Resolve
      <4>2. \A n \in DOMAIN todo' : todo'[n][1] \in InputsOf(CurrentTask)
        BY <2>1, <4>1, CurrentIsTask, ReadsAreInputs
      <4>. QED
        BY <1>1, <2>1, <2>2, <4>1, <4>2
    <3>. QED
      BY <2>5, <3>1, <3>2
  <2>8. CASE Read \/ ReadWithout
    <3>1. stage = "reading" /\ stage' = "reading" /\ todo # <<>> /\ todo' = Tail(todo)
      BY <2>8 DEF Read, ReadWithout, Continue
    <3>2. \A n \in DOMAIN Tail(todo) : n + 1 \in DOMAIN todo /\ Tail(todo)[n] = todo[n + 1]
      BY <1>0, <3>1, HeadTail DEF LocalTypeOK
    <3>3. \A n \in DOMAIN todo : todo[n][1] \in InputsOf(CurrentTask)
      BY <1>0, <3>1 DEF StoreInv
    <3>4. \A n \in DOMAIN todo' : todo'[n][1] \in InputsOf(CurrentTask)
      BY <3>1, <3>2, <3>3
    <3>. QED
      BY <1>1, <2>1, <2>2, <3>1, <3>4
  <2>9. CASE ReadDamaged \/ StorageFails \/ Cancel
    BY <2>5, <2>9 DEF ReadDamaged, StorageFails, Cancel
  <2>10. CASE ReceiveResult
    <3>1. stage' = "writing" /\ todo' = SavedParts(CurrentTask)
      BY <2>10 DEF ReceiveResult, Continue
    <3>. QED
      BY <1>1, <2>1, <2>2, <3>1, SavedPartsType
  <2>11. CASE Write
    <3>1. /\ stage = "writing" /\ stored' = stored \cup {<<Current, Head(todo)>>}
          /\ IF Len(todo) = 1 THEN stage' = "leaving"
                              ELSE stage' = "writing" /\ todo' = Tail(todo)
      BY <2>11 DEF Write, Continue
    <3>2. /\ todo # <<>> /\ todo \in Seq(PartName)
          /\ \A p \in ToSet(SavedParts(CurrentTask)) :
               <<Current, p>> \in stored \cup torn \/ p \in ToSet(todo)
      BY <1>0, <3>1 DEF StoreInv, LocalTypeOK
    <3>3. /\ ToSet(todo) = {Head(todo)} \cup ToSet(Tail(todo))
          /\ Len(todo) = 1 => ToSet(Tail(todo)) = {}
          /\ Tail(todo) = <<>> => Len(todo) = 1
      BY <3>2, HeadTail
    <3>4. \A p \in ToSet(SavedParts(CurrentTask)) :
            <<Current, p>> \in stored' \cup torn' \/ p \in ToSet(Tail(todo))
      BY <1>0, <3>1, <3>2, <3>3
    <3>5. CASE Len(todo) = 1
      BY <1>1, <2>1, <2>2, <3>1, <3>3, <3>4, <3>5 DEF Saved, CurrentTask
    <3>6. CASE Len(todo) # 1
      BY <1>1, <2>1, <2>2, <3>1, <3>3, <3>4, <3>6
    <3>. QED
      BY <3>5, <3>6
  <2>12. CASE LoseTicket \/ WorkerEnds
    <3>1. UNCHANGED <<stage, todo>>
      BY <2>12 DEF LoseTicket, WorkerEnds
    <3>2. CASE stage = "leaving"
      <4>1. Saved(Current)'
        BY <1>0, <2>1, <2>2, <3>2, CurrentIsTask DEF StoreInv
      <4>. QED
        BY <1>1, <2>1, <3>1, <3>2, <4>1
    <3>. QED
      BY <2>4, <3>1, <3>2
  <2>. QED
    BY <1>5, <2>6, <2>7, <2>8, <2>9, <2>10, <2>11, <2>12 DEF TaskStep
<1>. QED
  BY <1>2, <1>3, <1>4, <1>5, StepCases

LEMMA LocalNext == LocalIInv /\ [Next]_vars => LocalIInv'
BY TypeStep, OrderStep, LoopStep, StoreStep DEF LocalIInv

LEMMA LocalInvariance == Spec => []LocalIInv
BY LocalInit, LocalNext, PTL DEF Spec

-----------------------------------------------------------------------------
(* Theorems                                                                *)

(* The variables keep their types, whatever the file.                      *)
THEOREM LocalTypeCorrect == Spec => []LocalTypeOK
<1>1. LocalIInv => LocalTypeOK
  BY DEF LocalIInv
<1>. QED
  BY <1>1, LocalInvariance, PTL

(* A task that reads the output of another one finds each part written, or  *)
(* emptied by a late open: for a link, topsort put the task it names before *)
(* the one that reads, and `run` goes on to the next task only when all     *)
(* parts are saved, whatever attempts failed in between.                   *)
THEOREM TasksReadWhatWasSaved == Spec => []ReadsWhatWasSaved
<1>1. LocalIInv => ReadsWhatWasSaved
  <2> SUFFICES ASSUME LocalIInv, Running, stage = "reading",
                      NEW n \in DOMAIN todo,
                      NEW t \in Referred(file, CurrentTask.inputs[todo[n][1]]),
                      todo[n][2] \in ToSet(SavedParts(file.tasks[t]))
               PROVE  <<t, todo[n][2]>> \in stored \cup torn
    BY DEF ReadsWhatWasSaved
  <2>1. todo[n][1] \in InputsOf(CurrentTask)
    BY DEF LocalIInv, StoreInv
  <2>2. Current \in Task /\ Refers[Current] \subseteq resources
    BY CurrentIsTask
  <2>3. t \in resources
    BY <2>1, <2>2, FieldRefers DEF CurrentTask
  <2>. QED
    BY <2>3 DEF LocalIInv, StoreInv, Saved
<1>. QED
  BY <1>1, LocalInvariance, PTL

(* The tasks that are sound in the sense of Dag are those that topsort puts *)
(* in order.                                                               *)
LEMMA LinksAreRefers ==
  ASSUME ~Malformed
  PROVE  Links = Refers
BY DEF Links

LEMMA SoundWhenRunning ==
  ASSUME LocalIInv, phase = "running"
  PROVE  D!Sound
<1>1. ~Malformed /\ (\A t \in Task : Nowhere \notin Refers[t]) /\ Len(result) = Size
  BY DEF LocalIInv, PhaseInv
<1>2. Links = Refers
  BY <1>1, LinksAreRefers
<1>3. ~D!Cyclic
  BY <1>1, <1>2, OrderedIsAcyclic DEF D!Cyclic
<1>. QED
  BY <1>1, <1>2, <1>3 DEF D!Sound

(* The map is refused if and only if Dag refuses it, and the tasks finish as *)
(* Dag lets them run: the detailed specification implements the promise of *)
(* the standalone mode.                                                    *)
THEOREM LocalImplementsDag == Spec => ImplementsDag
<1>1. Init => D!Init
  <2> SUFFICES ASSUME Init PROVE D!Init
    OBVIOUS
  <2>1. file \in Files /\ resources = {} /\ phase = "parsing"
    BY DEF Init
  <2>2. Links \in [Task -> SUBSET (Task \cup {Nowhere})]
    BY <2>1, RefersType DEF Links
  <2>3. Malformed \in BOOLEAN
    BY DEF Malformed
  <2>4. Outcome = "none"
    BY <2>1 DEF Outcome, Ended
  <2>. QED
    BY <2>1, <2>2, <2>3, <2>4 DEF D!Init
<1>2. LocalIInv /\ [Next]_vars => [D!Next]_D!vars
  <2> SUFFICES ASSUME LocalIInv, [Next]_vars PROVE [D!Next]_D!vars
    OBVIOUS
  <2>0. UNCHANGED <<Links, Malformed>> /\ PhaseInv /\ LoopInv
    BY FileFixed DEF LocalIInv
  <2>1. ASSUME UNCHANGED <<resources, Outcome>> PROVE [D!Next]_D!vars
    BY <2>0, <2>1 DEF D!vars
  <2>2. ASSUME UNCHANGED resources, ~D!Sound, Outcome = "none", Outcome' = "refused"
        PROVE  [D!Next]_D!vars
    BY <2>0, <2>2 DEF D!Next, D!Refuse
  <2>3. ASSUME phase = "running", phase' = "stopped", UNCHANGED resources
        PROVE  [D!Next]_D!vars
    <3>1. Outcome = "none" /\ Outcome' = "stopped"
      BY <2>3 DEF Outcome, Ended
    <3>2. D!Stop
      BY <2>0, <2>3, <3>1, SoundWhenRunning DEF D!Stop
    <3>. QED
      BY <3>2 DEF D!Next
  <2>4. CASE Parse
    <3>1. /\ phase = "parsing" /\ UNCHANGED resources /\ file \in Files
          /\ phase' \in {"sorting", "refused", "raised"}
      BY <2>4 DEF Parse, LocalIInv, LocalTypeOK
    <3>2. Outcome = "none"
      BY <3>1 DEF Outcome, Ended
    <3>3. CASE phase' = "sorting"
      BY <2>1, <3>1, <3>2, <3>3 DEF Outcome, Ended
    <3>4. CASE phase' \in {"refused", "raised"}
      <4>1. \/ ~file.readable \/ ParseFails(file)
            \/ \E t \in Task : Nowhere \in Refers[t]
        BY <2>4, <3>4 DEF Parse
      <4>2. ~D!Sound
        <5>1. Malformed \/ \E t \in Task : Nowhere \in Links[t]
          BY <3>1, <4>1, ParseIsExact, LinksAreRefers
        <5>. QED
          BY <5>1 DEF D!Sound
      <4>3. Outcome' = "refused"
        BY <3>4 DEF Outcome, Ended
      <4>. QED
        BY <2>2, <3>1, <3>2, <4>2, <4>3
    <3>. QED
      BY <3>1, <3>3, <3>4
  <2>5. CASE Sorted
    <3>1. /\ phase = "sorting" /\ queue = <<>> /\ UNCHANGED resources
          /\ phase' = IF Len(result) = Size THEN "running" ELSE "refused"
      BY <2>5 DEF Sorted
    <3>2. Outcome = "none"
      BY <3>1 DEF Outcome, Ended
    <3>3. CASE Len(result) = Size
      BY <2>1, <3>1, <3>2, <3>3 DEF Outcome, Ended
    <3>4. CASE Len(result) # Size
      <4>1. Links = Refers
        BY <2>0, <3>1, LinksAreRefers DEF PhaseInv
      <4>2. D!Cyclic
        BY <3>1, <3>4, <4>1, LeftIsCyclic DEF D!Cyclic
      <4>3. Outcome' = "refused"
        BY <3>1, <3>4 DEF Outcome, Ended
      <4>. QED
        BY <2>2, <3>1, <3>2, <4>2, <4>3 DEF D!Sound
    <3>. QED
      BY <3>3, <3>4
  <2>6. CASE FinishTask
    <3>1. /\ Running /\ stage = "leaving" /\ phase' = phase /\ UNCHANGED result
          /\ resources' = resources \cup {Current}
      BY <2>6 DEF FinishTask, Continue, sortVars
    <3>2. Current \in Task /\ Refers[Current] \subseteq resources /\ index \in 1 .. Len(result)
      BY <3>1, CurrentIsTask
    <3>3. Current \notin resources
      <4>1. index \in Nat /\ \A i, j \in 1 .. Len(result) : result[i] = result[j] => i = j
        BY DEF LocalIInv, LocalTypeOK, OrderInv, Distinct
      <4>2. ASSUME NEW j \in 1 .. index - 1 PROVE result[j] # result[index]
        <5>1. j \in 1 .. Len(result) /\ j # index
          BY <3>2, <4>1, LenProperties DEF LocalIInv, LocalTypeOK
        <5>. QED
          BY <3>2, <4>1, <5>1
      <4>. QED
        BY <2>0, <4>2 DEF LoopInv, Before, Current
    <3>4. Links = Refers
      BY <2>0, <3>1, LinksAreRefers DEF PhaseInv, Running
    <3>5. Outcome = "none" /\ Outcome' = "none"
      BY <3>1 DEF Outcome, Ended, Running
    <3>6. D!Run(Current)
      BY <2>0, <3>1, <3>2, <3>3, <3>4, <3>5, SoundWhenRunning DEF D!Run, Running
    <3>. QED
      BY <3>2, <3>6 DEF D!Next
  <2>7. CASE Complete
    <3>1. /\ Running /\ index > Len(result) /\ phase' = "completed" /\ UNCHANGED resources
      BY <2>7 DEF Complete
    <3>2. Outcome = "none" /\ Outcome' = "completed"
      BY <3>1 DEF Outcome, Ended, Running
    <3>3. resources = Task
      <4>1. /\ Len(result) = Size /\ index \in Nat /\ index =< Size + 1 /\ Size \in Nat
            /\ result \in Seq(Task)
        BY <2>0, <3>1, PipelineAssumption DEF PhaseInv, LoopInv, Running, LocalIInv, LocalTypeOK
      <4>2. index - 1 = Len(result)
        BY <3>1, <4>1
      <4>3. Before(index) = ToSet(result)
        BY <4>1, <4>2, LenProperties DEF Before, ToSet
      <4>. QED
        BY <2>0, <4>1, <4>3, SortedAll DEF LoopInv
    <3>4. D!Complete
      BY <2>0, <3>1, <3>2, <3>3, SoundWhenRunning DEF D!Complete, Running
    <3>. QED
      BY <3>4 DEF D!Next
  <2>8. CASE TaskStep /\ ~FinishTask /\ ~Complete
    <3>1. phase = "running"
      BY <2>8, TaskStepShape
    <3>2. UNCHANGED resources /\ phase' \in {"running", "stopped"}
      BY <2>8, <3>1 DEF TaskStep, QueueTicket, Resolve, Read, ReadDamaged, ReadWithout,
                   StorageFails, UseTicket, ReceiveResult, Write, LoseTicket, WorkerEnds, Cancel,
                   AttemptFails, Continue, Abort
    <3>3. phase' = "running" => UNCHANGED Outcome
      BY <3>1 DEF Outcome
    <3>. QED
      BY <2>1, <2>3, <3>1, <3>2, <3>3
  <2>9. CASE Pop \/ (\E o \in late : LateOpen(o)) \/ UNCHANGED vars
    <3>1. UNCHANGED <<phase, resources>>
      BY <2>9 DEF Pop, LateOpen, vars
    <3>. QED
      BY <2>1, <3>1 DEF Outcome
  <2>. QED
    BY <2>4, <2>5, <2>6, <2>7, <2>8, <2>9, StepCases DEF SortStep
<1>. QED
  BY <1>1, <1>2, LocalInvariance, PTL DEF Spec, ImplementsDag, D!Spec
=============================================================================
