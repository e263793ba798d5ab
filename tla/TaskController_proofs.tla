------------------------ MODULE TaskController_proofs ------------------------
(***************************************************************************)
(* Proofs about TaskController, for any log, any tasks in it and any number *)
(* of restarts.  What depends on the dictionaries of the cancellation       *)
(* service is proved for tasks that do not share an id.                    *)
(***************************************************************************)
EXTENDS TaskController, SequenceTheorems, TLAPS

Verdicts == {"result", "failed", "cancelled"}

-----------------------------------------------------------------------------
(* Type correctness                                                        *)

LEMMA InitTypeOK == Init => TypeOK
<1> SUFFICES ASSUME Init PROVE TypeOK
  OBVIOUS
<1>1. CancelTypeOK
  BY CancellationAssumption DEF Init, CancelInit, CancelTypeOK, Unfinished, Finished
<1>2. answers \in [Instance -> Seq(Verdicts)]
  BY DEF Init
<1>. QED
  BY <1>1, <1>2, ControllerAssumption DEF Init, TypeOK, Verdicts

LEMMA CancelTypeStep ==
  ASSUME CancelTypeOK, NEW i \in Instance,
         \/ Create(i)
         \/ \E b \in BOOLEAN : Checked(i, b)
         \/ Begin(i)
         \/ \E how \in {"done", "failed"} : Finish(i, how)
         \/ \E how \in {"cancelled", "failed", "leaving"} : Interrupt(i, how)
         \/ \E how \in {"cancelled", "failed"} : Left(i, how)
         \/ Hurry(i)
         \/ Untrack(i)
  PROVE  CancelTypeOK'
<1> USE CancellationAssumption DEF CancelTypeOK, Unfinished, Finished
<1>1. CASE Create(i)
  BY <1>1 DEF Create
<1>2. ASSUME NEW b \in BOOLEAN, Checked(i, b) PROVE CancelTypeOK'
  BY <1>2 DEF Checked
<1>3. CASE Begin(i)
  BY <1>3 DEF Begin
<1>4. ASSUME NEW how \in {"done", "failed"}, Finish(i, how) PROVE CancelTypeOK'
  BY <1>4 DEF Finish
<1>5. ASSUME NEW how \in {"cancelled", "failed", "leaving"}, Interrupt(i, how)
      PROVE  CancelTypeOK'
  BY <1>5 DEF Interrupt
<1>6. ASSUME NEW how \in {"cancelled", "failed"}, Left(i, how) PROVE CancelTypeOK'
  BY <1>6 DEF Left
<1>7. CASE Hurry(i)
  BY <1>7 DEF Hurry
<1>8. CASE Untrack(i)
  BY <1>8 DEF Untrack
<1>. QED
  BY <1>1, <1>2, <1>3, <1>4, <1>5, <1>6, <1>7, <1>8

(* What a push does to the inner tasks.                                    *)
LEMMA CancelInnerEffect ==
  ASSUME CancelTypeOK, NEW id \in Id, CancelInner(id)
  PROVE  /\ inner' \in [Instance -> {"none"} \cup Unfinished \cup Finished]
         /\ \A i \in Instance : \/ inner'[i] = inner[i]
                                \/ inner[i] = "leaving" /\ inner'[i] = "hurried"
         /\ asked \subseteq asked' /\ asked' \subseteq Instance
  BY DEF CancelInner, CancelTypeOK, Unfinished, Finished

LEMMA AnswerType ==
  ASSUME TypeOK, NEW i \in Instance, NEW a \in Verdicts, Answer(i, a)
  PROVE  /\ answers' \in [Instance -> Seq(Verdicts)]
         /\ answers' = [answers EXCEPT ![i] = Append(answers[i], a)]
         /\ committed' \in 1 .. LogLength + 1
         /\ unsent' \subseteq Instance
  BY ControllerAssumption DEF Answer, TypeOK, Verdicts

LEMMA RaisesType ==
  ASSUME TypeOK, NEW i \in Instance, AnswerRaises(i)
  PROVE  /\ UNCHANGED <<answers, committed>>
         /\ unsent' \subseteq Instance
  BY DEF AnswerRaises, TypeOK

LEMMA TypeStep == TypeOK /\ [Next]_allVars => TypeOK'
<1> SUFFICES ASSUME TypeOK, [Next]_allVars PROVE TypeOK'
  OBVIOUS
<1> USE ControllerAssumption
<1>1. ASSUME Skip PROVE TypeOK'
  BY <1>1 DEF Skip, TypeOK, cancelVars, CancelTypeOK
<1>2. ASSUME Restart PROVE TypeOK'
  <2>1. CancelTypeOK'
    BY <1>2, CancellationAssumption DEF Restart, CancelTypeOK, Unfinished, Finished
  <2>2. answers' \in [Instance -> Seq(Verdicts)]
    BY <1>2 DEF Restart
  <2>. QED
    BY <1>2, <2>1, <2>2 DEF Restart, TypeOK, Verdicts
<1>3. ASSUME NEW id \in Id, PushCancel(id) PROVE TypeOK'
  <2>1. CancelTypeOK'
    BY <1>3, CancelInnerEffect DEF PushCancel, Push, TypeOK, CancelTypeOK, controllerVars
  <2>. QED
    BY <1>3, <2>1 DEF PushCancel, TypeOK, controllerVars
<1>4. ASSUME NEW i \in Instance, Accept(i) PROVE TypeOK'
  <2>1. CancelTypeOK'
    BY <1>4, CancelTypeStep DEF Accept, TypeOK
  <2>. QED
    BY <1>4, <2>1 DEF Accept, TypeOK
<1>5. ASSUME NEW i \in Instance, SendResult(i) PROVE TypeOK'
  <2>1. CancelTypeOK'
    BY <1>5, CancelTypeStep DEF SendResult, TypeOK
  <2>2. /\ answers' \in [Instance -> Seq(Verdicts)]
        /\ committed' \in 1 .. LogLength + 1
        /\ unsent' \subseteq Instance
    BY <1>5, AnswerType, RaisesType DEF SendResult, TypeOK, Verdicts
  <2>. QED
    BY <1>5, <2>1, <2>2 DEF SendResult, TypeOK, Verdicts
<1>6. ASSUME NEW i \in Instance, WorkFails(i) PROVE TypeOK'
  <2>1. CancelTypeOK'
    BY <1>6, CancelTypeStep DEF WorkFails, TypeOK
  <2>. QED
    BY <1>6, <2>1 DEF WorkFails, TypeOK, controllerVars
<1>7. ASSUME NEW i \in Instance,
             \/ \E b \in BOOLEAN : Checked(i, b)
             \/ Begin(i)
             \/ Untrack(i),
             UNCHANGED controllerVars
      PROVE  TypeOK'
  <2>1. CancelTypeOK'
    BY <1>7, CancelTypeStep DEF TypeOK
  <2>. QED
    BY <1>7, <2>1 DEF TypeOK, controllerVars
<1>8. ASSUME NEW i \in Instance, Canceled(i) PROVE TypeOK'
  <2>1. CancelTypeOK'
    BY <1>8, CancelTypeStep DEF Canceled, TypeOK
  <2>2. /\ answers' \in [Instance -> Seq(Verdicts)]
        /\ committed' \in 1 .. LogLength + 1
        /\ unsent' \subseteq Instance
    BY <1>8, AnswerType DEF Canceled, TypeOK, Verdicts
  <2>. QED
    BY <1>8, <2>1, <2>2 DEF Canceled, TypeOK, Verdicts
<1>9. ASSUME NEW i \in Instance, Handle(i) PROVE TypeOK'
  <2>1. /\ answers' \in [Instance -> Seq(Verdicts)]
        /\ committed' \in 1 .. LogLength + 1
        /\ unsent' \subseteq Instance
    BY <1>9, AnswerType, RaisesType
    DEF Handle, Completed, CanceledHere, Failed, TypeOK, Verdicts
  <2>2. CancelTypeOK'
    BY <1>9 DEF Handle, TypeOK, CancelTypeOK, cancelVars
  <2>. QED
    BY <1>9, <2>1, <2>2 DEF Handle, TypeOK, Verdicts
<1>10. ASSUME NEW i \in Instance, Retreat(i) \/ Hurried(i) PROVE TypeOK'
  <2>1. CancelTypeOK'
    BY <1>10, CancelTypeStep DEF Retreat, Hurried, TypeOK
  <2>. QED
    BY <1>10, <2>1 DEF Retreat, Hurried, TypeOK, controllerVars
<1>11. ASSUME NEW i \in Instance, Closed(i) PROVE TypeOK'
  <2>1. CancelTypeOK'
    BY <1>11, CancelTypeStep DEF Closed, TypeOK
  <2>. QED
    BY <1>11, <2>1 DEF Closed, TypeOK
<1>12. ASSUME NEW i \in Instance, Strand(i) PROVE TypeOK'
  BY <1>12 DEF Strand, TypeOK, cancelVars, CancelTypeOK
<1>13. CASE UNCHANGED allVars
  BY <1>13 DEF allVars, cancelVars, controllerVars, TypeOK, CancelTypeOK
<1>. QED
  BY <1>1, <1>2, <1>3, <1>4, <1>5, <1>6, <1>7, <1>8, <1>9, <1>10, <1>11, <1>12, <1>13
  DEF Next, Progress, Cancellable

(* Offsets stay within the log, and all else keeps its type.               *)
THEOREM ControllerTypeCorrect == Spec => []TypeOK
BY InitTypeOK, TypeStep, PTL DEF Spec
-----------------------------------------------------------------------------
(* Answers                                                                 *)

(* How far a task, its inner task and its handling are with each other.    *)
StageInv ==
  \A i \in Instance :
    /\ outer[i] = "ended" => inner[i] \in Finished
    /\ handling[i] = "none" <=> outer[i] = "none"
    /\ handling[i] = "over" => outer[i] = "ended"
    /\ inner[i] \in {"leaving", "hurried", "cancelled"} => i \in asked

(* Before it is handled to the end, a task has no answer but its result,    *)
(* sent by its own work or while that was being canceled.                  *)
Early(i) ==
  /\ inner[i] = "done" => answers[i] = <<"result">>
  /\ inner[i] # "done" => answers[i] = <<>> \/ (answers[i] = <<"result">> /\ i \in asked)
  /\ inner[i] \notin Finished => answers[i] = <<>>

Doubled(i) == i \in asked /\ answers[i] \in {<<"result", "cancelled">>, <<"result", "failed">>}

AnswersInv ==
  \A i \in Instance :
    /\ handling[i] # "over" => Early(i)
    /\ handling[i] = "over" => answers[i] = <<>> \/ (\E a \in Verdicts : answers[i] = <<a>>)
                               \/ Doubled(i)

AInv == TypeOK /\ StageInv /\ AnswersInv

LEMMA InitAInv == Init => StageInv /\ AnswersInv
  BY DEF Init, CancelInit, StageInv, AnswersInv, Early, Finished

LEMMA StageStep == AInv /\ [Next]_allVars => StageInv'
<1> SUFFICES ASSUME AInv, [Next]_allVars PROVE StageInv'
  OBVIOUS
<1> USE DEF Finished, Unfinished, StageInv, controllerVars, cancelVars
<1>0. /\ TypeOK /\ CancelTypeOK /\ StageInv
      /\ outer \in [Instance -> {"none", "checking", "awaiting", "ended"}]
      /\ inner \in [Instance -> {"none"} \cup Unfinished \cup Finished]
      /\ handling \in [Instance -> {"none", "awaiting", "over"}]
      /\ \A i \in Instance : inner[i] = "none" <=> outer[i] \in {"none", "checking"}
  BY DEF AInv, TypeOK, CancelTypeOK
<1>1. ASSUME Skip PROVE StageInv'
  BY <1>0, <1>1 DEF Skip
<1>2. ASSUME Restart PROVE StageInv'
  BY <1>2 DEF Restart
<1>3. ASSUME NEW id \in Id, PushCancel(id) PROVE StageInv'
  BY <1>0, <1>3, CancelInnerEffect DEF PushCancel, Push
<1>4. ASSUME NEW i \in Instance, Accept(i) PROVE StageInv'
  BY <1>0, <1>4 DEF Accept, Create
<1>5. ASSUME NEW i \in Instance, SendResult(i) PROVE StageInv'
  BY <1>0, <1>5 DEF SendResult, Finish
<1>6. ASSUME NEW i \in Instance, WorkFails(i) PROVE StageInv'
  BY <1>0, <1>6 DEF WorkFails, Finish
<1>7. ASSUME NEW i \in Instance, NEW b \in BOOLEAN, Checked(i, b), UNCHANGED controllerVars
      PROVE  StageInv'
  BY <1>0, <1>7 DEF Checked
<1>8. ASSUME NEW i \in Instance, Begin(i), UNCHANGED controllerVars PROVE StageInv'
  BY <1>0, <1>8 DEF Begin
<1>9. ASSUME NEW i \in Instance, Untrack(i), UNCHANGED controllerVars PROVE StageInv'
  BY <1>0, <1>9 DEF Untrack
<1>10. ASSUME NEW i \in Instance, Canceled(i) PROVE StageInv'
  BY <1>0, <1>10 DEF Canceled, Interrupt
<1>11. ASSUME NEW i \in Instance, Handle(i) PROVE StageInv'
  BY <1>0, <1>11 DEF Handle
<1>12. ASSUME NEW i \in Instance, Retreat(i) PROVE StageInv'
  BY <1>0, <1>12 DEF Retreat, Interrupt
<1>13. ASSUME NEW i \in Instance, Closed(i) PROVE StageInv'
  BY <1>0, <1>13 DEF Closed, Left
<1>14. ASSUME NEW i \in Instance, Hurried(i) PROVE StageInv'
  BY <1>0, <1>14 DEF Hurried, Hurry
<1>15. ASSUME NEW i \in Instance, Strand(i) PROVE StageInv'
  BY <1>0, <1>15 DEF Strand
<1>16. CASE UNCHANGED allVars
  BY <1>0, <1>16 DEF allVars
<1>. QED
  BY <1>1, <1>2, <1>3, <1>4, <1>5, <1>6, <1>7, <1>8, <1>9, <1>10, <1>11, <1>12, <1>13,
     <1>14, <1>15, <1>16
  DEF Next, Progress, Cancellable

LEMMA AppendToOne ==
  ASSUME NEW a, NEW b
  PROVE  Append(<<b>>, a) = <<b, a>>
<1> DEFINE s == <<b>>
           t == <<b, a>>
           S == {a, b}
<1>1. /\ s \in Seq(S) /\ Len(s) = 1 /\ s[1] = b
      /\ t \in Seq(S) /\ Len(t) = 2 /\ t[1] = b /\ t[2] = a
      /\ a \in S
  OBVIOUS
<1>. HIDE DEF s, t, S
<1>2. /\ Append(s, a) \in Seq(S)
      /\ Len(Append(s, a)) = Len(s) + 1
      /\ \A i \in 1 .. Len(s) : Append(s, a)[i] = s[i]
      /\ Append(s, a)[Len(s) + 1] = a
  <2>1. s \in Seq(S) /\ a \in S
    BY <1>1
  <2>. QED
    BY <2>1, AppendProperties
<1>3. \A i \in 1 .. 2 : Append(s, a)[i] = t[i]
  BY <1>1, <1>2
<1>4. Append(s, a) = t
  BY <1>1, <1>2, <1>3, SeqEqual
<1>. QED
  BY <1>4 DEF s, t

(* An answer is added behind the ones there are.                           *)
LEMMA AnswerAppends ==
  ASSUME TypeOK, NEW i \in Instance, NEW a \in Verdicts, Answer(i, a)
  PROVE  /\ answers[i] = <<>> => answers'[i] = <<a>>
         /\ answers[i] = <<"result">> => answers'[i] = <<"result", a>>
         /\ answers'[i] # <<>>
         /\ \A j \in Instance \ {i} : answers'[j] = answers[j]
<1>1. answers'[i] = Append(answers[i], a) /\ answers[i] \in Seq(Verdicts)
  BY AnswerType DEF TypeOK, Verdicts
<1>2. Append(<<>>, a) = <<a>>
  OBVIOUS
<1>3. Append(<<"result">>, a) = <<"result", a>>
  BY AppendToOne
<1>4. answers'[i] # <<>>
  BY <1>1
<1>5. answers' = [answers EXCEPT ![i] = Append(answers[i], a)]
  BY AnswerType
<1>6. \A j \in Instance \ {i} : answers'[j] = answers[j]
  BY <1>5 DEF TypeOK
<1>. QED
  BY <1>1, <1>2, <1>3, <1>4, <1>6

LEMMA AnswersStep == AInv /\ [Next]_allVars => AnswersInv'
<1> SUFFICES ASSUME AInv, [Next]_allVars PROVE AnswersInv'
  OBVIOUS
<1> USE DEF Finished, Unfinished, AnswersInv, Early, Doubled, controllerVars, cancelVars
<1>0. /\ TypeOK /\ CancelTypeOK /\ StageInv /\ AnswersInv
      /\ outer \in [Instance -> {"none", "checking", "awaiting", "ended"}]
      /\ inner \in [Instance -> {"none"} \cup Unfinished \cup Finished]
      /\ handling \in [Instance -> {"none", "awaiting", "over"}]
      /\ \A i \in Instance : inner[i] = "none" <=> outer[i] \in {"none", "checking"}
  BY DEF AInv, TypeOK, CancelTypeOK
<1>1. ASSUME Skip PROVE AnswersInv'
  BY <1>0, <1>1 DEF Skip
<1>2. ASSUME Restart PROVE AnswersInv'
  BY <1>2 DEF Restart
<1>3. ASSUME NEW id \in Id, PushCancel(id) PROVE AnswersInv'
  BY <1>0, <1>3, CancelInnerEffect DEF PushCancel, Push
<1>4. ASSUME NEW i \in Instance, Accept(i) PROVE AnswersInv'
  BY <1>0, <1>4 DEF Accept, Create, StageInv
<1>5. ASSUME NEW i \in Instance, SendResult(i) PROVE AnswersInv'
  <2>1. handling[i] # "over" /\ inner[i] = "working" /\ answers[i] = <<>>
    BY <1>0, <1>5 DEF SendResult, Finish, StageInv
  <2>2. CASE Finish(i, "done") /\ Answer(i, "result")
    BY <1>0, <1>5, <2>1, <2>2, AnswerAppends DEF SendResult, Finish, Verdicts
  <2>3. CASE Finish(i, "failed") /\ AnswerRaises(i)
    BY <1>0, <1>5, <2>1, <2>3 DEF SendResult, Finish, AnswerRaises
  <2>. QED
    BY <1>5, <2>2, <2>3 DEF SendResult
<1>6. ASSUME NEW i \in Instance, WorkFails(i) PROVE AnswersInv'
  BY <1>0, <1>6 DEF WorkFails, Finish
<1>7. ASSUME NEW i \in Instance, NEW b \in BOOLEAN, Checked(i, b), UNCHANGED controllerVars
      PROVE  AnswersInv'
  BY <1>0, <1>7 DEF Checked
<1>8. ASSUME NEW i \in Instance, Begin(i), UNCHANGED controllerVars PROVE AnswersInv'
  BY <1>0, <1>8 DEF Begin
<1>9. ASSUME NEW i \in Instance, Untrack(i), UNCHANGED controllerVars PROVE AnswersInv'
  BY <1>0, <1>9 DEF Untrack
<1>10. ASSUME NEW i \in Instance, Canceled(i) PROVE AnswersInv'
  <2>1. handling[i] # "over" /\ i \in asked /\ answers[i] = <<>>
        /\ inner[i] \in Unfinished
    BY <1>0, <1>10 DEF Canceled, Interrupt, StageInv
  <2>2. CASE UNCHANGED <<answers, committed, unsent>>
    BY <1>0, <1>10, <2>1, <2>2 DEF Canceled, Interrupt
  <2>3. CASE Answer(i, "result")
    BY <1>0, <1>10, <2>1, <2>3, AnswerAppends DEF Canceled, Interrupt, Verdicts
  <2>. QED
    BY <1>10, <2>2, <2>3 DEF Canceled
<1>11. ASSUME NEW i \in Instance, Handle(i) PROVE AnswersInv'
  <2>1. /\ handling[i] = "awaiting" /\ handling' = [handling EXCEPT ![i] = "over"]
        /\ Early(i) /\ UNCHANGED <<inner, asked>>
    BY <1>0, <1>11 DEF Handle
  <2>2. CASE UNCHANGED answers
    BY <1>0, <2>1, <2>2 DEF Verdicts
  <2>3. CASE inner[i] = "cancelled" /\ Answer(i, "cancelled")
    BY <1>0, <2>1, <2>3, AnswerAppends DEF Verdicts
  <2>4. CASE inner[i] = "failed" /\ Answer(i, "failed")
    BY <1>0, <2>1, <2>4, AnswerAppends DEF Verdicts
  <2>. QED
    BY <1>11, <2>2, <2>3, <2>4 DEF Handle, Completed, CanceledHere, Failed, AnswerRaises
<1>12. ASSUME NEW i \in Instance, Retreat(i) PROVE AnswersInv'
  BY <1>0, <1>12 DEF Retreat, Interrupt
<1>13. ASSUME NEW i \in Instance, Closed(i) PROVE AnswersInv'
  BY <1>0, <1>13 DEF Closed, Left
<1>14. ASSUME NEW i \in Instance, Hurried(i) PROVE AnswersInv'
  BY <1>0, <1>14 DEF Hurried, Hurry
<1>15. ASSUME NEW i \in Instance, Strand(i) PROVE AnswersInv'
  BY <1>0, <1>15 DEF Strand
<1>16. CASE UNCHANGED allVars
  BY <1>0, <1>16 DEF allVars
<1>. QED
  BY <1>1, <1>2, <1>3, <1>4, <1>5, <1>6, <1>7, <1>8, <1>9, <1>10, <1>11, <1>12, <1>13,
     <1>14, <1>15, <1>16
  DEF Next, Progress, Cancellable

LEMMA AnswersInvariant == Spec => []AInv
<1>1. AInv /\ [Next]_allVars => AInv'
  BY TypeStep, StageStep, AnswersStep DEF AInv
<1>. QED
  BY <1>1, InitTypeOK, InitAInv, PTL DEF Spec, AInv

(* A task has a second answer only when it was canceled while its result    *)
(* was being committed, for any number of tasks and of restarts.           *)
THEOREM SecondAnswersAreCancellations == Spec => []SecondAnswerIsCancel
<1>1. AInv => SecondAnswerIsCancel
  <2> SUFFICES ASSUME AInv, NEW i \in Instance, Len(answers[i]) > 1
               PROVE  Doubled(i)
    BY DEF SecondAnswerIsCancel, Doubled
  <2>1. answers[i] # <<>>
    OBVIOUS
  <2>2. ASSUME NEW a, answers[i] = <<a>> PROVE FALSE
    <3>1. Len(<<a>>) = 1
      OBVIOUS
    <3>. QED
      BY <2>2, <3>1
  <2>. QED
    BY <2>1, <2>2 DEF AInv, AnswersInv, Early
<1>. QED
  BY <1>1, AnswersInvariant, PTL

-----------------------------------------------------------------------------
(* Restarts                                                                *)

(* What was fetched is behind the position, what was committed as well; and *)
(* a task under way that a restart would skip was overtaken.               *)
Overtaken(i) == \E s \in i + 1 .. position - 1 : s \in Instance => Settled(s)

OffsetsInv ==
  /\ committed =< position
  /\ \A i \in Instance : handling[i] # "none" => i < position
  /\ \A i \in Instance :
       handling[i] = "awaiting" /\ i < committed /\ ~Settled(i) => Overtaken(i)

LEMMA InitOffsets == Init => OffsetsInv
  BY DEF Init, OffsetsInv

(* Nothing becomes unsettled within a process.                             *)
LEMMA StaysSettled ==
  ASSUME TypeOK, NEW i \in Instance, NEW a \in Verdicts, Answer(i, a) \/ AnswerRaises(i),
         UNCHANGED settled
  PROVE  \A j \in Instance : Settled(j) => Settled(j)'
<1>1. CASE Answer(i, a)
  BY <1>1, AnswerAppends DEF Settled, Answer
<1>2. CASE AnswerRaises(i)
  BY <1>2 DEF Settled, AnswerRaises
<1>. QED
  BY <1>1, <1>2

LEMMA OffsetsStep == AInv /\ OffsetsInv /\ [Next]_allVars => OffsetsInv'
<1> SUFFICES ASSUME AInv, OffsetsInv, [Next]_allVars PROVE OffsetsInv'
  OBVIOUS
<1> USE ControllerAssumption DEF controllerVars
<1>0. /\ TypeOK /\ StageInv
      /\ position \in Nat /\ committed \in Nat
      /\ Instance \subseteq Nat
      /\ handling \in [Instance -> {"none", "awaiting", "over"}]
  BY DEF AInv, TypeOK
<1>a. ASSUME UNCHANGED <<position, committed, settled, answers, unsent>>,
             \A i \in Instance : handling'[i] = handling[i] \/ (handling[i] = "awaiting" /\ handling'[i] = "over")
      PROVE  OffsetsInv'
  BY <1>0, <1>a DEF OffsetsInv, Overtaken, Settled
(* The transaction of an answer, by the work or by `_handle`.              *)
<1>b. ASSUME NEW i \in Instance, NEW a \in Verdicts, Answer(i, a) \/ AnswerRaises(i),
             UNCHANGED <<position, settled>>, handling[i] = "awaiting",
             handling' \in [Instance -> {"none", "awaiting", "over"}],
             handling'[i] # "none", \A j \in Instance \ {i} : handling'[j] = handling[j]
      PROVE  OffsetsInv'
  <2>1. \A j \in Instance : Settled(j) => Settled(j)'
    BY <1>0, <1>b, StaysSettled
  <2>2. i < position
    BY <1>b DEF OffsetsInv
  <2>3. Settled(i)'
    BY <1>0, <1>b, AnswerAppends DEF Settled, AnswerRaises
  <2>4. committed' = i + 1 \/ committed' = committed
    BY <1>b DEF Answer, AnswerRaises
  <2>5. committed' =< position'
    BY <1>0, <1>b, <2>2, <2>4 DEF OffsetsInv
  <2>6. \A j \in Instance : handling'[j] # "none" => j < position'
    BY <1>0, <1>b DEF OffsetsInv
  <2>7. ASSUME NEW j \in Instance, handling'[j] = "awaiting", j < committed', ~Settled(j)'
        PROVE  Overtaken(j)'
    <3>1. j # i /\ ~Settled(j) /\ handling[j] = "awaiting"
      BY <1>b, <2>1, <2>3, <2>7
    <3>2. CASE j < committed
      <4>1. PICK s \in j + 1 .. position - 1 : s \in Instance => Settled(s)
        BY <3>1, <3>2 DEF OffsetsInv, Overtaken
      <4>. QED
        BY <1>b, <2>1, <4>1 DEF Overtaken
    <3>3. CASE ~(j < committed)
      <4>1. j < i + 1 /\ i \in j + 1 .. position' - 1
        BY <1>0, <1>b, <2>2, <2>4, <2>7, <3>1, <3>3
      <4>. QED
        BY <2>3, <4>1 DEF Overtaken
    <3>. QED
      BY <3>2, <3>3
  <2>. QED
    BY <2>5, <2>6, <2>7 DEF OffsetsInv
<1>1. ASSUME Skip PROVE OffsetsInv'
  <2>1. position \notin Instance /\ committed' = position + 1 /\ position' = position + 1
        /\ UNCHANGED <<handling, answers, unsent, settled>>
    BY <1>1 DEF Skip
  <2>2. ASSUME NEW i \in Instance, handling'[i] = "awaiting" PROVE Overtaken(i)'
    <3>1. i < position
      BY <2>1, <2>2 DEF OffsetsInv
    <3>2. position \in i + 1 .. position' - 1
      BY <1>0, <2>1, <3>1
    <3>. QED
      BY <2>1, <3>2 DEF Overtaken
  <2>. QED
    BY <1>0, <2>1, <2>2 DEF OffsetsInv
<1>2. ASSUME Restart PROVE OffsetsInv'
  BY <1>0, <1>2 DEF Restart, OffsetsInv
<1>3. ASSUME NEW id \in Id, PushCancel(id) PROVE OffsetsInv'
  BY <1>3, <1>a DEF PushCancel
<1>4. ASSUME NEW i \in Instance, Accept(i) PROVE OffsetsInv'
  <2>1. i = position /\ position' = position + 1 /\ handling' = [handling EXCEPT ![i] = "awaiting"]
        /\ UNCHANGED <<committed, answers, unsent, settled>>
    BY <1>4 DEF Accept
  <2>2. ASSUME NEW j \in Instance, handling'[j] = "awaiting", j < committed', ~Settled(j)'
        PROVE  Overtaken(j)'
    <3>1. j # i /\ handling[j] = "awaiting" /\ j < committed /\ ~Settled(j)
      BY <1>0, <2>1, <2>2 DEF OffsetsInv, Settled
    <3>2. PICK s \in j + 1 .. position - 1 : s \in Instance => Settled(s)
      BY <3>1 DEF OffsetsInv, Overtaken
    <3>3. s \in j + 1 .. position' - 1 /\ (s \in Instance => Settled(s)')
      BY <1>0, <2>1, <3>2 DEF Settled
    <3>. QED
      BY <3>3 DEF Overtaken
  <2>. QED
    BY <1>0, <2>1, <2>2 DEF OffsetsInv
<1>5. ASSUME NEW i \in Instance, SendResult(i) PROVE OffsetsInv'
  <2>1. handling[i] = "awaiting" /\ UNCHANGED <<handling, position, settled>>
    BY <1>0, <1>5 DEF SendResult, Finish, AInv, StageInv, TypeOK, CancelTypeOK, Finished
  <2>. QED
    BY <1>0, <1>5, <1>b, <2>1 DEF SendResult, Verdicts
<1>6. ASSUME NEW i \in Instance, WorkFails(i) PROVE OffsetsInv'
  BY <1>6, <1>a DEF WorkFails
<1>7. ASSUME NEW i \in Instance, Cancellable(i) PROVE OffsetsInv'
  BY <1>7, <1>a DEF Cancellable
<1>8. ASSUME NEW i \in Instance, Canceled(i) PROVE OffsetsInv'
  <2>1. UNCHANGED <<handling, position, settled>>
    BY <1>8 DEF Canceled
  <2>2. CASE UNCHANGED <<answers, committed, unsent>>
    BY <1>a, <2>1, <2>2
  <2>3. CASE inner[i] = "working" /\ Answer(i, "result")
    <3>1. handling[i] = "awaiting"
      BY <1>0, <2>3 DEF StageInv, TypeOK, CancelTypeOK, Finished
    <3>. QED
      BY <1>0, <1>b, <2>1, <2>3, <3>1 DEF Verdicts
  <2>. QED
    BY <1>8, <2>2, <2>3 DEF Canceled
<1>9. ASSUME NEW i \in Instance, Handle(i) PROVE OffsetsInv'
  <2>1. /\ handling[i] = "awaiting" /\ handling' = [handling EXCEPT ![i] = "over"]
        /\ UNCHANGED <<position, settled>>
    BY <1>9 DEF Handle
  <2>2. CASE UNCHANGED <<answers, committed, unsent>>
    BY <1>0, <1>a, <2>1, <2>2
  <2>3. CASE \E a \in Verdicts : Answer(i, a) \/ AnswerRaises(i)
    <3>1. PICK a \in Verdicts : Answer(i, a) \/ AnswerRaises(i)
      BY <2>3
    <3>. QED
      BY <1>0, <1>b, <2>1, <3>1
  <2>. QED
    BY <1>9, <2>2, <2>3 DEF Handle, Completed, CanceledHere, Failed, Verdicts
<1>10. ASSUME NEW i \in Instance, Retreat(i) \/ Closed(i) \/ Hurried(i) \/ Strand(i)
       PROVE  OffsetsInv'
  BY <1>10, <1>a DEF Retreat, Closed, Hurried, Strand
<1>11. CASE UNCHANGED allVars
  BY <1>11, <1>a DEF allVars
<1>. QED
  BY <1>1, <1>2, <1>3, <1>4, <1>5, <1>6, <1>7, <1>8, <1>9, <1>10, <1>11 DEF Next, Progress

LEMMA OffsetsInvariant == Spec => [](AInv /\ OffsetsInv)
BY AnswersInvariant, InitOffsets, OffsetsStep, PTL DEF Spec

(* A restart loses no task but those a later record has overtaken, for any  *)
(* number of tasks, in any order of their ends.                            *)
THEOREM RestartsLoseOnlyOvertaken == Spec => RestartLosesOvertaken
<1>1. OffsetsInv =>
        [run' # run =>
           \A i \in Instance :
             handling[i] = "awaiting" /\ i < committed /\ ~Settled(i)
               => \E s \in i + 1 .. position - 1 : s \in Instance => Settled(s)]_allVars
  BY DEF OffsetsInv, Overtaken
<1>. QED
  BY <1>1, OffsetsInvariant, PTL DEF RestartLosesOvertaken

-----------------------------------------------------------------------------
(* Cancellations                                                           *)

(* The dictionaries agree with each other and with the coroutines; so what *)
(* a push cancels it also flags.                                           *)
TrackInv ==
  /\ \A id \in Id : innerTasks[id] # Absent =>
                     IdOf[innerTasks[id]] = id /\ outerTasks[id] = innerTasks[id]
  /\ \A i \in Instance : outer[i] \in {"checking", "awaiting"} => outerTasks[IdOf[i]] = i
  /\ asked \subseteq flagged

LEMMA TrackStep == ASSUME DistinctIds PROVE AInv /\ TrackInv /\ [Next]_allVars => TrackInv'
<1> SUFFICES ASSUME AInv, TrackInv, [Next]_allVars PROVE TrackInv'
  OBVIOUS
<1> USE CancellationAssumption DEF TrackInv, cancelVars
<1>0. /\ CancelTypeOK /\ StageInv
      /\ outer \in [Instance -> {"none", "checking", "awaiting", "ended"}]
      /\ innerTasks \in [Id -> Instance \cup {Absent}]
      /\ outerTasks \in [Id -> Instance \cup {Absent}]
  BY DEF AInv, TypeOK, CancelTypeOK
<1>a. CASE UNCHANGED <<outer, innerTasks, outerTasks, flagged, asked>>
  BY <1>a
<1>1. ASSUME Restart PROVE TrackInv'
  BY <1>1 DEF Restart
<1>2. ASSUME NEW id \in Id, Push(id) PROVE TrackInv'
  <2>1. UNCHANGED <<outer, innerTasks, outerTasks>>
    BY <1>2 DEF Push
  <2>2. asked' \subseteq flagged'
    BY <1>0, <1>2 DEF Push, CancelInner
  <2>. QED
    BY <2>1, <2>2
<1>3. ASSUME NEW i \in Instance, Create(i) PROVE TrackInv'
  <2>1. \A id \in Id : id # IdOf[i] => outerTasks'[id] = outerTasks[id]
    BY <1>0, <1>3 DEF Create
  <2>2. innerTasks[IdOf[i]] \in {i, Absent}
    BY <1>0 DEF DistinctIds
  <2>3. outerTasks'[IdOf[i]] = i
    BY <1>0, <1>3 DEF Create
  <2>. QED
    BY <1>0, <1>3, <2>1, <2>2, <2>3 DEF Create, DistinctIds
<1>4. ASSUME NEW i \in Instance, NEW b \in BOOLEAN, Checked(i, b) PROVE TrackInv'
  BY <1>0, <1>4 DEF Checked
<1>5. ASSUME NEW i \in Instance, Untrack(i) PROVE TrackInv'
  BY <1>0, <1>5 DEF Untrack, DistinctIds
<1>6. ASSUME NEW i \in Instance,
             \/ Begin(i) \/ (\E how \in {"done", "failed"} : Finish(i, how))
             \/ \E how \in {"cancelled", "failed", "leaving"} : Interrupt(i, how)
             \/ (\E how \in {"cancelled", "failed"} : Left(i, how)) \/ Hurry(i)
      PROVE  TrackInv'
  BY <1>6, <1>a DEF Begin, Finish, Interrupt, Left, Hurry
<1>7. CASE UNCHANGED cancelVars
  BY <1>7, <1>a
<1>. QED
  BY <1>1, <1>2, <1>3, <1>4, <1>5, <1>6, <1>7
  DEF Next, Progress, Cancellable, Skip, PushCancel, Accept, SendResult, WorkFails,
      Canceled, Retreat, Closed, Hurried, Strand, Handle, allVars

LEMMA TrackInvariant == ASSUME DistinctIds PROVE Spec => [](AInv /\ TrackInv)
<1>1. Init => TrackInv
  BY DEF Init, CancelInit, TrackInv
<1>. QED
  BY <1>1, AnswersInvariant, TrackStep, PTL DEF Spec

LEMMA Recognised == AInv /\ TrackInv => CancelIsRecognised
  BY DEF AInv, StageInv, TrackInv, CancelIsRecognised

(* A task that ends as canceled carries the mark of the service, whichever  *)
(* of push, pull, start and end came first, for any number of tasks with    *)
(* ids of their own.                                                       *)
THEOREM CancellationsAreRecognised ==
  ASSUME DistinctIds PROVE Spec => []CancelIsRecognised
BY TrackInvariant, Recognised, PTL

LEMMA DroppedStep ==
  AInv /\ CancelIsRecognised /\ NoneDropped /\ [Next]_allVars => NoneDropped'
<1> SUFFICES ASSUME AInv, CancelIsRecognised, NoneDropped, [Next]_allVars PROVE NoneDropped'
  OBVIOUS
<1> USE DEF NoneDropped, Answered, controllerVars
<1>0. /\ TypeOK /\ StageInv /\ AnswersInv
      /\ handling \in [Instance -> {"none", "awaiting", "over"}]
  BY DEF AInv, TypeOK
<1>a. ASSUME NEW i \in Instance, NEW a \in Verdicts, Answer(i, a) \/ AnswerRaises(i)
      PROVE  /\ answers'[i] # <<>> \/ i \in unsent'
             /\ \A j \in Instance : answers[j] # <<>> \/ j \in unsent
                                  => answers'[j] # <<>> \/ j \in unsent'
  <2>1. CASE Answer(i, a)
    BY <1>0, <2>1, AnswerAppends DEF Answer
  <2>2. CASE AnswerRaises(i)
    BY <2>2 DEF AnswerRaises
  <2>. QED
    BY <1>a, <2>1, <2>2
<1>b. CASE UNCHANGED <<handling, answers, unsent>>
  BY <1>b
<1>1. ASSUME Restart PROVE NoneDropped'
  BY <1>1 DEF Restart
<1>2. ASSUME NEW i \in Instance, Accept(i) PROVE NoneDropped'
  BY <1>0, <1>2 DEF Accept
<1>3. ASSUME NEW i \in Instance, SendResult(i) PROVE NoneDropped'
  BY <1>a, <1>3 DEF SendResult, Verdicts
<1>4. ASSUME NEW i \in Instance, Canceled(i) PROVE NoneDropped'
  BY <1>a, <1>4 DEF Canceled, Verdicts
<1>5. ASSUME NEW i \in Instance, Handle(i) PROVE NoneDropped'
  <2>1. handling[i] = "awaiting" /\ handling' = [handling EXCEPT ![i] = "over"]
    BY <1>5 DEF Handle
  <2>2. CASE Completed(i)
    <3>1. answers[i] # <<>> /\ UNCHANGED <<answers, unsent>>
      BY <1>0, <2>1, <2>2 DEF Completed, AnswersInv, Early
    <3>. QED
      BY <1>0, <2>1, <3>1
  <2>3. CASE CanceledHere(i)
    <3>1. Answer(i, "cancelled") \/ AnswerRaises(i)
      BY <2>3 DEF CanceledHere, CancelIsRecognised
    <3>. QED
      BY <1>0, <1>a, <2>1, <3>1 DEF Verdicts
  <2>4. CASE Failed(i)
    BY <1>0, <1>a, <2>1, <2>4 DEF Failed, Verdicts
  <2>. QED
    BY <1>5, <2>2, <2>3, <2>4 DEF Handle
<1>. QED
  BY <1>b, <1>1, <1>2, <1>3, <1>4, <1>5
  DEF Next, Progress, Cancellable, Skip, PushCancel, WorkFails, Retreat, Closed, Hurried,
      Strand, allVars

(* No task is given up without an answer unless its transaction raised, for *)
(* any number of tasks with ids of their own.                              *)
THEOREM NoTaskIsDropped == ASSUME DistinctIds PROVE Spec => []NoneDropped
<1>1. Init => NoneDropped
  BY DEF Init, NoneDropped
<1>. QED
  BY <1>1, TrackInvariant, Recognised, DroppedStep, PTL DEF Spec
=============================================================================
