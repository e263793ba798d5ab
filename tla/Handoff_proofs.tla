---------------------------- MODULE Handoff_proofs ----------------------------
(***************************************************************************)
(* Proofs about Handoff and ThreadPool, for any tasks and any number of     *)
(* threads.                                                                *)
(***************************************************************************)
EXTENDS ThreadPool, SequenceTheorems, FiniteSetTheorems, TLAPS

(* The tickets the worker has taken so far are the first ones that arrived. *)
Taken == Len(arrivals) - Len(queue)

(* A job is in its ticket, and a pipe exists, from the moment a coroutine   *)
(* is past its fetch; only then can a pipe be closed or a job run.          *)
TicketsInv ==
  /\ \A t \in used : stage[t] \notin {"new", "fetching"}
  /\ \A t \in Task : stage[t] \in {"waiting", "saving", "leaving"} => t \in used
  /\ shut \subseteq used
  /\ worker \in {"running", "checked", "delivered"} => current \in used
  /\ worker = "delivered" /\ stage[current] = "waiting" => current \in item

(* The queue is the end of what arrived, the worker is at the ticket before *)
(* it, and what has run is behind that in the order of arrival.             *)
OrderInv ==
  /\ \A t \in Task : stage[t] = "new" => \A a \in DOMAIN arrivals : arrivals[a] # t
  /\ Len(queue) =< Len(arrivals)
  /\ \A i \in 1 .. Len(queue) : queue[i] = arrivals[Taken + i]
  /\ worker # "polling" => Taken >= 1 /\ current = arrivals[Taken]
  /\ \A i \in DOMAIN runs :
       \E a \in 1 .. Taken : arrivals[a] = runs[i] /\ (worker = "holding" => a < Taken)

HInv == TypeOK /\ TicketsInv /\ ClosedMeansAnswered /\ OrderInv /\ RunsInOrder

-----------------------------------------------------------------------------
LEMMA InitHInv == Init => HInv
<1> SUFFICES ASSUME Init PROVE HInv
  OBVIOUS
<1>1. TypeOK
  BY HandoffAssumption DEF Init, TypeOK, Stages, Ended, WorkerStates
<1>2. TicketsInv /\ ClosedMeansAnswered
  BY DEF Init, TicketsInv, ClosedMeansAnswered
<1>3. Len(arrivals) = 0 /\ Len(queue) = 0 /\ DOMAIN arrivals = {} /\ DOMAIN runs = {}
  BY DEF Init
<1>4. OrderInv
  BY <1>3 DEF Init, OrderInv, Taken
<1>5. RunsInOrder
  BY <1>3 DEF RunsInOrder, IsInjective
<1>. QED
  BY <1>1, <1>2, <1>4, <1>5 DEF HInv

LEMMA StutterHInv == HInv /\ UNCHANGED vars => HInv'
BY DEF HInv, vars, TypeOK, TicketsInv, ClosedMeansAnswered, OrderInv, RunsInOrder,
       Taken, IsInjective

-----------------------------------------------------------------------------
(* Each action keeps the types.                                            *)
LEMMA TypeStep ==
  ASSUME TypeOK, Next
  PROVE  TypeOK'
<1>1. CASE GetTicket
  <2>1. queue # <<>> /\ queue \in Seq(Task)
    BY <1>1 DEF GetTicket, TypeOK
  <2>2. Head(queue) \in Task /\ Tail(queue) \in Seq(Task)
    BY <2>1, HeadTailProperties
  <2>. QED
    BY <1>1, <2>2, HandoffAssumption DEF GetTicket, TypeOK, taskVars, pipeVars, history, WorkerStates
<1>2. CASE TakeJob
  <2>1. current \in Task
    BY <1>2 DEF TakeJob, TypeOK
  <2>2. runs' \in Seq(Task)
    BY <1>2, <2>1, AppendProperties DEF TakeJob, TypeOK
  <2>. QED
    BY <1>2, <2>2 DEF TakeJob, TypeOK, taskVars, pipeVars, WorkerStates
<1>3. CASE TicketTimesOut
  BY <1>3 DEF TicketTimesOut, TypeOK, taskVars, pipeVars, WorkerStates
<1>4. CASE NoticeClosed \/ PassLastCheck \/ DeliverToClosed \/ JobRaises
  BY <1>4 DEF NoticeClosed, PassLastCheck, DeliverToClosed, JobRaises, TypeOK, taskVars,
              pipeVars, history, WorkerStates
<1>5. CASE Deliver \/ CloseOutput
  BY <1>5 DEF Deliver, CloseOutput, TypeOK, taskVars, history, WorkerStates
<1>6. ASSUME NEW t \in Task, Accept(t)
      PROVE  TypeOK'
  <2>1. queue' \in Seq(Task) /\ arrivals' \in Seq(Task)
    BY <1>6, AppendProperties DEF Accept, TypeOK
  <2>. QED
    BY <1>6, <2>1 DEF Accept, TypeOK, pipeVars, workerVars, Stages
<1>7. ASSUME NEW t \in Task, Coroutine(t)
      PROVE  TypeOK'
  <2>1. CASE UseTicket(t) \/ Receive(t)
    BY <2>1 DEF UseTicket, Receive, TypeOK, pipeVars, workerVars, history, Stages
  <2>2. CASE Save(t)
    BY <2>2 DEF Save, TypeOK, pipeVars, workerVars, history, Stages, Ended
  <2>3. CASE Leave(t)
    BY <2>3 DEF Leave, TypeOK, workerVars, history, Stages, Ended
  <2>. QED
    BY <1>7, <2>1, <2>2, <2>3 DEF Coroutine
<1>8. ASSUME NEW t \in Task, NEW how \in {"failed", "cancelled"}, AbandonFetch(t, how)
      PROVE  TypeOK'
  BY <1>8 DEF AbandonFetch, TypeOK, pipeVars, workerVars, history, Stages, Ended
<1>9. ASSUME NEW t \in Task, Cancel(t) \/ CancelLeaving(t)
      PROVE  TypeOK'
  BY <1>9 DEF Cancel, CancelLeaving, TypeOK, pipeVars, workerVars, history, Stages, Ended
<1>. QED
  BY <1>1, <1>2, <1>3, <1>4, <1>5, <1>6, <1>7, <1>8, <1>9 DEF Next, WorkerStep

-----------------------------------------------------------------------------
(* Each action keeps what is known of tickets and pipes.                   *)
LEMMA TicketsStep ==
  ASSUME TypeOK, TicketsInv, ClosedMeansAnswered, Next
  PROVE  TicketsInv' /\ ClosedMeansAnswered'
<1> USE DEF TicketsInv, ClosedMeansAnswered, TypeOK
<1>1. CASE GetTicket \/ TicketTimesOut \/ NoticeClosed \/ PassLastCheck \/ DeliverToClosed
  BY <1>1 DEF GetTicket, TicketTimesOut, NoticeClosed, PassLastCheck, DeliverToClosed,
              taskVars, pipeVars, history
<1>2. CASE TakeJob \/ JobRaises
  BY <1>2 DEF TakeJob, JobRaises, taskVars, pipeVars, history
<1>3. CASE Deliver
  BY <1>3 DEF Deliver, taskVars, history
<1>4. CASE CloseOutput
  BY <1>4 DEF CloseOutput, taskVars, history
<1>5. ASSUME NEW t \in Task, Accept(t)
      PROVE  TicketsInv' /\ ClosedMeansAnswered'
  BY <1>5 DEF Accept, pipeVars, workerVars
<1>6. ASSUME NEW t \in Task, UseTicket(t)
      PROVE  TicketsInv' /\ ClosedMeansAnswered'
  BY <1>6 DEF UseTicket, pipeVars, workerVars, history
<1>7. ASSUME NEW t \in Task, Receive(t)
      PROVE  TicketsInv' /\ ClosedMeansAnswered'
  BY <1>7 DEF Receive, workerVars, history
<1>8. ASSUME NEW t \in Task, Save(t) \/ Cancel(t)
      PROVE  TicketsInv' /\ ClosedMeansAnswered'
  BY <1>8 DEF Save, Cancel, pipeVars, workerVars, history
<1>9. ASSUME NEW t \in Task, Leave(t) \/ CancelLeaving(t)
      PROVE  TicketsInv' /\ ClosedMeansAnswered'
  BY <1>9 DEF Leave, CancelLeaving, workerVars, history, Ended
<1>10. ASSUME NEW t \in Task, NEW how \in {"failed", "cancelled"}, AbandonFetch(t, how)
       PROVE  TicketsInv' /\ ClosedMeansAnswered'
  BY <1>10 DEF AbandonFetch, pipeVars, workerVars, history
<1>. QED
  BY <1>1, <1>2, <1>3, <1>4, <1>5, <1>6, <1>7, <1>8, <1>9, <1>10
  DEF Next, WorkerStep, Coroutine

(* Each action keeps the order.                                            *)
LEMMA OrderStep ==
  ASSUME TypeOK, OrderInv, RunsInOrder, Next
  PROVE  OrderInv' /\ RunsInOrder'
<1> USE DEF TypeOK
<1>1. CASE GetTicket
  <2>1. /\ queue # <<>> /\ queue' = Tail(queue) /\ current' = Head(queue)
        /\ worker = "polling" /\ worker' = "holding"
        /\ arrivals' = arrivals /\ runs' = runs /\ stage' = stage
    BY <1>1 DEF GetTicket, taskVars, history
  <2>2. /\ Len(queue') = Len(queue) - 1 /\ Len(queue) >= 1
        /\ \A i \in 1 .. Len(queue') : queue'[i] = queue[i + 1]
        /\ current' = queue[1]
    BY <2>1
  <2>3. Taken \in Nat /\ Taken' = Taken + 1
    BY <2>1, <2>2 DEF Taken, OrderInv
  <2>4. OrderInv'
    <3>1. \A i \in 1 .. Len(queue') : queue'[i] = arrivals'[Taken' + i]
      <4> SUFFICES ASSUME NEW i \in 1 .. Len(queue')
                   PROVE  queue'[i] = arrivals'[Taken' + i]
        OBVIOUS
      <4>1. i + 1 \in 1 .. Len(queue)
        BY <2>2
      <4>2. queue[i + 1] = arrivals[Taken + (i + 1)]
        BY <4>1 DEF OrderInv
      <4>. QED
        BY <2>1, <2>2, <2>3, <4>1, <4>2
    <3>2. current' = arrivals'[Taken'] /\ Taken' >= 1
      BY <2>1, <2>2, <2>3 DEF OrderInv
    <3>3. \A i \in DOMAIN runs' :
            \E a \in 1 .. Taken' : arrivals'[a] = runs'[i] /\ a < Taken'
      <4> SUFFICES ASSUME NEW i \in DOMAIN runs
                   PROVE  \E a \in 1 .. Taken' : arrivals[a] = runs[i] /\ a < Taken'
        BY <2>1
      <4>1. PICK a \in 1 .. Taken : arrivals[a] = runs[i]
        BY DEF OrderInv
      <4>. QED
        BY <2>3, <4>1
    <3>. QED
      BY <2>1, <2>2, <2>3, <3>1, <3>2, <3>3 DEF OrderInv
  <2>. QED
    BY <2>1, <2>4 DEF RunsInOrder
<1>2. CASE TakeJob
  <2>1. /\ worker = "holding" /\ worker' = "running"
        /\ runs' = Append(runs, current)
        /\ UNCHANGED <<stage, queue, current, arrivals>>
    BY <1>2 DEF TakeJob, taskVars
  <2>2. /\ Len(runs') = Len(runs) + 1
        /\ \A i \in 1 .. Len(runs) : runs'[i] = runs[i]
        /\ runs'[Len(runs) + 1] = current
        /\ DOMAIN runs' = 1 .. (Len(runs) + 1)
        /\ DOMAIN runs = 1 .. Len(runs)
    BY <2>1
  <2>3. Taken' = Taken /\ Taken \in Nat
    BY <2>1 DEF Taken, OrderInv
  <2>4. Taken \in 1 .. Taken /\ arrivals[Taken] = current
    BY <2>1, <2>3 DEF OrderInv
  <2>5. ASSUME NEW i \in 1 .. Len(runs)
        PROVE  \E a \in 1 .. Taken : arrivals[a] = runs[i] /\ a < Taken
    BY <2>1, <2>2, <2>5 DEF OrderInv
  <2>6. \A i \in DOMAIN runs' : \E a \in 1 .. Taken : arrivals[a] = runs'[i]
    BY <2>2, <2>4, <2>5
  <2>7. OrderInv'
    <3>1. \A i \in DOMAIN runs' :
            \E a \in 1 .. Taken' : arrivals'[a] = runs'[i] /\ (worker' = "holding" => a < Taken')
      BY <2>1, <2>3, <2>6
    <3>. QED
      BY <2>1, <2>3, <3>1 DEF OrderInv, Taken
  <2>8. ASSUME NEW i \in DOMAIN runs', NEW j \in DOMAIN runs', i < j
        PROVE  \E a, b \in DOMAIN arrivals :
                 a < b /\ arrivals[a] = runs'[i] /\ arrivals[b] = runs'[j]
    <3>1. CASE j \in DOMAIN runs
      BY <2>2, <2>8, <3>1 DEF RunsInOrder
    <3>2. CASE j = Len(runs) + 1
      <4>1. i \in 1 .. Len(runs)
        BY <2>2, <2>8, <3>2
      <4>2. PICK a \in 1 .. Taken : arrivals[a] = runs[i] /\ a < Taken
        BY <2>5, <4>1
      <4>3. a \in DOMAIN arrivals /\ Taken \in DOMAIN arrivals
        BY <2>3, <2>4 DEF Taken, OrderInv
      <4>. QED
        BY <2>2, <2>4, <3>2, <4>1, <4>2, <4>3
    <3>. QED
      BY <2>2, <2>8, <3>1, <3>2
  <2>. QED
    BY <2>1, <2>7, <2>8 DEF RunsInOrder
<1>3. CASE TicketTimesOut \/ NoticeClosed \/ CloseOutput
  <2>1. worker' = "polling" /\ UNCHANGED <<stage, queue, arrivals, runs>>
    BY <1>3 DEF TicketTimesOut, NoticeClosed, CloseOutput, taskVars, history
  <2>. QED
    BY <2>1 DEF OrderInv, RunsInOrder, Taken
<1>4. CASE PassLastCheck \/ Deliver \/ DeliverToClosed \/ JobRaises
  <2>1. /\ worker \notin {"polling", "holding"} /\ worker' \notin {"polling", "holding"}
        /\ UNCHANGED <<stage, queue, current, arrivals, runs>>
    BY <1>4 DEF PassLastCheck, Deliver, DeliverToClosed, JobRaises, taskVars, history
  <2>2. RunsInOrder' /\ Taken' = Taken
    BY <2>1 DEF RunsInOrder, Taken
  <2>3. \A i \in DOMAIN runs' :
          \E a \in 1 .. Taken' : arrivals'[a] = runs'[i] /\ (worker' = "holding" => a < Taken')
    BY <2>1, <2>2 DEF OrderInv
  <2>. QED
    BY <2>1, <2>2, <2>3 DEF OrderInv
<1>5. ASSUME NEW t \in Task, Accept(t)
      PROVE  OrderInv' /\ RunsInOrder'
  <2>1. /\ stage[t] = "new" /\ stage' = [stage EXCEPT ![t] = "fetching"]
        /\ queue' = Append(queue, t) /\ arrivals' = Append(arrivals, t)
        /\ UNCHANGED <<worker, current, runs>>
    BY <1>5 DEF Accept, workerVars
  <2>2. /\ Len(queue') = Len(queue) + 1 /\ Len(arrivals') = Len(arrivals) + 1
        /\ \A i \in 1 .. Len(queue) : queue'[i] = queue[i]
        /\ \A i \in 1 .. Len(arrivals) : arrivals'[i] = arrivals[i]
        /\ queue'[Len(queue) + 1] = t /\ arrivals'[Len(arrivals) + 1] = t
        /\ DOMAIN arrivals = 1 .. Len(arrivals)
        /\ DOMAIN arrivals' = 1 .. (Len(arrivals) + 1)
    BY <2>1
  <2>3. Taken' = Taken /\ Taken \in Nat /\ Taken =< Len(arrivals)
    BY <2>2 DEF Taken, OrderInv
  <2>4. \A a \in 1 .. Taken : arrivals'[a] = arrivals[a]
    BY <2>2, <2>3
  <2>5. OrderInv'
    <3>1. \A u \in Task : stage'[u] = "new" => \A a \in DOMAIN arrivals' : arrivals'[a] # u
      BY <2>1, <2>2 DEF OrderInv
    <3>2. ASSUME NEW i \in 1 .. Len(queue')
          PROVE  queue'[i] = arrivals'[Taken' + i]
      <4>1. CASE i \in 1 .. Len(queue)
        <5>1. Taken + i \in 1 .. Len(arrivals)
          BY <4>1, <2>3 DEF Taken
        <5>2. queue[i] = arrivals[Taken + i]
          BY <4>1 DEF OrderInv
        <5>. QED
          BY <2>2, <2>3, <4>1, <5>1, <5>2
      <4>2. CASE i = Len(queue) + 1
        <5>1. Taken + i = Len(arrivals) + 1
          BY <4>2 DEF Taken
        <5>. QED
          BY <2>2, <2>3, <4>2, <5>1
      <4>. QED
        BY <2>2, <3>2, <4>1, <4>2
    <3>3. worker' # "polling" => Taken' >= 1 /\ current' = arrivals'[Taken']
      BY <2>1, <2>3, <2>4 DEF OrderInv
    <3>4. \A i \in DOMAIN runs' :
            \E a \in 1 .. Taken' : arrivals'[a] = runs'[i] /\ (worker' = "holding" => a < Taken')
      BY <2>1, <2>3, <2>4 DEF OrderInv
    <3>. QED
      BY <2>2, <3>1, <3>2, <3>3, <3>4 DEF OrderInv
  <2>6. IsInjective(arrivals')
    BY <2>1, <2>2 DEF OrderInv, RunsInOrder, IsInjective
  <2>7. ASSUME NEW i \in DOMAIN runs', NEW j \in DOMAIN runs', i < j
        PROVE  \E a, b \in DOMAIN arrivals' :
                 a < b /\ arrivals'[a] = runs'[i] /\ arrivals'[b] = runs'[j]
    <3>1. PICK a \in DOMAIN arrivals, b \in DOMAIN arrivals :
            a < b /\ arrivals[a] = runs[i] /\ arrivals[b] = runs[j]
      BY <2>1, <2>7 DEF RunsInOrder
    <3>. QED
      BY <2>1, <2>2, <3>1
  <2>. QED
    BY <2>5, <2>6, <2>7 DEF RunsInOrder
<1>6. ASSUME NEW t \in Task,
             \/ Coroutine(t) \/ Cancel(t) \/ CancelLeaving(t)
             \/ \E how \in {"failed", "cancelled"} : AbandonFetch(t, how)
      PROVE  OrderInv' /\ RunsInOrder'
  <2>1. /\ UNCHANGED <<queue, arrivals, worker, current, runs>>
        /\ \A u \in Task : stage'[u] = "new" => stage[u] = "new"
    BY <1>6 DEF Coroutine, UseTicket, Receive, Save, Leave, Cancel, CancelLeaving,
                AbandonFetch, workerVars, history, Ended
  <2>. QED
    BY <2>1 DEF OrderInv, RunsInOrder, Taken
<1>. QED
  BY <1>1, <1>2, <1>3, <1>4, <1>5, <1>6 DEF Next, WorkerStep

-----------------------------------------------------------------------------
LEMMA HandoffInvariant == Spec => []HInv
<1>1. HInv /\ [Next]_vars => HInv'
  BY StutterHInv, TypeStep, TicketsStep, OrderStep DEF HInv
<1>. QED
  BY InitHInv, <1>1, PTL DEF Spec

(* The variables keep their types, and the worker holds a ticket exactly    *)
(* while it is busy, for any number of tasks.                              *)
THEOREM HandoffTypeCorrect == Spec => []TypeOK
BY HandoffInvariant, PTL DEF HInv

(* The worker runs jobs in the order in which tasks were accepted, each at  *)
(* most once, for any number of tasks.                                     *)
THEOREM JobsRunInOrder == Spec => []RunsInOrder
BY HandoffInvariant, PTL DEF HInv

(* No coroutine that still waits finds its pipe closed without the result, *)
(* for any number of tasks.                                                *)
THEOREM ClosedPipesAreAnswered == Spec => []ClosedMeansAnswered
BY HandoffInvariant, PTL DEF HInv

-----------------------------------------------------------------------------
(* The executor                                                            *)

(* Whatever a call of the executor does to the tasks, their pipes and the   *)
(* worker is a step of Handoff; waiting for a thread is none.              *)
LEMMA PoolStep ==
  ASSUME [PoolNext]_poolVars
  PROVE  [Next]_vars
<1>1. CASE WorkerMoves \/ (JobRaises /\ UNCHANGED <<calls, blocked, withdrawn>>)
  BY <1>1 DEF WorkerMoves, Next
<1>2. ASSUME NEW t \in Task, AskTicket(t) \/ DoWait(t)
      PROVE  [Next]_vars
  BY <1>2 DEF AskTicket, DoWait
<1>3. ASSUME NEW t \in Task, AskResult(t) \/ AskClose(t) \/ DoClose(t)
      PROVE  [Next]_vars
  <2>1. Coroutine(t)
    BY <1>3 DEF AskResult, AskClose, DoClose, Coroutine
  <2>. QED
    BY <2>1 DEF Next
<1>4. ASSUME NEW t \in Task, DoPut(t)
      PROVE  [Next]_vars
  BY <1>4 DEF DoPut, Next
<1>5. ASSUME NEW t \in Task, CancelInside(t) \/ CancelClose(t)
      PROVE  [Next]_vars
  BY <1>5 DEF CancelInside, CancelClose, Next
<1>6. ASSUME NEW t \in Task, Abandon(t)
      PROVE  [Next]_vars
  BY <1>6 DEF Abandon, Next
<1>7. ASSUME NEW t \in Task, Release(t)
      PROVE  [Next]_vars
  <2>1. CASE stage[t] = "waiting"
    BY <1>7, <2>1 DEF Release, Coroutine, Next
  <2>2. CASE stage[t] # "waiting"
    BY <1>7, <2>2 DEF Release
  <2>. QED
    BY <2>1, <2>2
<1>8. CASE UNCHANGED poolVars
  BY <1>8 DEF poolVars
<1>. QED
  BY <1>1, <1>2, <1>3, <1>4, <1>5, <1>6, <1>7, <1>8 DEF PoolNext, Serve

LEMMA PoolStepsAreHandoff == PoolSpec => Spec
<1>1. PoolInit => Init
  BY DEF PoolInit
<1>. QED
  BY <1>1, PoolStep, PTL DEF PoolSpec, Spec

(* Jobs run in order and closed pipes are answered with the pool as well,   *)
(* however its queue delays what the tasks ask of it.                      *)
THEOREM PoolKeepsOrder == PoolSpec => [](RunsInOrder /\ ClosedMeansAnswered)
BY PoolStepsAreHandoff, JobsRunInOrder, ClosedPipesAreAnswered, PTL

-----------------------------------------------------------------------------
(* The queue of the executor                                               *)

Once(s) == \A i, j \in 1 .. Len(s) : s[i] = s[j] => i = j

LEMMA CallsDiffer ==
  ASSUME NEW t \in Task
  PROVE  /\ Put(t) \in Call /\ PipeOut(t) \in Call /\ Close(t) \in Call
         /\ \A u \in Task : /\ Put(t) # PipeOut(u) /\ Put(t) # Close(u)
                            /\ PipeOut(t) # Close(u)
                            /\ PipeOut(t) = PipeOut(u) => t = u
                            /\ Close(t) = Close(u) => t = u
BY DEF Put, PipeOut, Close, Call

LEMMA AppendCalls ==
  ASSUME NEW s \in Seq(Call), NEW x \in Call, Once(s), ~Contains(s, x)
  PROVE  /\ Append(s, x) \in Seq(Call)
         /\ Once(Append(s, x))
         /\ \A c : Contains(Append(s, x), c) <=> Contains(s, c) \/ c = x
<1> DEFINE r == Append(s, x)
<1>1. /\ r \in Seq(Call) /\ Len(r) = Len(s) + 1 /\ Len(s) \in Nat
      /\ r[Len(s) + 1] = x /\ \A i \in 1 .. Len(s) : r[i] = s[i]
  BY AppendProperties, LenProperties
<1> HIDE DEF r
<1>2. Once(r)
  BY <1>1 DEF Once, Contains
<1>3. \A c : Contains(r, c) <=> Contains(s, c) \/ c = x
  BY <1>1 DEF Contains
<1>. QED
  BY <1>1, <1>2, <1>3 DEF r

LEMMA TailCalls ==
  ASSUME NEW s \in Seq(Call), Once(s), s # <<>>
  PROVE  /\ Tail(s) \in Seq(Call)
         /\ Once(Tail(s))
         /\ \A c : Contains(Tail(s), c) <=> Contains(s, c) /\ c # Head(s)
<1> DEFINE r == Tail(s)
<1>1. /\ r \in Seq(Call) /\ Len(s) \in Nat \ {0} /\ Len(r) = Len(s) - 1
      /\ \A i \in 1 .. Len(s) - 1 : r[i] = s[i + 1]
      /\ Head(s) = s[1]
  BY HeadTailProperties, LenProperties, EmptySeq
<1> HIDE DEF r
<1>2. Once(r)
  BY <1>1 DEF Once
<1>3. ASSUME NEW c PROVE Contains(r, c) <=> Contains(s, c) /\ c # Head(s)
  <2>1. ASSUME NEW i \in 1 .. Len(r), r[i] = c PROVE Contains(s, c) /\ c # Head(s)
    BY <1>1, <2>1 DEF Once, Contains
  <2>2. ASSUME NEW i \in 1 .. Len(s), s[i] = c, c # Head(s) PROVE Contains(r, c)
    <3>1. i - 1 \in 1 .. Len(r) /\ r[i - 1] = c
      BY <1>1, <2>2
    <3>. QED
      BY <3>1 DEF Contains
  <2>. QED
    BY <2>1, <2>2 DEF Contains
<1>. QED
  BY <1>1, <1>2, <1>3 DEF r

LEMMA RemovedCalls ==
  ASSUME NEW s \in Seq(Call), Once(s), NEW p \in 1 .. Len(s)
  PROVE  /\ RemoveAt(s, p) \in Seq(Call)
         /\ Once(RemoveAt(s, p))
         /\ \A c : Contains(RemoveAt(s, p), c) <=> Contains(s, c) /\ c # s[p]
<1> DEFINE r == RemoveAt(s, p)
<1>1. /\ r \in Seq(Call) /\ Len(s) \in Nat /\ Len(r) = Len(s) - 1
      /\ \A i \in 1 .. Len(s) - 1 : r[i] = IF i < p THEN s[i] ELSE s[i + 1]
  <2> DEFINE a == SubSeq(s, 1, p - 1)
             b == SubSeq(s, p + 1, Len(s))
  <2>1. Len(s) \in Nat
    BY LenProperties
  <2>2. /\ a \in Seq(Call) /\ Len(a) = p - 1
        /\ \A i \in 1 .. p - 1 : a[i] = s[i]
    BY <2>1, LenProperties, SubSeqProperties
  <2>3. /\ b \in Seq(Call) /\ Len(b) = Len(s) - p
        /\ \A i \in 1 .. Len(s) - p : b[i] = s[p + i]
    BY <2>1, LenProperties, SubSeqProperties
  <2> HIDE DEF a, b
  <2>4. /\ a \o b \in Seq(Call) /\ Len(a \o b) = Len(a) + Len(b)
        /\ \A i \in 1 .. Len(a) + Len(b) :
             (a \o b)[i] = IF i <= Len(a) THEN a[i] ELSE b[i - Len(a)]
    BY <2>2, <2>3, ConcatProperties
  <2>5. r = a \o b
    BY DEF RemoveAt, a, b
  <2> HIDE DEF r
  <2>6. ASSUME NEW i \in 1 .. Len(s) - 1
        PROVE  r[i] = IF i < p THEN s[i] ELSE s[i + 1]
    <3>1. CASE i < p
      BY <2>1, <2>2, <2>3, <2>4, <2>5, <3>1
    <3>2. CASE ~(i < p)
      <4>1. i - (p - 1) \in 1 .. Len(s) - p /\ p + (i - (p - 1)) = i + 1
        BY <2>1, <3>2
      <4>2. r[i] = b[i - (p - 1)]
        BY <2>1, <2>2, <2>3, <2>4, <2>5, <3>2
      <4>3. b[i - (p - 1)] = s[p + (i - (p - 1))]
        BY <2>3, <4>1
      <4>4. r[i] = s[i + 1]
        BY <4>1, <4>2, <4>3, Zenon
      <4>. QED
        BY <3>2, <4>4, Zenon
    <3>. QED
      BY <3>1, <3>2
  <2>. QED
    BY <2>1, <2>2, <2>3, <2>4, <2>5, <2>6
<1> HIDE DEF r
<1>2. Once(r)
  BY <1>1 DEF Once
<1>3. ASSUME NEW c PROVE Contains(r, c) <=> Contains(s, c) /\ c # s[p]
  <2>1. ASSUME NEW i \in 1 .. Len(r), r[i] = c PROVE Contains(s, c) /\ c # s[p]
    BY <1>1, <2>1 DEF Once, Contains
  <2>2. ASSUME NEW i \in 1 .. Len(s), s[i] = c, c # s[p] PROVE Contains(r, c)
    <3>1. CASE i < p
      BY <1>1, <2>2, <3>1 DEF Contains
    <3>2. CASE i > p
      <4>1. i - 1 \in 1 .. Len(r) /\ r[i - 1] = c
        BY <1>1, <2>2, <3>2
      <4>. QED
        BY <4>1 DEF Contains
    <3>. QED
      BY <2>2, <3>1, <3>2
  <2>. QED
    BY <2>1, <2>2 DEF Contains
<1>. QED
  BY <1>1, <1>2, <1>3 DEF r

(***************************************************************************)
(* What the executor has queued or runs for a task follows from where its   *)
(* coroutine is, but for closes that were withdrawn.                       *)
(***************************************************************************)
OwnCalls(t) ==
  /\ Contains(calls, PipeOut(t)) => stage[t] = "waiting" /\ t \notin blocked
  /\ Contains(calls, Close(t)) <=> stage[t] = "leaving"
  /\ stage[t] = "waiting" => t \in blocked \/ Contains(calls, PipeOut(t))
  /\ t \in blocked => stage[t] \in {"waiting", "leaving"} \cup Ended
  /\ t \in blocked /\ stage[t] \in Ended => t \in shut \cup withdrawn

CallsInv ==
  /\ calls \in Seq(Call) /\ Once(calls)
  /\ \A t \in Task : OwnCalls(t)

ThreadsInv ==
  /\ blocked \subseteq Task
  /\ IsFiniteSet(blocked)
  /\ Cardinality(blocked) =< Threads

LEMMA WithdrawnCalls ==
  ASSUME CallsInv, NEW x \in Call
  PROVE  /\ Withdraw(x) \in Seq(Call) /\ Once(Withdraw(x))
         /\ \A c : Contains(Withdraw(x), c) <=> Contains(calls, c) /\ c # x
<1>1. CASE ~Contains(calls, x)
  <2>1. Withdraw(x) = calls
    BY <1>1 DEF Withdraw
  <2>. QED
    BY <1>1, <2>1 DEF CallsInv
<1>2. CASE Contains(calls, x)
  <2> DEFINE p == CHOOSE i \in 1 .. Len(calls) : calls[i] = x
  <2>1. p \in 1 .. Len(calls) /\ calls[p] = x
    BY <1>2 DEF Contains
  <2>2. Withdraw(x) = RemoveAt(calls, p)
    BY <1>2 DEF Withdraw
  <2> HIDE DEF p
  <2>. QED
    BY <2>1, <2>2, RemovedCalls DEF CallsInv
<1>. QED
  BY <1>1, <1>2

LEMMA ThreadsStep == ThreadsInv /\ [PoolNext]_poolVars => ThreadsInv'
<1> SUFFICES ASSUME ThreadsInv, [PoolNext]_poolVars PROVE ThreadsInv'
  OBVIOUS
<1>1. ASSUME UNCHANGED blocked PROVE ThreadsInv'
  BY <1>1 DEF ThreadsInv
<1>2. ASSUME NEW t \in Task, DoWait(t) PROVE ThreadsInv'
  <2>1. blocked' = blocked \cup {t} /\ Cardinality(blocked) < Threads
    BY <1>2 DEF DoWait, TakeUp
  <2>2. Cardinality(blocked) \in Nat
    BY FS_CardinalityType DEF ThreadsInv
  <2>3. /\ IsFiniteSet(blocked \cup {t})
        /\ Cardinality(blocked \cup {t}) \in {Cardinality(blocked), Cardinality(blocked) + 1}
    BY FS_AddElement DEF ThreadsInv
  <2>. QED
    BY <2>1, <2>2, <2>3, ThreadPoolAssumption DEF ThreadsInv
<1>3. ASSUME NEW t \in Task, Release(t) PROVE ThreadsInv'
  <2>1. blocked' = blocked \ {t} /\ t \in blocked
    BY <1>3 DEF Release
  <2>2. Cardinality(blocked) \in Nat
    BY FS_CardinalityType DEF ThreadsInv
  <2>3. /\ IsFiniteSet(blocked \ {t})
        /\ Cardinality(blocked \ {t}) = Cardinality(blocked) - 1
    BY <2>1, FS_RemoveElement DEF ThreadsInv
  <2>. QED
    BY <2>1, <2>2, <2>3, ThreadPoolAssumption DEF ThreadsInv
<1>4. CASE UNCHANGED poolVars
  BY <1>1, <1>4 DEF poolVars
<1>. QED
  BY <1>1, <1>2, <1>3, <1>4
     DEF PoolNext, WorkerMoves, AskTicket, AskResult, AskClose, CancelInside, CancelClose,
         Abandon, Serve, DoPut, DoClose

(* A step that concerns one task leaves what the others have as it is.      *)
LEMMA OneTaskStep ==
  ASSUME CallsInv, NEW t \in Task,
         calls' \in Seq(Call), Once(calls'), OwnCalls(t)',
         shut \subseteq shut', withdrawn \subseteq withdrawn',
         \A u \in Task \ {t} :
           /\ stage'[u] = stage[u]
           /\ u \in blocked' <=> u \in blocked
           /\ Contains(calls', PipeOut(u)) <=> Contains(calls, PipeOut(u))
           /\ Contains(calls', Close(u)) <=> Contains(calls, Close(u))
  PROVE  CallsInv'
<1>1. ASSUME NEW u \in Task PROVE OwnCalls(u)'
  <2>1. CASE u = t
    BY <2>1
  <2>2. CASE u # t
    <3>1. OwnCalls(u)
      BY DEF CallsInv
    <3>. QED
      BY <2>2, <3>1 DEF OwnCalls
  <2>. QED
    BY <2>1, <2>2
<1>. QED
  BY <1>1 DEF CallsInv

LEMMA TakenCall ==
  ASSUME CallsInv, NEW x \in Call, TakeUp(x)
  PROVE  /\ calls' \in Seq(Call) /\ Once(calls') /\ Contains(calls, x)
         /\ \A c : Contains(calls', c) <=> Contains(calls, c) /\ c # x
         /\ withdrawn' = withdrawn
<1>1. /\ calls \in Seq(Call) /\ Once(calls) /\ calls # <<>>
      /\ Head(calls) = x /\ calls' = Tail(calls) /\ withdrawn' = withdrawn
  BY DEF TakeUp, CallsInv
<1>2. Len(calls) \in Nat \ {0} /\ calls[1] = x
  BY <1>1, LenProperties, HeadTailProperties, EmptySeq
<1>3. Contains(calls, x)
  BY <1>2 DEF Contains
<1>4. /\ Tail(calls) \in Seq(Call) /\ Once(Tail(calls))
      /\ \A c : Contains(Tail(calls), c) <=> Contains(calls, c) /\ c # Head(calls)
  BY <1>1, TailCalls
<1>. QED
  BY <1>1, <1>3, <1>4

LEMMA CallsStep == TypeOK /\ CallsInv /\ [PoolNext]_poolVars => CallsInv'
<1> SUFFICES ASSUME TypeOK, CallsInv, [PoolNext]_poolVars PROVE CallsInv'
  OBVIOUS
<1>0. calls \in Seq(Call) /\ Once(calls) /\ stage \in [Task -> Stages] /\ DOMAIN stage = Task
  BY DEF CallsInv, TypeOK
<1>a. ASSUME UNCHANGED <<stage, calls, blocked, withdrawn>>, shut \subseteq shut'
      PROVE  CallsInv'
  BY <1>a DEF CallsInv, OwnCalls
<1>1. CASE WorkerMoves \/ (JobRaises /\ UNCHANGED <<calls, blocked, withdrawn>>)
  <2>1. UNCHANGED <<stage, calls, blocked, withdrawn>> /\ shut \subseteq shut'
    BY <1>1 DEF WorkerMoves, WorkerStep, GetTicket, TakeJob, TicketTimesOut, NoticeClosed,
                PassLastCheck, Deliver, DeliverToClosed, CloseOutput, JobRaises, taskVars,
                pipeVars
  <2>. QED
    BY <1>a, <2>1
<1>2. CASE UNCHANGED poolVars
  BY <1>a, <1>2 DEF poolVars, vars
<1>3. ASSUME NEW t \in Task, AskTicket(t) PROVE CallsInv'
  <2>1. /\ UNCHANGED <<stage, shut, blocked, withdrawn>> /\ calls' = Append(calls, Put(t))
        /\ ~Contains(calls, Put(t)) /\ Put(t) \in Call
    BY <1>3, CallsDiffer DEF AskTicket, Submit, vars
  <2>2. /\ calls' \in Seq(Call) /\ Once(calls')
        /\ \A c : Contains(calls', c) <=> Contains(calls, c) \/ c = Put(t)
    BY <1>0, <2>1, AppendCalls
  <2>3. OwnCalls(t)'
    BY <2>1, <2>2, CallsDiffer DEF CallsInv, OwnCalls
  <2>. QED
    BY <2>1, <2>2, <2>3, CallsDiffer, OneTaskStep
<1>4. ASSUME NEW t \in Task, AskResult(t) PROVE CallsInv'
  <2>1. /\ stage[t] = "fetching" /\ stage' = [stage EXCEPT ![t] = "waiting"]
        /\ UNCHANGED <<shut, blocked, withdrawn>> /\ calls' = Append(calls, PipeOut(t))
    BY <1>4 DEF AskResult, Submit, UseTicket, pipeVars
  <2>2. ~Contains(calls, PipeOut(t)) /\ ~Contains(calls, Close(t)) /\ t \notin blocked
    BY <2>1 DEF CallsInv, OwnCalls, Ended
  <2>3. /\ calls' \in Seq(Call) /\ Once(calls')
        /\ \A c : Contains(calls', c) <=> Contains(calls, c) \/ c = PipeOut(t)
    BY <1>0, <2>1, <2>2, CallsDiffer, AppendCalls
  <2>4. /\ stage'[t] = "waiting"
        /\ \A u \in Task \ {t} : stage'[u] = stage[u]
    BY <1>0, <2>1
  <2>5. OwnCalls(t)'
    BY <2>1, <2>2, <2>3, <2>4, CallsDiffer DEF OwnCalls, Ended
  <2>. QED
    BY <2>1, <2>3, <2>4, <2>5, CallsDiffer, OneTaskStep
<1>5. ASSUME NEW t \in Task, AskClose(t) PROVE CallsInv'
  <2>1. /\ stage[t] = "saving" /\ stage' = [stage EXCEPT ![t] = "leaving"]
        /\ UNCHANGED <<shut, blocked, withdrawn>> /\ calls' = Append(calls, Close(t))
    BY <1>5 DEF AskClose, Submit, Save, pipeVars
  <2>2. ~Contains(calls, PipeOut(t)) /\ ~Contains(calls, Close(t)) /\ t \notin blocked
    BY <2>1 DEF CallsInv, OwnCalls, Ended
  <2>3. /\ calls' \in Seq(Call) /\ Once(calls')
        /\ \A c : Contains(calls', c) <=> Contains(calls, c) \/ c = Close(t)
    BY <1>0, <2>1, <2>2, CallsDiffer, AppendCalls
  <2>4. /\ stage'[t] = "leaving"
        /\ \A u \in Task \ {t} : stage'[u] = stage[u]
    BY <1>0, <2>1
  <2>5. OwnCalls(t)'
    BY <2>1, <2>2, <2>3, <2>4, CallsDiffer DEF OwnCalls, Ended
  <2>. QED
    BY <2>1, <2>3, <2>4, <2>5, CallsDiffer, OneTaskStep
<1>6. ASSUME NEW t \in Task, CancelInside(t) PROVE CallsInv'
  <2> DEFINE left == Withdraw(PipeOut(t))
  <2>1. /\ stage[t] \in {"waiting", "saving"} /\ stage' = [stage EXCEPT ![t] = "leaving"]
        /\ UNCHANGED <<shut, blocked, withdrawn>> /\ calls' = Append(left, Close(t))
    BY <1>6 DEF CancelInside, Cancel, pipeVars
  <2>2. /\ left \in Seq(Call) /\ Once(left)
        /\ \A c : Contains(left, c) <=> Contains(calls, c) /\ c # PipeOut(t)
    BY CallsDiffer, WithdrawnCalls
  <2> HIDE DEF left
  <2>3. ~Contains(calls, Close(t))
    BY <2>1 DEF CallsInv, OwnCalls
  <2>4. /\ calls' \in Seq(Call) /\ Once(calls')
        /\ \A c : Contains(calls', c) <=> Contains(left, c) \/ c = Close(t)
    BY <2>1, <2>2, <2>3, CallsDiffer, AppendCalls
  <2>5. /\ stage'[t] = "leaving"
        /\ \A u \in Task \ {t} : stage'[u] = stage[u]
    BY <1>0, <2>1
  <2>6. OwnCalls(t)'
    BY <2>1, <2>2, <2>3, <2>4, <2>5, CallsDiffer DEF OwnCalls, Ended
  <2>. QED
    BY <2>1, <2>2, <2>4, <2>5, <2>6, CallsDiffer, OneTaskStep
<1>7. ASSUME NEW t \in Task, CancelClose(t) PROVE CallsInv'
  <2>1. /\ stage[t] = "leaving" /\ stage' = [stage EXCEPT ![t] = "cancelled"]
        /\ UNCHANGED <<shut, blocked>> /\ withdrawn' = withdrawn \cup {t}
        /\ calls' = Withdraw(Close(t))
    BY <1>7 DEF CancelClose, CancelLeaving
  <2>2. /\ calls' \in Seq(Call) /\ Once(calls')
        /\ \A c : Contains(calls', c) <=> Contains(calls, c) /\ c # Close(t)
    BY <2>1, CallsDiffer, WithdrawnCalls
  <2>3. /\ stage'[t] = "cancelled"
        /\ \A u \in Task \ {t} : stage'[u] = stage[u]
    BY <1>0, <2>1
  <2>4. ~Contains(calls, PipeOut(t))
    BY <2>1 DEF CallsInv, OwnCalls
  <2>5. OwnCalls(t)'
    BY <2>1, <2>2, <2>3, <2>4 DEF OwnCalls, Ended
  <2>. QED
    BY <2>1, <2>2, <2>3, <2>5, CallsDiffer, OneTaskStep
<1>8. ASSUME NEW t \in Task, Abandon(t) PROVE CallsInv'
  <2>1. PICK how \in {"failed", "cancelled"} :
          stage[t] = "fetching" /\ stage' = [stage EXCEPT ![t] = how]
    BY <1>8 DEF Abandon, AbandonFetch
  <2>2. UNCHANGED <<shut, blocked, withdrawn, calls>>
    BY <1>8 DEF Abandon, AbandonFetch, pipeVars
  <2>3. /\ stage'[t] = how
        /\ \A u \in Task \ {t} : stage'[u] = stage[u]
    BY <1>0, <2>1
  <2>4. ~Contains(calls, PipeOut(t)) /\ ~Contains(calls, Close(t)) /\ t \notin blocked
    BY <2>1 DEF CallsInv, OwnCalls, Ended
  <2>5. OwnCalls(t)'
    BY <2>2, <2>3, <2>4 DEF OwnCalls
  <2>. QED
    BY <1>0, <2>2, <2>3, <2>5, OneTaskStep
<1>9. ASSUME NEW t \in Task, DoPut(t) PROVE CallsInv'
  <2>1. /\ stage[t] = "new" /\ stage' = [stage EXCEPT ![t] = "fetching"]
        /\ UNCHANGED <<shut, blocked>> /\ TakeUp(Put(t))
    BY <1>9 DEF DoPut, Accept, pipeVars
  <2>2. /\ calls' \in Seq(Call) /\ Once(calls') /\ withdrawn' = withdrawn
        /\ \A c : Contains(calls', c) <=> Contains(calls, c) /\ c # Put(t)
    BY <2>1, CallsDiffer, TakenCall
  <2>3. /\ stage'[t] = "fetching"
        /\ \A u \in Task \ {t} : stage'[u] = stage[u]
    BY <1>0, <2>1
  <2>4. ~Contains(calls, PipeOut(t)) /\ ~Contains(calls, Close(t)) /\ t \notin blocked
    BY <2>1 DEF CallsInv, OwnCalls, Ended
  <2>5. OwnCalls(t)'
    BY <2>1, <2>2, <2>3, <2>4 DEF OwnCalls
  <2>. QED
    BY <2>1, <2>2, <2>3, <2>5, CallsDiffer, OneTaskStep
<1>10. ASSUME NEW t \in Task, DoWait(t) PROVE CallsInv'
  <2>1. UNCHANGED <<stage, shut>> /\ blocked' = blocked \cup {t} /\ TakeUp(PipeOut(t))
    BY <1>10 DEF DoWait, vars
  <2>2. /\ calls' \in Seq(Call) /\ Once(calls') /\ withdrawn' = withdrawn
        /\ Contains(calls, PipeOut(t))
        /\ \A c : Contains(calls', c) <=> Contains(calls, c) /\ c # PipeOut(t)
    BY <2>1, CallsDiffer, TakenCall
  <2>3. stage[t] = "waiting" /\ ~Contains(calls, Close(t))
    BY <2>2 DEF CallsInv, OwnCalls
  <2>4. OwnCalls(t)'
    BY <2>1, <2>2, <2>3 DEF OwnCalls, Ended
  <2>. QED
    BY <2>1, <2>2, <2>4, CallsDiffer, OneTaskStep
<1>11. ASSUME NEW t \in Task, DoClose(t) PROVE CallsInv'
  <2>1. /\ stage[t] = "leaving" /\ stage' = [stage EXCEPT ![t] = verdict[t]]
        /\ shut' = shut \cup {t} /\ UNCHANGED blocked /\ TakeUp(Close(t))
    BY <1>11 DEF DoClose, Leave
  <2>2. /\ calls' \in Seq(Call) /\ Once(calls') /\ withdrawn' = withdrawn
        /\ \A c : Contains(calls', c) <=> Contains(calls, c) /\ c # Close(t)
    BY <2>1, CallsDiffer, TakenCall
  <2>3. /\ stage'[t] \in Ended
        /\ \A u \in Task \ {t} : stage'[u] = stage[u]
    BY <1>0, <2>1 DEF TypeOK
  <2>4. ~Contains(calls, PipeOut(t))
    BY <2>1 DEF CallsInv, OwnCalls
  <2>5. OwnCalls(t)'
    BY <2>1, <2>2, <2>3, <2>4 DEF OwnCalls, Ended
  <2>. QED
    BY <2>1, <2>2, <2>3, <2>5, CallsDiffer, OneTaskStep
<1>12. ASSUME NEW t \in Task, Release(t) PROVE CallsInv'
  <2>1. /\ t \in blocked /\ blocked' = blocked \ {t} /\ UNCHANGED <<calls, withdrawn, shut>>
        /\ \A u \in Task \ {t} : stage'[u] = stage[u]
    BY <1>0, <1>12 DEF Release, Receive, vars
  <2>2. stage'[t] = IF stage[t] = "waiting" THEN "saving" ELSE stage[t]
    BY <1>0, <1>12 DEF Release, Receive, vars
  <2>3. ~Contains(calls, PipeOut(t)) /\ (Contains(calls, Close(t)) <=> stage[t] = "leaving")
    BY <2>1 DEF CallsInv, OwnCalls
  <2>4. OwnCalls(t)'
    BY <2>1, <2>2, <2>3 DEF OwnCalls
  <2>. QED
    BY <1>0, <2>1, <2>4, OneTaskStep
<1>. QED
  BY <1>1, <1>2, <1>3, <1>4, <1>5, <1>6, <1>7, <1>8, <1>9, <1>10, <1>11, <1>12
     DEF PoolNext, Serve

(* The executor holds no more calls than it has threads; a task that waits  *)
(* has a thread or a place in the queue; and a thread that waits for a task *)
(* which has gone is met by the close of its pipe, done or queued, unless   *)
(* a cancellation withdrew it.  So a coroutine can lose a thread in one way *)
(* only, and its ticket must be given up as well (ThreadsComeBack).        *)
WaitsCanEnd ==
  /\ Cardinality(blocked) =< Threads
  /\ \A t \in Task : stage[t] = "waiting" => t \in blocked \/ Contains(calls, PipeOut(t))
  /\ \A t \in blocked :
       stage[t] # "waiting" => Contains(calls, Close(t)) \/ t \in shut \cup withdrawn

THEOREM PoolFreesThreads == PoolSpec => []WaitsCanEnd
<1>1. PoolInit => CallsInv /\ ThreadsInv
  <2> SUFFICES ASSUME PoolInit PROVE CallsInv /\ ThreadsInv
    OBVIOUS
  <2>1. calls = <<>> /\ Len(calls) = 0 /\ blocked = {} /\ stage = [t \in Task |-> "new"]
    BY EmptySeq DEF PoolInit, Init
  <2>2. CallsInv
    BY <2>1, EmptySeq DEF CallsInv, OwnCalls, Once, Contains, Ended
  <2>3. ThreadsInv
    BY <2>1, FS_EmptySet, ThreadPoolAssumption DEF ThreadsInv
  <2>. QED
    BY <2>2, <2>3
<1>2. TypeOK /\ CallsInv /\ ThreadsInv => WaitsCanEnd
  BY DEF TypeOK, CallsInv, OwnCalls, ThreadsInv, WaitsCanEnd, Stages
<1>3. PoolSpec => []TypeOK
  BY PoolStepsAreHandoff, HandoffTypeCorrect, PTL
<1>. QED
  BY <1>1, <1>2, <1>3, CallsStep, ThreadsStep, PTL DEF PoolSpec
=============================================================================
