--------------------------- MODULE LokiSink_proofs ---------------------------
(***************************************************************************)
(* Proofs about LokiSink, for any capacity, batch size, number of attempts  *)
(* and number of events: what a closed sink leaves behind, and the order in *)
(* which the server gets the events.                                       *)
(***************************************************************************)
EXTENDS LokiSink, SequenceTheorems, TLAPS

Entry == 0 .. MaxEvents

-----------------------------------------------------------------------------
(* The elements of a queue.                                                *)

LEMMA EmptyHasNone == ToSet(<<>>) = {}
  BY EmptySeq DEF ToSet

LEMMA AppendedElements ==
  ASSUME NEW s \in Seq(Entry), NEW e \in Entry
  PROVE  ToSet(Append(s, e)) = ToSet(s) \cup {e}
<1>1. /\ Len(s) \in Nat /\ DOMAIN s = 1 .. Len(s)
      /\ DOMAIN Append(s, e) = 1 .. Len(s) + 1
      /\ Append(s, e)[Len(s) + 1] = e
      /\ \A i \in 1 .. Len(s) : Append(s, e)[i] = s[i]
  BY LenProperties, AppendProperties
<1>2. \A i : i \in 1 .. Len(s) + 1 <=> i \in 1 .. Len(s) \/ i = Len(s) + 1
  BY <1>1
<1>. QED
  BY <1>1, <1>2 DEF ToSet

LEMMA TakenElements ==
  ASSUME NEW s \in Seq(Entry), s # <<>>
  PROVE  /\ Head(s) \in Entry /\ Tail(s) \in Seq(Entry)
         /\ ToSet(s) = {Head(s)} \cup ToSet(Tail(s))
<1>1. /\ Len(s) \in Nat \ {0} /\ DOMAIN s = 1 .. Len(s)
      /\ Tail(s) \in Seq(Entry) /\ Head(s) \in Entry /\ Head(s) = s[1]
      /\ DOMAIN Tail(s) = 1 .. Len(s) - 1
      /\ \A i \in 1 .. Len(s) - 1 : Tail(s)[i] = s[i + 1]
  BY LenProperties, HeadTailProperties, EmptySeq
<1>2. \A i \in 1 .. Len(s) : i = 1 \/ (i - 1 \in 1 .. Len(s) - 1 /\ (i - 1) + 1 = i)
  BY <1>1
<1>3. \A i \in 1 .. Len(s) - 1 : i + 1 \in 1 .. Len(s)
  BY <1>1
<1>4. ToSet(s) \subseteq {Head(s)} \cup ToSet(Tail(s))
  <2>1. ASSUME NEW i \in 1 .. Len(s), i # 1
        PROVE  s[i] \in ToSet(Tail(s))
    <3>1. i - 1 \in DOMAIN Tail(s) /\ Tail(s)[i - 1] = s[i]
      BY <1>1, <1>2, <2>1
    <3>. QED
      BY <3>1 DEF ToSet
  <2>. QED
    BY <1>1, <2>1 DEF ToSet
<1>5. {Head(s)} \cup ToSet(Tail(s)) \subseteq ToSet(s)
  BY <1>1, <1>3 DEF ToSet
<1>. QED
  BY <1>1, <1>4, <1>5

LEMMA ElementsAreEntries ==
  ASSUME NEW s \in Seq(Entry) PROVE ToSet(s) \subseteq Entry
  BY LenProperties, ElementOfSeq DEF ToSet

-----------------------------------------------------------------------------
(* Types                                                                   *)

(* A batch that is put together is not full, and by the time the queue is   *)
(* drained the flusher is gone.                                            *)
SinkType ==
  /\ TypeOK
  /\ Len(drained) < BatchSize
  /\ sink \notin {"open", "closing"} => flusher \in {"stopped", "cancelled", "dead"}

LEMMA TypeInit == Init => SinkType
<1>1. /\ <<>> \in Seq(Entry) /\ Len(<<>>) = 0
      /\ Capacity \in Nat \ {0} /\ BatchSize \in Nat \ {0} /\ Attempts \in Nat \ {0}
      /\ MaxEvents \in Nat
  BY EmptySeq, LokiAssumption
<1>2. {} \subseteq Events
  OBVIOUS
<1>3. FALSE \in BOOLEAN /\ Entry = 0 .. MaxEvents
  BY DEF Entry
<1> SUFFICES ASSUME Init PROVE SinkType
  OBVIOUS
<1>4. TypeOK
  <2>1. orphan \in BOOLEAN /\ trouble \in BOOLEAN
    BY DEF Init
  <2>2. attempt \in 0 .. Attempts /\ offered \in 0 .. MaxEvents
    BY <1>1 DEF Init
  <2>3. stored \subseteq Events /\ early \subseteq Events /\ ~Pushing /\ attempt = 0
    BY DEF Init, Pushing
  <2>. QED
    BY <1>1, <1>3, <2>1, <2>2, <2>3 DEF Init, TypeOK
<1>. QED
  BY <1>1, <1>4 DEF Init, SinkType

(* A queue that has grown by one entry, or lost its first.                  *)
LEMMA PutType ==
  ASSUME SinkType, NEW e \in Entry, Put(e)
  PROVE  queue' \in Seq(Entry) /\ Len(queue') =< Capacity
<1>1. /\ queue \in Seq(Entry) /\ Len(queue) =< Capacity /\ Len(queue) \in Nat
      /\ Append(queue, e) \in Seq(Entry) /\ Len(Append(queue, e)) = Len(queue) + 1
      /\ Capacity \in Nat
  BY LenProperties, AppendProperties, LokiAssumption DEF SinkType, TypeOK, Entry
<1>. QED
  BY <1>1 DEF Put

LEMMA TakeType ==
  ASSUME SinkType, queue # <<>>, NEW s \in Seq(Entry)
  PROVE  /\ Tail(queue) \in Seq(Entry) /\ Len(Tail(queue)) =< Capacity
         /\ Append(s, Head(queue)) \in Seq(Entry) /\ Append(s, Head(queue)) # <<>>
         /\ Len(Append(s, Head(queue))) = Len(s) + 1 /\ Len(s) \in Nat
<1>1. queue \in Seq(Entry) /\ Len(queue) =< Capacity /\ Len(queue) \in Nat /\ Capacity \in Nat
  BY LenProperties, LokiAssumption DEF SinkType, TypeOK, Entry
<1>2. /\ Tail(queue) \in Seq(Entry) /\ Head(queue) \in Entry
      /\ Len(Tail(queue)) = Len(queue) - 1
  BY <1>1, HeadTailProperties
<1>. QED
  BY <1>1, <1>2, AppendProperties, LenProperties

LEMMA TypeStep == SinkType /\ [Next]_vars => SinkType'
<1> SUFFICES ASSUME SinkType, [Next]_vars PROVE SinkType'
  OBVIOUS
<1>0. /\ <<>> \in Seq(Entry) /\ Len(<<>>) = 0 /\ 0 \in Entry
      /\ Capacity \in Nat \ {0} /\ BatchSize \in Nat \ {0} /\ Attempts \in Nat \ {0}
      /\ MaxEvents \in Nat
      /\ \A s \in Seq(Entry) : Len(s) \in Nat
  BY EmptySeq, LenProperties, LokiAssumption DEF Entry
<1>a. Entry = 0 .. MaxEvents
  BY DEF Entry
<1> USE <1>0 DEF SinkType, TypeOK, Pushing
<1>1. CASE Enqueue
  <2>1. offered + 1 \in Entry /\ offered + 1 \in Events
    BY <1>1, <1>a DEF Enqueue, Events
  <2>2. queue' \in Seq(Entry) /\ Len(queue') =< Capacity
    BY <1>1, <2>1, PutType DEF Enqueue
  <2>3. UNCHANGED <<flusher, orphan, collected, batch, attempt, stored, trouble, sink, drained>>
    BY <1>1 DEF Enqueue, flusherVars, pushVars, exitVars
  <2>. QED
    BY <1>1, <1>a, <2>1, <2>2, <2>3 DEF Enqueue
<1>2. CASE StartCollecting \/ SeeStop
  BY <1>2, <1>a DEF StartCollecting, SeeStop, queueVars, pushVars, exitVars
<1>3. CASE HandBatch
  BY <1>3, <1>a DEF HandBatch, StartPush, queueVars, exitVars
<1>4. CASE Collect
  BY <1>4, <1>a, TakeType DEF Collect, pushVars, exitVars
<1>5. CASE OrphanReturns
  <2>1. orphan' \in BOOLEAN
    BY <1>5 DEF OrphanReturns
  <2>. QED
    BY <1>5, <1>a, <2>1 DEF OrphanReturns, queueVars, pushVars, exitVars
<1>6. CASE PostSucceeds
  BY <1>6, <1>a DEF PostSucceeds, PushReturns, Received, queueVars
<1>7. CASE PostFails
  <2>1. queue' \in Seq(Entry) /\ Len(queue') =< Capacity
    BY <1>7, PutType DEF PostFails, Warning
  <2>2. stored' \subseteq stored \cup Events
    BY <1>7 DEF PostFails, Received
  <2>3. CASE attempt < Attempts
    BY <1>7, <1>a, <2>1, <2>2, <2>3 DEF PostFails
  <2>4. CASE ~(attempt < Attempts)
    BY <1>7, <1>a, <2>1, <2>2, <2>4 DEF PostFails, PushReturns
  <2>. QED
    BY <2>3, <2>4
<1>8. CASE PostRaises
  BY <1>8, <1>a DEF PostRaises, queueVars
<1>9. CASE BeginExit \/ FlusherEnds
  BY <1>9, <1>a DEF BeginExit, FlusherEnds, queueVars, flusherVars, pushVars
<1>10. CASE CancelFlusher
  BY <1>10, <1>a DEF CancelFlusher, Received, queueVars
<1>11. CASE Drain
  <2>1. /\ UNCHANGED <<offered, early, flusher, orphan, collected, stored, trouble, sink>>
        /\ queue # <<>> /\ queue' = Tail(queue) /\ ~Pushing /\ sink = "draining"
    BY <1>11 DEF Drain, flusherVars
  <2>2. PICK b : b = Append(drained, Head(queue))
    OBVIOUS
  <2>a. b \in Seq(Entry) /\ b # <<>> /\ Len(b) = Len(drained) + 1 /\ Len(b) =< BatchSize
    BY <1>a, <2>1, <2>2, TakeType
  <2>b. \/ drained' = <<>> /\ batch' = b /\ attempt' = 1
        \/ Len(b) < BatchSize /\ drained' = b /\ UNCHANGED <<batch, attempt>>
    BY <1>11, <2>2, <2>a DEF Drain, StartPush
  <2>3. queue' \in Seq(Entry) /\ Len(queue') =< Capacity
    BY <2>1, TakeType
  <2>4. /\ drained' \in Seq(Entry) /\ batch' \in Seq(Entry)
        /\ Len(drained') < BatchSize /\ Len(batch') =< BatchSize
        /\ attempt' = 0 <=> batch' = <<>>
        /\ attempt' \in 0 .. Attempts
    <3>1. drained \in Seq(Entry) /\ batch \in Seq(Entry) /\ batch = <<>>
      BY <1>a, <2>1
    <3>2. CASE drained' = <<>> /\ batch' = b /\ attempt' = 1
      BY <2>a, <3>2
    <3>3. CASE Len(b) < BatchSize /\ drained' = b /\ UNCHANGED <<batch, attempt>>
      BY <2>1, <2>a, <3>1, <3>3
    <3>. QED
      BY <2>b, <3>2, <3>3
  <2>. QED
    BY <1>a, <2>1, <2>3, <2>4
<1>12. CASE DrainEnds
  BY <1>12, <1>a DEF DrainEnds, StartPush, queueVars, flusherVars
<1>13. CASE UNCHANGED vars
  BY <1>13, <1>a DEF vars
<1>. QED
  BY <1>1, <1>2, <1>3, <1>4, <1>5, <1>6, <1>7, <1>8, <1>9, <1>10, <1>11, <1>12, <1>13
  DEF Next, FlushLoop, Post, Exit

(* At every time, whatever the server does: types, limits, and a batch that *)
(* is pushed has exactly one of the two pushers.                           *)
THEOREM SinkTypeCorrect == Spec => []TypeOK
<1>1. SinkType => TypeOK
  BY DEF SinkType
<1>. QED
  BY <1>1, TypeInit, TypeStep, PTL DEF Spec

-----------------------------------------------------------------------------
(* What becomes of an accepted event                                       *)

Everywhere == ToSet(queue) \cup ToSet(collected) \cup ToSet(batch) \cup ToSet(drained)

(* A collected batch has a collector, a drained one is put together between *)
(* two pushes, what was accepted early is on its way or stored, and the     *)
(* queue was found empty before the sink is closed.                        *)
FlowInv ==
  /\ early \subseteq 1 .. offered
  /\ flusher = "cancelled" => trouble
  /\ orphan => flusher = "cancelled"
  /\ collected # <<>> => flusher = "collecting" \/ orphan
  /\ drained # <<>> => sink = "draining" /\ ~Pushing
  /\ ~trouble => early \subseteq Everywhere \cup stored
  /\ sink \in {"flushing", "closed"} => ToSet(queue) \cap early = {}

(* Three things happen to the queue.                                       *)
LEMMA PutElements ==
  ASSUME SinkType, NEW e \in Entry, Put(e)
  PROVE  /\ Len(queue) < Capacity => ToSet(queue') = ToSet(queue) \cup {e}
         /\ ~(Len(queue) < Capacity) => ToSet(queue') = ToSet(queue)
  BY AppendedElements DEF Put, SinkType, TypeOK, Entry

LEMMA TakeElements ==
  ASSUME SinkType, queue # <<>>, NEW s \in Seq(Entry)
  PROVE  /\ Head(queue) \in Entry
         /\ ToSet(queue) = {Head(queue)} \cup ToSet(Tail(queue))
         /\ ToSet(Append(s, Head(queue))) = ToSet(s) \cup {Head(queue)}
<1>1. queue \in Seq(Entry)
  BY DEF SinkType, TypeOK, Entry
<1>2. /\ Head(queue) \in Entry
      /\ ToSet(queue) = {Head(queue)} \cup ToSet(Tail(queue))
  BY <1>1, TakenElements
<1>. QED
  BY <1>2, AppendedElements

LEMMA FlowStep == SinkType /\ FlowInv /\ [Next]_vars => FlowInv'
<1> SUFFICES ASSUME SinkType, FlowInv, [Next]_vars PROVE FlowInv'
  OBVIOUS
<1>0. /\ collected \in Seq(Entry) /\ drained \in Seq(Entry) /\ offered \in Nat
      /\ early \subseteq Events /\ stored \subseteq Events
      /\ ToSet(<<>>) = {}
      /\ offered \in Entry
  BY EmptyHasNone, LokiAssumption DEF SinkType, TypeOK, Entry
<1>a. ASSUME UNCHANGED <<queue, collected, batch, drained, stored, early, offered>>
      PROVE  /\ early' \subseteq 1 .. offered'
             /\ early' \subseteq (Everywhere \cup stored)' <=> early \subseteq Everywhere \cup stored
             /\ ToSet(queue') \cap early' = {} <=> ToSet(queue) \cap early = {}
  BY <1>a DEF FlowInv, Everywhere
<1> USE DEF FlowInv, Pushing
<1>2. CASE StartCollecting \/ SeeStop
  BY <1>2, <1>a DEF StartCollecting, SeeStop, queueVars, pushVars, exitVars
<1>9. CASE BeginExit \/ FlusherEnds
  BY <1>9, <1>a DEF BeginExit, FlusherEnds, queueVars, flusherVars, pushVars
<1>13. CASE UNCHANGED vars
  BY <1>13, <1>a DEF vars
<1> USE DEF Everywhere
<1>1. CASE Enqueue
  <2>1. offered + 1 \in Entry /\ offered + 1 \notin early
    BY <1>0, <1>1, LokiAssumption DEF Enqueue, Entry
  <2>2. /\ Len(queue) < Capacity => ToSet(queue') = ToSet(queue) \cup {offered + 1}
        /\ ~(Len(queue) < Capacity) => ToSet(queue') = ToSet(queue)
    BY <1>1, <2>1, PutElements DEF Enqueue
  <2>3. UNCHANGED <<flusher, orphan, collected, batch, stored, trouble, sink, drained>>
    BY <1>1 DEF Enqueue, flusherVars, pushVars, exitVars
  <2>4. /\ early' \subseteq early \cup {offered + 1}
        /\ early' # early => Len(queue) < Capacity /\ sink = "open"
        /\ offered' = offered + 1
    BY <1>1 DEF Enqueue
  <2>5. early' \subseteq 1 .. offered'
    BY <1>0, <2>4
  <2>6. ~trouble' => early' \subseteq Everywhere' \cup stored'
    BY <2>2, <2>3, <2>4
  <2>7. sink' \in {"flushing", "closed"} => ToSet(queue') \cap early' = {}
    BY <2>1, <2>2, <2>3, <2>4
  <2>. QED
    BY <2>3, <2>5, <2>6, <2>7
<1>3. CASE HandBatch
  <2>1. /\ UNCHANGED <<queue, offered, early, orphan, stored, trouble, sink, drained>>
        /\ flusher = "collecting" /\ flusher' \in {"head", "pushing"} /\ collected' = <<>>
        /\ collected # <<>> => batch' = collected
        /\ collected = <<>> => batch' = batch
    BY <1>3 DEF HandBatch, StartPush, queueVars, exitVars
  <2>2. batch = <<>> /\ drained = <<>>
    BY <2>1 DEF SinkType, TypeOK
  <2>3. Everywhere' = Everywhere
    BY <1>0, <2>1, <2>2
  <2>. QED
    BY <1>0, <2>1, <2>2, <2>3
<1>4. CASE Collect
  <2>1. /\ UNCHANGED <<early, offered, flusher, orphan, batch, stored, trouble, sink, drained>>
        /\ ToSet(queue) = {Head(queue)} \cup ToSet(queue')
        /\ ToSet(collected') = ToSet(collected) \cup {Head(queue)}
        /\ flusher = "collecting" \/ orphan
    BY <1>0, <1>4, TakeElements DEF Collect, pushVars, exitVars
  <2>. QED
    BY <2>1
<1>5. CASE OrphanReturns
  BY <1>0, <1>5 DEF OrphanReturns, queueVars, pushVars, exitVars
<1>6. CASE PostSucceeds
  BY <1>0, <1>6 DEF PostSucceeds, PushReturns, Received, queueVars, SinkType
<1>7. CASE PostFails
  <2>1. 0 \in Entry /\ 0 \notin early
    BY <1>0, LokiAssumption DEF Entry
  <2>2. ToSet(queue') \subseteq ToSet(queue) \cup {0}
    BY <1>7, <2>1, PutElements DEF PostFails, Warning
  <2>3. trouble' /\ UNCHANGED <<offered, early, orphan, collected, drained>>
    BY <1>7 DEF PostFails
  <2>. QED
    BY <1>7, <2>1, <2>2, <2>3 DEF PostFails, PushReturns, SinkType
<1>8. CASE PostRaises
  BY <1>8 DEF PostRaises, queueVars
<1>10. CASE CancelFlusher
  BY <1>10 DEF CancelFlusher, queueVars
<1>11. CASE Drain
  <2>1. /\ UNCHANGED <<early, offered, flusher, orphan, collected, stored, trouble, sink>>
        /\ ToSet(queue) = {Head(queue)} \cup ToSet(queue')
        /\ ToSet(Append(drained, Head(queue))) = ToSet(drained) \cup {Head(queue)}
        /\ sink = "draining" /\ batch = <<>>
    BY <1>0, <1>11, TakeElements DEF Drain, flusherVars
  <2>2. \/ drained' = <<>> /\ batch' = Append(drained, Head(queue))
        \/ drained' = Append(drained, Head(queue)) /\ batch' = batch
    BY <1>11 DEF Drain, StartPush
  <2>. QED
    BY <1>0, <2>1, <2>2
<1>12. CASE DrainEnds
  BY <1>0, <1>12 DEF DrainEnds, StartPush, queueVars, flusherVars
<1>. QED
  BY <1>1, <1>2, <1>3, <1>4, <1>5, <1>6, <1>7, <1>8, <1>9, <1>10, <1>11, <1>12, <1>13
  DEF Next, FlushLoop, Post, Exit

LEMMA FlowInit == Init => FlowInv
  BY EmptyHasNone DEF Init, FlowInv, Everywhere, Pushing

(* A sink that was closed properly has left nothing behind, for any number  *)
(* of events, any capacity and any number of attempts.                     *)
THEOREM ClosedSinkIsEmpty == Spec => []CloseLeavesNothing
<1>1. SinkType /\ FlowInv => CloseLeavesNothing
  <2> SUFFICES ASSUME SinkType, FlowInv, sink = "closed"
               PROVE  ToSet(queue) \cap early = {} /\ (~trouble => early \subseteq stored)
    BY DEF CloseLeavesNothing
  <2>1. batch = <<>> /\ drained = <<>>
    BY DEF SinkType, TypeOK, FlowInv, Pushing
  <2>2. ~trouble => collected = <<>>
    BY DEF SinkType, FlowInv
  <2>. QED
    BY <2>1, <2>2, EmptyHasNone DEF FlowInv, Everywhere
<1>. QED
  BY <1>1, TypeInit, TypeStep, FlowInit, FlowStep, PTL DEF Spec

-----------------------------------------------------------------------------
(* The order of arrival                                                    *)

Before(A, B) == \A a \in A \cap Events, b \in B \cap Events : a < b

(* Events taken from the queue that are still to be pushed.                 *)
Kept == ToSet(drained) \cup IF orphan THEN {} ELSE ToSet(collected)

Increasing(s) ==
  \A i, j \in 1 .. Len(s) :
    i < j /\ s[i] \in Events /\ s[j] \in Events => s[i] < s[j]

(* Stored, pushed, kept and queued events follow each other in this order;  *)
(* what was pushed may be stored already.                                  *)
OrderInv ==
  /\ stored \cup ToSet(batch) \cup Kept \cup ToSet(queue) \subseteq 0 .. offered
  /\ Increasing(queue)
  /\ Before(stored \cup ToSet(batch) \cup Kept, ToSet(queue))
  /\ Before(stored \cup ToSet(batch), Kept)
  /\ Before(stored, Received \ stored)

LEMMA AppendIncreases ==
  ASSUME NEW s \in Seq(Entry), Increasing(s), NEW e \in Entry, Before(ToSet(s), {e})
  PROVE  Increasing(Append(s, e))
<1>1. /\ Len(s) \in Nat /\ Len(Append(s, e)) = Len(s) + 1
      /\ Append(s, e)[Len(s) + 1] = e
      /\ \A i \in 1 .. Len(s) : Append(s, e)[i] = s[i]
  BY LenProperties, AppendProperties
<1>2. \A i \in 1 .. Len(s) : s[i] \in ToSet(s)
  BY LenProperties DEF ToSet
<1> SUFFICES ASSUME NEW i \in 1 .. Len(s) + 1, NEW j \in 1 .. Len(s) + 1, i < j,
                    Append(s, e)[i] \in Events, Append(s, e)[j] \in Events
             PROVE  Append(s, e)[i] < Append(s, e)[j]
  BY <1>1 DEF Increasing
<1>3. i \in 1 .. Len(s)
  BY <1>1
<1>4. CASE j \in 1 .. Len(s)
  BY <1>1, <1>3, <1>4 DEF Increasing
<1>5. CASE j = Len(s) + 1
  BY <1>1, <1>2, <1>3, <1>5 DEF Before
<1>. QED
  BY <1>1, <1>4, <1>5

LEMMA TailIncreases ==
  ASSUME NEW s \in Seq(Entry), s # <<>>, Increasing(s)
  PROVE  Increasing(Tail(s)) /\ Before({Head(s)}, ToSet(Tail(s)))
<1>1. /\ Len(s) \in Nat \ {0} /\ Head(s) = s[1]
      /\ Len(Tail(s)) = Len(s) - 1 /\ DOMAIN Tail(s) = 1 .. Len(s) - 1
      /\ \A i \in 1 .. Len(s) - 1 : Tail(s)[i] = s[i + 1] /\ i + 1 \in 1 .. Len(s)
  BY LenProperties, HeadTailProperties, EmptySeq
<1>2. Increasing(Tail(s))
  <2> SUFFICES ASSUME NEW i \in 1 .. Len(s) - 1, NEW j \in 1 .. Len(s) - 1, i < j,
                      s[i + 1] \in Events, s[j + 1] \in Events
               PROVE  s[i + 1] < s[j + 1]
    BY <1>1 DEF Increasing
  <2>. QED
    BY <1>1 DEF Increasing
<1>3. Before({Head(s)}, ToSet(Tail(s)))
  <2> SUFFICES ASSUME NEW j \in 1 .. Len(s) - 1, s[1] \in Events, s[j + 1] \in Events
               PROVE  s[1] < s[j + 1]
    BY <1>1 DEF Before, ToSet
  <2>. QED
    BY <1>1 DEF Increasing
<1>. QED
  BY <1>2, <1>3

(* Putting an entry into the queue, a new event or a warning, and taking    *)
(* the first one out keep the order.                                       *)
LEMMA PutKeepsOrder ==
  ASSUME SinkType, OrderInv, NEW e \in Entry, e = Warning \/ e = offered + 1, Put(e)
  PROVE  /\ ToSet(queue') \subseteq ToSet(queue) \cup {e}
         /\ Increasing(queue')
         /\ \A b \in ToSet(queue') \cap Events : b \in ToSet(queue) \/ b = offered + 1
<1>1. queue \in Seq(Entry) /\ offered \in Nat
  BY LokiAssumption DEF SinkType, TypeOK, Entry
<1>2. e \in Events => e = offered + 1
  BY DEF Warning, Events
<1>3. Before(ToSet(queue), {e})
  BY <1>1, <1>2 DEF OrderInv, Before
<1>4. ToSet(queue') \subseteq ToSet(queue) \cup {e}
  BY PutElements
<1>5. Increasing(queue')
  BY <1>1, <1>3, AppendIncreases DEF OrderInv, Put
<1>. QED
  BY <1>2, <1>4, <1>5

LEMMA TakeKeepsOrder ==
  ASSUME SinkType, OrderInv, queue # <<>>, queue' = Tail(queue)
  PROVE  Increasing(queue') /\ Before({Head(queue)}, ToSet(queue'))
  BY TailIncreases DEF SinkType, TypeOK, Entry, OrderInv

LEMMA OrderStep == SinkType /\ FlowInv /\ OrderInv /\ [Next]_vars => OrderInv'
<1> SUFFICES ASSUME SinkType, FlowInv, OrderInv, [Next]_vars PROVE OrderInv'
  OBVIOUS
<1>0. /\ collected \in Seq(Entry) /\ drained \in Seq(Entry) /\ offered \in Nat
      /\ stored \subseteq Events
      /\ ToSet(<<>>) = {} /\ 0 \in Entry
  BY EmptyHasNone, LokiAssumption DEF SinkType, TypeOK, Entry
<1>a. ASSUME UNCHANGED <<stored, batch, drained, orphan, collected, queue, offered>>
      PROVE  OrderInv'
  BY <1>a DEF OrderInv, Kept, Received, Increasing
<1>b. /\ batch # <<>> => Kept = {}
      /\ flusher # "cancelled" => ~orphan
  BY EmptyHasNone DEF SinkType, TypeOK, FlowInv, Kept, Pushing
<1>c. ASSUME ToSet(batch') = {}, Kept' \subseteq Kept, UNCHANGED <<queue, offered>>,
             stored' = stored \/ stored' = stored \cup Received
      PROVE  OrderInv'
  <2>1. /\ stored' \subseteq stored \cup ToSet(batch) /\ Received' = {}
        /\ ToSet(queue') = ToSet(queue) /\ Increasing(queue')
    BY <1>c DEF Received, OrderInv
  <2>. QED
    BY <1>c, <2>1 DEF OrderInv, Before
<1>1. CASE Enqueue
  <2>1. offered + 1 \in Entry /\ offered' = offered + 1 /\ Put(offered + 1)
    BY <1>0, <1>1, LokiAssumption DEF Enqueue, Entry
  <2>2. UNCHANGED <<stored, batch, Kept, Received>>
    BY <1>1 DEF Enqueue, flusherVars, pushVars, exitVars, Kept, Received
  <2>3. /\ ToSet(queue') \subseteq ToSet(queue) \cup {offered + 1}
        /\ Increasing(queue')
    BY <2>1, PutKeepsOrder
  <2>. QED
    BY <1>0, <2>1, <2>2, <2>3 DEF OrderInv, Before
<1>2. CASE StartCollecting \/ SeeStop \/ BeginExit \/ FlusherEnds \/ UNCHANGED vars
  BY <1>2, <1>a DEF StartCollecting, SeeStop, BeginExit, FlusherEnds, queueVars, flusherVars,
     pushVars, exitVars, vars
<1>3. CASE HandBatch
  <2>1. /\ UNCHANGED <<queue, offered, orphan, stored, drained>>
        /\ flusher = "collecting" /\ collected' = <<>>
        /\ collected # <<>> => batch' = collected
        /\ collected = <<>> => batch' = batch
    BY <1>3 DEF HandBatch, StartPush, queueVars, exitVars
  <2>2. batch = <<>> /\ drained = <<>> /\ ~orphan
    BY <2>1, <1>b DEF SinkType, TypeOK, FlowInv, Pushing
  <2>3. ToSet(batch') = Kept /\ Kept' = {}
    BY <1>0, <2>1, <2>2 DEF Kept
  <2>. QED
    BY <2>1, <2>3 DEF OrderInv, Before, Received, Increasing
<1>4. CASE Collect
  <2>1. /\ UNCHANGED <<offered, orphan, batch, stored, drained, Received>>
        /\ queue # <<>> /\ queue' = Tail(queue)
        /\ ToSet(queue) = {Head(queue)} \cup ToSet(queue')
        /\ ToSet(collected') = ToSet(collected) \cup {Head(queue)}
    BY <1>0, <1>4, TakeElements DEF Collect, pushVars, exitVars, Received
  <2>2. Kept' \subseteq Kept \cup {Head(queue)}
    BY <2>1 DEF Kept
  <2>3. Increasing(queue') /\ Before({Head(queue)}, ToSet(queue'))
    BY <2>1, TakeKeepsOrder
  <2>. QED
    BY <2>1, <2>2, <2>3 DEF OrderInv, Before
<1>5. CASE OrphanReturns
  <2>1. UNCHANGED <<queue, offered, batch, stored, Received>> /\ Kept' = Kept
    BY <1>0, <1>5 DEF OrphanReturns, queueVars, pushVars, exitVars, Kept, Received
  <2>. QED
    BY <2>1 DEF OrderInv, Increasing
<1>6. CASE PostSucceeds
  <2>1. /\ UNCHANGED <<queue, offered, Kept>> /\ batch' = <<>>
        /\ stored' = stored \cup Received
    BY <1>6 DEF PostSucceeds, PushReturns, queueVars, Kept
  <2>. QED
    BY <1>0, <1>c, <2>1
<1>7. CASE PostFails
  <2>1. /\ UNCHANGED <<offered, Kept>>
        /\ batch' = batch \/ batch' = <<>>
        /\ Put(Warning) /\ Warning \in Entry
        /\ stored' = stored \/ stored' = stored \cup Received
    BY <1>0, <1>7 DEF PostFails, PushReturns, Kept, Warning
  <2>2. /\ ToSet(queue') \cap Events \subseteq ToSet(queue) \cap Events
        /\ ToSet(queue') \subseteq ToSet(queue) \cup {0}
        /\ Increasing(queue')
    BY <2>1, PutKeepsOrder, PutElements DEF Warning, Events
  <2>3. /\ ToSet(batch') \subseteq ToSet(batch)
        /\ Received' = Received \/ Received' = {}
        /\ Received \subseteq ToSet(batch)
    BY <1>0, <2>1 DEF Received
  <2>4. (stored \cup ToSet(batch) \cup Kept \cup ToSet(queue))' \subseteq 0 .. offered'
    BY <1>0, <2>1, <2>2, <2>3 DEF OrderInv
  <2>5. stored' \cup ToSet(batch') \subseteq stored \cup ToSet(batch)
    BY <2>1, <2>3
  <2>6. /\ Before(stored' \cup ToSet(batch') \cup Kept', ToSet(queue'))
        /\ Before(stored' \cup ToSet(batch'), Kept')
    BY <2>1, <2>2, <2>5 DEF OrderInv, Before
  <2>7. Before(stored', Received' \ stored')
    BY <2>1, <2>3 DEF OrderInv, Before
  <2>. QED
    BY <2>2, <2>4, <2>6, <2>7 DEF OrderInv
<1>8. CASE PostRaises
  BY <1>0, <1>8, <1>c DEF PostRaises, queueVars, Kept
<1>9. CASE CancelFlusher
  <2>1. /\ UNCHANGED <<queue, offered, collected, drained>> /\ batch' = <<>>
        /\ stored' = stored \/ stored' = stored \cup Received
        /\ flusher # "cancelled"
    BY <1>9 DEF CancelFlusher, queueVars
  <2>2. Kept' \subseteq Kept
    BY <1>b, <2>1 DEF Kept
  <2>. QED
    BY <1>0, <1>c, <2>1, <2>2
<1>10. CASE Drain
  <2>1. /\ UNCHANGED <<offered, orphan, collected, stored>>
        /\ queue # <<>> /\ queue' = Tail(queue) /\ batch = <<>>
        /\ ToSet(queue) = {Head(queue)} \cup ToSet(queue')
        /\ ToSet(Append(drained, Head(queue))) = ToSet(drained) \cup {Head(queue)}
        /\ sink = "draining"
    BY <1>0, <1>10, TakeElements DEF Drain, flusherVars, Pushing
  <2>2. \/ drained' = <<>> /\ batch' = Append(drained, Head(queue))
        \/ drained' = Append(drained, Head(queue)) /\ batch' = batch
    BY <1>10 DEF Drain, StartPush
  <2>3. Increasing(queue') /\ Before({Head(queue)}, ToSet(queue'))
    BY <2>1, TakeKeepsOrder
  <2>4. orphan \/ collected = <<>>
    BY <2>1 DEF SinkType, FlowInv
  <2>5. \/ /\ ToSet(batch') = Kept \cup {Head(queue)} /\ Kept' = {}
        \/ /\ ToSet(batch') = {} /\ Kept' = Kept \cup {Head(queue)}
    BY <1>0, <2>1, <2>2, <2>4 DEF Kept
  <2>. QED
    BY <2>1, <2>3, <2>5 DEF OrderInv, Before, Received
<1>11. CASE DrainEnds
  <2>1. /\ UNCHANGED <<queue, offered, orphan, collected, stored>>
        /\ batch = <<>> /\ sink = "draining" /\ drained' = <<>>
        /\ drained = <<>> => batch' = batch
        /\ drained # <<>> => batch' = drained
    BY <1>11 DEF DrainEnds, StartPush, queueVars, flusherVars, Pushing
  <2>2. orphan \/ collected = <<>>
    BY <2>1 DEF SinkType, FlowInv
  <2>3. ToSet(batch') = Kept /\ Kept' = {}
    BY <1>0, <2>1, <2>2 DEF Kept
  <2>. QED
    BY <2>1, <2>3 DEF OrderInv, Before, Received, Increasing
<1>. QED
  BY <1>1, <1>2, <1>3, <1>4, <1>5, <1>6, <1>7, <1>8, <1>9, <1>10, <1>11
  DEF Next, FlushLoop, Post, Exit

LEMMA OrderInit == Init => OrderInv
  BY EmptyHasNone, EmptySeq DEF Init, OrderInv, Kept, Increasing, Before, Received

LEMMA StoredAfterward == SinkType /\ OrderInv /\ [Next]_vars =>
                           [\A e \in stored' \ stored : \A s \in stored : s < e]_vars
<1> SUFFICES ASSUME SinkType, OrderInv, [Next]_vars, NEW e \in stored' \ stored, NEW s \in stored
             PROVE  s < e
  OBVIOUS
<1>1. CASE PostSucceeds \/ PostFails \/ CancelFlusher
  <2>1. e \in Received \ stored
    BY <1>1 DEF PostSucceeds, PostFails, CancelFlusher
  <2>2. e \in Events /\ s \in Events
    BY <2>1 DEF Received, SinkType, TypeOK
  <2>. QED
    BY <2>1, <2>2 DEF OrderInv, Before
<1>2. CASE ~(PostSucceeds \/ PostFails \/ CancelFlusher)
  <2>1. UNCHANGED stored
    BY <1>2 DEF Next, FlushLoop, Post, Exit, Enqueue, StartCollecting, SeeStop, HandBatch,
       Collect, OrphanReturns, PostRaises, BeginExit, FlusherEnds, Drain, DrainEnds, pushVars,
       vars
  <2>. QED
    BY <2>1
<1>. QED
  BY <1>1, <1>2

(* The server gets the events in the order they were logged, whoever pushes *)
(* them and however often an attempt is repeated.                          *)
THEOREM EventsArriveInOrder == Spec => StoredInOrder
  BY TypeInit, TypeStep, FlowInit, FlowStep, OrderInit, OrderStep, StoredAfterward, PTL
  DEF Spec, StoredInOrder
=============================================================================
