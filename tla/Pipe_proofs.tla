----------------------------- MODULE Pipe_proofs -----------------------------
(***************************************************************************)
(* Proofs about Pipe, for any consumers and any number of items: it keeps   *)
(* its types and its list of waiters, and it is a closable FIFO channel.    *)
(***************************************************************************)
EXTENDS Pipe, SequenceTheorems, TLAPS

(* Notifying the longest waiting thread leaves the others, each once.       *)
LEMMA TailKeepsInjective ==
  ASSUME NEW S, NEW s \in Seq(S), s # <<>>, IsInjective(s)
  PROVE  /\ Tail(s) \in Seq(S)
         /\ IsInjective(Tail(s))
         /\ ToSet(Tail(s)) \subseteq ToSet(s)
<1>1. Tail(s) \in Seq(S) /\ Len(Tail(s)) = Len(s) - 1
  BY HeadTailProperties
<1>2. \A i \in DOMAIN Tail(s) : Tail(s)[i] = s[i + 1] /\ i + 1 \in DOMAIN s
  BY <1>1, HeadTailProperties
<1>3. \A i \in DOMAIN Tail(s) : i \in Nat
  BY <1>1
<1>4. IsInjective(Tail(s))
  BY <1>2, <1>3 DEF IsInjective
<1>. QED
  BY <1>1, <1>2, <1>4 DEF ToSet

LEMMA AppendKeepsInjective ==
  ASSUME NEW S, NEW s \in Seq(S), IsInjective(s), NEW e \in S, ~Contains(s, e)
  PROVE  /\ Append(s, e) \in Seq(S)
         /\ IsInjective(Append(s, e))
         /\ ToSet(Append(s, e)) = ToSet(s) \cup {e}
  BY DEF IsInjective, Contains, ToSet

(* A waiter that withdraws is gone, and the others stay, each once.         *)
LEMMA RemoveAtProperties ==
  ASSUME NEW S, NEW s \in Seq(S), NEW i \in DOMAIN s, IsInjective(s)
  PROVE  /\ RemoveAt(s, i) \in Seq(S)
         /\ IsInjective(RemoveAt(s, i))
         /\ ToSet(RemoveAt(s, i)) \subseteq ToSet(s) \ {s[i]}
<1> DEFINE a == SubSeq(s, 1, i - 1)
           b == SubSeq(s, i + 1, Len(s))
           r == RemoveAt(s, i)
<1>1. i \in 1 .. Len(s) /\ Len(s) \in Nat
  OBVIOUS
<1>2. /\ a \in Seq(S) /\ Len(a) = i - 1
      /\ \A k \in 1 .. i - 1 : a[k] = s[k]
  BY <1>1, SubSeqProperties, ElementOfSeq
<1>3. /\ b \in Seq(S) /\ Len(b) = Len(s) - i
      /\ \A k \in 1 .. Len(s) - i : b[k] = s[i + k]
  BY <1>1, SubSeqProperties, ElementOfSeq
<1>4. r = a \o b
  BY DEF RemoveAt
<1>. HIDE DEF r, a, b
<1>c. /\ a \o b \in Seq(S)
      /\ Len(a \o b) = Len(a) + Len(b)
      /\ \A k \in 1 .. Len(a) + Len(b) :
           (a \o b)[k] = IF k =< Len(a) THEN a[k] ELSE b[k - Len(a)]
  BY <1>2, <1>3, ConcatProperties
<1>5. r \in Seq(S) /\ Len(r) = Len(s) - 1
  BY <1>c, <1>1, <1>2, <1>3, <1>4
<1>6. \A k \in 1 .. Len(s) - 1 : r[k] = IF k < i THEN s[k] ELSE s[k + 1]
  <2> TAKE k \in 1 .. Len(s) - 1
  <2>1. CASE k < i
    BY <2>1, <1>1, <1>2, <1>3, <1>4, <1>c
  <2>2. CASE k >= i
    <3>0. k - (i - 1) \in 1 .. Len(s) - i /\ ~(k =< Len(a)) /\ k \in 1 .. Len(a) + Len(b)
      BY <2>2, <1>1, <1>2, <1>3
    <3>1. r[k] = b[k - (i - 1)]
      BY <3>0, <2>2, <1>1, <1>2, <1>3, <1>4, <1>c
    <3>2. b[k - (i - 1)] = s[k + 1]
      BY <3>0, <2>2, <1>1, <1>3
    <3>. QED
      BY <2>2, <3>1, <3>2, <1>1
  <2>. QED
    BY <2>1, <2>2, <1>1
<1>7. \A k \in 1 .. Len(s) - 1 : \E m \in DOMAIN s : m # i /\ r[k] = s[m]
  BY <1>1, <1>6
<1>8. IsInjective(r)
  <2> SUFFICES ASSUME NEW j \in 1 .. Len(s) - 1, NEW k \in 1 .. Len(s) - 1, r[j] = r[k]
               PROVE  j = k
    BY <1>5 DEF IsInjective
  <2>. QED
    BY <1>1, <1>6 DEF IsInjective
<1>9. ToSet(r) \subseteq ToSet(s) \ {s[i]}
  BY <1>5, <1>7, <1>1 DEF ToSet, IsInjective
<1>. QED
  BY <1>5, <1>8, <1>9 DEF r

-----------------------------------------------------------------------------
(* Type correctness                                                        *)

(* What Pipe knows of its waiters.                                         *)
WaitersOK(w, p) ==
  /\ w \in Seq(Consumers)
  /\ IsInjective(w)
  /\ \A c \in ToSet(w) : p[c] \in {"waiting", "expired"}

LEMMA InitTypeOK == Init => TypeOK
<1> SUFFICES ASSUME Init PROVE TypeOK
  OBVIOUS
<1>1. WaitersOK(waiters, pc)
  BY DEF Init, WaitersOK, IsInjective, ToSet
<1>2. queue \in Seq(1 .. MaxItems) /\ waiters \in Seq(Consumers)
  BY DEF Init
<1>3. pc \in [Consumers -> {"idle", "entering", "waiting", "expired"}]
  BY DEF Init
<1>4. result \in [Consumers -> 0 .. MaxItems + 2] /\ written \in 0 .. MaxItems
  BY PipeAssumption DEF Init, Nothing
<1>. QED
  BY <1>1, <1>2, <1>3, <1>4 DEF Init, TypeOK, WaitersOK

LEMMA NotifyOK ==
  ASSUME WaitersOK(waiters, pc), Notify
  PROVE  WaitersOK(waiters', pc)
<1>1. CASE waiters = <<>>
  BY <1>1 DEF Notify, WaitersOK
<1>2. CASE waiters # <<>>
  BY <1>2, TailKeepsInjective DEF Notify, WaitersOK
<1>. QED
  BY <1>1, <1>2

(* Who is in the list is where the list says, so a thread that moves from   *)
(* another place is not in it.                                             *)
LEMMA MovesOutside ==
  ASSUME WaitersOK(waiters, pc), NEW c \in Consumers, NEW place,
         c \notin ToSet(waiters), NEW P, pc \in [Consumers -> P],
         pc' = [pc EXCEPT ![c] = place]
  PROVE  WaitersOK(waiters, pc')
<1>1. \A d \in ToSet(waiters) : d \in Consumers /\ d # c
  BY DEF WaitersOK, ToSet
<1>. QED
  BY <1>1 DEF WaitersOK

LEMMA TypeStep == TypeOK /\ [Next]_vars => TypeOK'
<1> SUFFICES ASSUME TypeOK, [Next]_vars PROVE TypeOK'
  OBVIOUS
<1> USE PipeAssumption
<1>0. /\ WaitersOK(waiters, pc)
      /\ pc \in [Consumers -> {"idle", "entering", "waiting", "expired"}]
  BY DEF TypeOK, WaitersOK
<1>1. CASE PipeIn
  <2>1. WaitersOK(waiters', pc')
    BY <1>0, <1>1, NotifyOK DEF PipeIn
  <2>2. /\ written + 1 \in 1 .. MaxItems
        /\ queue' \in Seq(1 .. MaxItems)
    BY <1>1, AppendProperties DEF PipeIn, TypeOK
  <2>. QED
    BY <1>1, <2>1, <2>2 DEF PipeIn, TypeOK, WaitersOK
<1>2. CASE Close
  <2>1. WaitersOK(waiters', pc')
    BY <1>2 DEF Close, NotifyAll, WaitersOK, IsInjective, ToSet
  <2>. QED
    BY <1>2, <2>1 DEF Close, TypeOK, WaitersOK
<1>3. ASSUME NEW c \in Consumers, Call(c) PROVE TypeOK'
  <2>1. c \notin ToSet(waiters)
    BY <1>0, <1>3 DEF Call, WaitersOK
  <2>2. WaitersOK(waiters', pc')
    BY <1>0, <1>3, <2>1, MovesOutside DEF Call
  <2>. QED
    BY <1>3, <2>2 DEF Call, TypeOK, WaitersOK, Nothing
<1>4. ASSUME NEW c \in Consumers, HoldsLoop(c) PROVE c \notin ToSet(waiters)
  BY <1>0, <1>4 DEF HoldsLoop, WaitersOK, Contains, ToSet
<1>5. ASSUME NEW c \in Consumers, TakeItem(c) PROVE TypeOK'
  <2>1. WaitersOK(waiters', pc')
    BY <1>0, <1>4, <1>5, MovesOutside DEF TakeItem, Return
  <2>2. Head(queue) \in 1 .. MaxItems /\ queue' \in Seq(1 .. MaxItems)
    BY <1>5, HeadTailProperties DEF TakeItem, TypeOK
  <2>. QED
    BY <1>5, <2>1, <2>2 DEF TakeItem, Return, TypeOK, WaitersOK
<1>6. ASSUME NEW c \in Consumers, RaiseClosed(c) PROVE TypeOK'
  <2>1. WaitersOK(waiters', pc')
    BY <1>0, <1>4, <1>6, MovesOutside DEF RaiseClosed, Return
  <2>. QED
    BY <1>6, <2>1 DEF RaiseClosed, Return, TypeOK, WaitersOK, Closed
<1>7. ASSUME NEW c \in Consumers, Wait(c) PROVE TypeOK'
  <2>1. ~Contains(waiters, c)
    BY <1>4, <1>7 DEF Wait, Contains, ToSet, TypeOK
  <2>2. waiters' \in Seq(Consumers) /\ IsInjective(waiters')
        /\ ToSet(waiters') = ToSet(waiters) \cup {c}
    BY <1>0, <1>7, <2>1, AppendKeepsInjective DEF Wait, WaitersOK
  <2>3. WaitersOK(waiters', pc')
    <3>1. \A d \in ToSet(waiters) : d \in Consumers
      BY <1>0 DEF WaitersOK, ToSet
    <3>. QED
      BY <1>0, <1>7, <2>2, <3>1 DEF Wait, WaitersOK
  <2>. QED
    BY <1>7, <2>3 DEF Wait, TypeOK, WaitersOK
<1>8. ASSUME NEW c \in Consumers, RaiseTimeout(c) PROVE TypeOK'
  <2>1. waiters' \in Seq(Consumers) /\ IsInjective(waiters')
        /\ ToSet(waiters') \subseteq ToSet(waiters) \ {c}
    <3>1. CASE \E i \in DOMAIN waiters : waiters[i] = c /\ waiters' = RemoveAt(waiters, i)
      BY <1>0, <3>1, RemoveAtProperties DEF WaitersOK
    <3>2. CASE ~Contains(waiters, c) /\ UNCHANGED waiters
      BY <1>0, <3>2 DEF WaitersOK, Contains, ToSet
    <3>. QED
      BY <1>8, <3>1, <3>2 DEF RaiseTimeout, Withdraw
  <2>2. WaitersOK(waiters', pc')
    <3>1. \A d \in ToSet(waiters) : d \in Consumers
      BY <1>0 DEF WaitersOK, ToSet
    <3>. QED
      BY <1>0, <1>8, <2>1, <3>1 DEF RaiseTimeout, Return, WaitersOK
  <2>. QED
    BY <1>8, <2>2 DEF RaiseTimeout, Return, TypeOK, WaitersOK, TimedOut
<1>9. ASSUME NEW c \in Consumers, Expire(c) PROVE TypeOK'
  <2>1. WaitersOK(waiters', pc')
    <3>1. \A d \in ToSet(waiters) : d \in Consumers
      BY <1>0 DEF WaitersOK, ToSet
    <3>. QED
      BY <1>0, <1>9, <3>1 DEF Expire, WaitersOK
  <2>. QED
    BY <1>9, <2>1 DEF Expire, TypeOK, WaitersOK
<1>10. CASE UNCHANGED vars
  BY <1>10 DEF vars, TypeOK
<1>. QED
  BY <1>1, <1>2, <1>3, <1>5, <1>6, <1>7, <1>8, <1>9, <1>10 DEF Next, Proceed

(* The state keeps its types, and the list of waiters holds each waiting or *)
(* expired thread at most once, for any consumers and any number of items.  *)
THEOREM PipeTypeCorrect == Spec => []TypeOK
BY InitTypeOK, TypeStep, PTL DEF Spec

-----------------------------------------------------------------------------
(* Refinement                                                              *)

LEMMA InitChannel == Init => C!Init
  BY DEF Init, C!Init, Inside, Nothing, C!Nothing

(* Only a consumer with a timeout can give up.                             *)
Patience == \A c \in Consumers : pc[c] = "expired" => timed

LEMMA PatienceStep == TypeOK /\ Patience /\ [Next]_vars => Patience'
<1> SUFFICES ASSUME TypeOK, Patience, [Next]_vars PROVE Patience'
  OBVIOUS
<1>0. pc \in [Consumers -> {"idle", "entering", "waiting", "expired"}]
  BY DEF TypeOK
<1>1. CASE PipeIn \/ Close \/ UNCHANGED vars
  BY <1>1 DEF PipeIn, Close, vars, Patience
<1>2. ASSUME NEW c \in Consumers, Call(c) \/ Wait(c) \/ Expire(c) PROVE Patience'
  BY <1>0, <1>2 DEF Call, Wait, Expire, Patience
<1>3. ASSUME NEW c \in Consumers, TakeItem(c) \/ RaiseClosed(c) \/ RaiseTimeout(c)
      PROVE  Patience'
  BY <1>0, <1>3 DEF TakeItem, RaiseClosed, RaiseTimeout, Return, Patience
<1>. QED
  BY <1>1, <1>2, <1>3 DEF Next, Proceed

LEMMA ChannelStep == TypeOK /\ Patience /\ [Next]_vars => [C!Next]_(C!vars)
<1> SUFFICES ASSUME TypeOK, Patience, [Next]_vars PROVE [C!Next]_(C!vars)
  OBVIOUS
<1> USE DEF C!vars
<1>0. pc \in [Consumers -> {"idle", "entering", "waiting", "expired"}]
  BY DEF TypeOK
<1>1. CASE PipeIn
  BY <1>1 DEF PipeIn, C!Next, C!Send, Inside
<1>2. CASE Close
  BY <1>2 DEF Close, C!Next, C!Shut, Inside
<1>3. ASSUME NEW c \in Consumers, Call(c) PROVE C!Ask(c)
  BY <1>0, <1>3 DEF Call, C!Ask, Inside, Nothing, C!Nothing
<1>4. ASSUME NEW c \in Consumers, NEW r, pc[c] # "idle", Return(c, r),
             UNCHANGED <<timed, written, closed>>
      PROVE  C!Answer(c, r)
  BY <1>0, <1>4 DEF Return, C!Answer, Inside
<1>5. ASSUME NEW c \in Consumers, TakeItem(c) PROVE C!Receive(c)
  BY <1>4, <1>5 DEF TakeItem, HoldsLoop, C!Receive
<1>6. ASSUME NEW c \in Consumers, RaiseClosed(c) PROVE C!FindClosed(c)
  BY <1>4, <1>6 DEF RaiseClosed, HoldsLoop, C!FindClosed, Closed, C!Closed
<1>7. ASSUME NEW c \in Consumers, Wait(c) PROVE UNCHANGED C!vars
  BY <1>0, <1>7 DEF Wait, HoldsLoop, Inside
<1>8. ASSUME NEW c \in Consumers, Expire(c) PROVE UNCHANGED C!vars
  BY <1>0, <1>8 DEF Expire, Inside
<1>9. CASE UNCHANGED vars
  BY <1>9 DEF vars, Inside
<1>10. ASSUME NEW c \in Consumers, RaiseTimeout(c) PROVE C!GiveUp(c)
  BY <1>4, <1>10 DEF RaiseTimeout, Patience, C!GiveUp, TimedOut, C!TimedOut
<1>. QED
  BY <1>1, <1>2, <1>3, <1>5, <1>6, <1>7, <1>8, <1>9, <1>10 DEF Next, Proceed, C!Next

(* A pipe with its lock, condition and deque is a closable FIFO channel:    *)
(* it loses, doubles and reorders nothing, for any consumers, any number of *)
(* items, and any order of writes, reads, timeouts and closes.             *)
THEOREM PipeImplementsChannel == Spec => ImplementsChannel
<1>1. Init => Patience
  BY DEF Init, Patience
<1>. QED
  BY <1>1, InitChannel, InitTypeOK, TypeStep, PatienceStep, ChannelStep, PTL
  DEF Spec, ImplementsChannel, C!Spec
=============================================================================
