---------------------------- MODULE Device_proofs ----------------------------
(***************************************************************************)
(* Proofs about Device, for any finite set of models of any size, about the *)
(* worker thread that drives it (DeviceJobs) and about the inside of the   *)
(* loads (ModelLoading).                                                   *)
(***************************************************************************)
EXTENDS DeviceJobs, ModelLoading, FiniteSetTheorems, SequenceTheorems, TLAPS

-----------------------------------------------------------------------------
(* Memory accounting.                                                      *)

(* A set of models owns finitely many units.                               *)
LEMMA UnitsFinite ==
  ASSUME NEW S \in SUBSET Model
  PROVE  IsFiniteSet(Units(S))
<1> DEFINE Own == [m \in S |-> {m} \X (1 .. GpuMem[m])]
<1> DEFINE Owned == { {m} \X (1 .. GpuMem[m]) : m \in S }
<1>1. IsFiniteSet(S)
  BY MemoryAssumption, FS_Subset
<1>2. ASSUME NEW m \in S
      PROVE  IsFiniteSet({m} \X (1 .. GpuMem[m]))
  <2>1. GpuMem[m] \in Nat
    BY <1>2, MemoryAssumption
  <2>2. IsFiniteSet(1 .. GpuMem[m])
    BY <2>1, FS_Interval
  <2>3. IsFiniteSet({m})
    BY FS_Singleton
  <2>. QED
    BY <2>2, <2>3, FS_Product
<1>3. Own \in Surjection(S, Owned)
  BY DEF Surjection
<1>4. IsFiniteSet(Owned)
  BY <1>1, <1>3, FS_Surjection
<1>. QED
  BY <1>2, <1>4, FS_UNION DEF Units

(* The memory in use is a number.                                          *)
LEMMA UsedIsNat ==
  ASSUME NEW S \in SUBSET Model
  PROVE  UsedGpuMem(S) \in Nat
BY UnitsFinite, FS_CardinalityType DEF UsedGpuMem

(* Fewer models use no more memory.                                        *)
LEMMA UsedMonotone ==
  ASSUME NEW T \in SUBSET Model, NEW S \in SUBSET T
  PROVE  UsedGpuMem(S) =< UsedGpuMem(T)
<1>1. Units(S) \in SUBSET Units(T)
  BY DEF Units
<1>. QED
  BY <1>1, UnitsFinite, FS_Subset DEF UsedGpuMem

(* One model uses what it declares.                                        *)
LEMMA UsedSingleton ==
  ASSUME NEW m \in Model
  PROVE  UsedGpuMem({m}) = GpuMem[m]
<1>1. Units({m}) = {m} \X (1 .. GpuMem[m])
  BY DEF Units
<1>2. GpuMem[m] \in Nat
  BY MemoryAssumption
<1>3. IsFiniteSet(1 .. GpuMem[m])
  BY <1>2, FS_Interval
<1>4. Cardinality(1 .. GpuMem[m]) = GpuMem[m]
  BY <1>2, FS_Interval
<1>5. IsFiniteSet({m}) /\ Cardinality({m}) = 1
  BY FS_Singleton
<1>6. Cardinality({m} \X (1 .. GpuMem[m])) = Cardinality({m}) * Cardinality(1 .. GpuMem[m])
  BY <1>3, <1>5, FS_Product
<1>7. UsedGpuMem({m}) = Cardinality({m} \X (1 .. GpuMem[m]))
  BY <1>1 DEF UsedGpuMem
<1>. QED
  BY <1>2, <1>4, <1>5, <1>6, <1>7

(* Adding an absent model adds what it declares.                           *)
LEMMA UsedAdd ==
  ASSUME NEW S \in SUBSET Model, NEW m \in Model, m \notin S
  PROVE  UsedGpuMem(S \cup {m}) = UsedGpuMem(S) + GpuMem[m]
<1>1. Units(S \cup {m}) = Units(S) \cup Units({m})
  BY DEF Units
<1>2. Units(S) \cap Units({m}) = {}
  BY DEF Units
<1>3. IsFiniteSet(Units(S)) /\ IsFiniteSet(Units({m}))
  BY UnitsFinite
<1>4. UsedGpuMem(S) \in Nat /\ UsedGpuMem({m}) \in Nat
  BY UsedIsNat
<1>5. Cardinality(Units(S) \cap Units({m})) = 0
  BY <1>2, FS_EmptySet
<1>6. Cardinality(Units(S) \cup Units({m}))
        = Cardinality(Units(S)) + Cardinality(Units({m})) - Cardinality(Units(S) \cap Units({m}))
  BY <1>3, FS_Union
<1>7. UsedGpuMem(S \cup {m}) = UsedGpuMem(S) + UsedGpuMem({m}) - 0
  BY <1>1, <1>5, <1>6 DEF UsedGpuMem
<1>8. UsedGpuMem({m}) = GpuMem[m]
  BY UsedSingleton
<1>. QED
  BY <1>4, <1>7, <1>8

-----------------------------------------------------------------------------
(* The ordered dictionary.                                                 *)

(* No key occurs twice.                                                    *)
Distinct(s) == \A i, j \in DOMAIN s : s[i] = s[j] => i = j

(* Removing one position shifts what follows it and keeps the rest.        *)
LEMMA RemoveAtShifts ==
  ASSUME NEW s \in Seq(Model), NEW p \in DOMAIN s
  PROVE  /\ RemoveAt(s, p) \in Seq(Model)
         /\ Len(RemoveAt(s, p)) = Len(s) - 1
         /\ \A j \in 1 .. Len(s) - 1 :
              RemoveAt(s, p)[j] = IF j < p THEN s[j] ELSE s[j + 1]
<1> DEFINE before == SubSeq(s, 1, p - 1)
           after == SubSeq(s, p + 1, Len(s))
<1>1. /\ Len(s) \in Nat
      /\ p \in 1 .. Len(s)
      /\ \A i \in 1 .. Len(s) : s[i] \in Model
  BY LenProperties, ElementOfSeq
<1>2. /\ before \in Seq(Model)
      /\ Len(before) = p - 1
      /\ \A i \in 1 .. p - 1 : before[i] = s[i]
  BY <1>1, SubSeqProperties
<1>3. /\ after \in Seq(Model)
      /\ Len(after) = Len(s) - p
      /\ \A i \in 1 .. Len(s) - p : after[i] = s[p + i]
  BY <1>1, SubSeqProperties
<1>4. RemoveAt(s, p) = before \o after
  BY DEF RemoveAt
<1> HIDE DEF before, after
<1>5. /\ before \o after \in Seq(Model)
      /\ Len(before \o after) = Len(before) + Len(after)
      /\ \A i \in 1 .. Len(before) + Len(after) :
           (before \o after)[i] = IF i <= Len(before) THEN before[i]
                                  ELSE after[i - Len(before)]
  BY <1>2, <1>3, ConcatProperties
<1>6. Len(before) + Len(after) = Len(s) - 1
  BY <1>1, <1>2, <1>3
<1>7. ASSUME NEW j \in 1 .. Len(s) - 1
      PROVE  (before \o after)[j] = IF j < p THEN s[j] ELSE s[j + 1]
  <2>1. CASE j < p
    BY <1>1, <1>2, <1>5, <1>6, <2>1
  <2>2. CASE ~(j < p)
    <3>1. (before \o after)[j] = after[j - (p - 1)]
      BY <1>1, <1>2, <1>5, <1>6, <2>2
    <3>2. j - (p - 1) \in 1 .. Len(s) - p
      BY <1>1, <2>2
    <3>3. p + (j - (p - 1)) = j + 1
      BY <1>1
    <3>4. after[j - (p - 1)] = s[p + (j - (p - 1))]
      BY <1>3, <3>2
    <3>5. (before \o after)[j] = s[j + 1]
      BY <3>1, <3>3, <3>4, Zenon
    <3>. QED
      BY <2>2, <3>5, Zenon
  <2>. QED
    BY <2>1, <2>2
<1>. QED
  BY <1>4, <1>5, <1>6, <1>7

(* Popping a key removes that key and keeps the order of the others.       *)
LEMMA ForgetFacts ==
  ASSUME NEW s \in Seq(Model), Distinct(s), NEW m \in Model
  PROVE  /\ Forget(s, m) \in Seq(Model)
         /\ Distinct(Forget(s, m))
         /\ Range(Forget(s, m)) = Range(s) \ {m}
         /\ \A a, b : Precedes(Forget(s, m), a, b)
                        <=> Precedes(s, a, b) /\ a # m /\ b # m
<1>1. CASE m \notin Range(s)
  BY <1>1 DEF Forget, Range, Precedes, Distinct
<1>2. CASE m \in Range(s)
  <2> DEFINE p == CHOOSE i \in DOMAIN s : s[i] = m
             r == RemoveAt(s, p)
             up(j) == IF j < p THEN j ELSE j + 1
             down(i) == IF i < p THEN i ELSE i - 1
  <2>1. p \in DOMAIN s /\ s[p] = m
    BY <1>2 DEF Range
  <2>2. Forget(s, m) = r
    BY <1>2 DEF Forget
  <2> HIDE DEF p
  <2>3. /\ r \in Seq(Model)
        /\ Len(r) = Len(s) - 1
        /\ \A j \in 1 .. Len(s) - 1 : r[j] = IF j < p THEN s[j] ELSE s[j + 1]
    BY <2>1, RemoveAtShifts
  <2> HIDE DEF r
  <2>4. /\ Len(s) \in Nat
        /\ DOMAIN s = 1 .. Len(s)
        /\ DOMAIN r = 1 .. Len(s) - 1
        /\ p \in 1 .. Len(s)
    BY <2>1, <2>3, LenProperties
  <2>5. \A j \in DOMAIN r : up(j) \in DOMAIN s /\ up(j) # p /\ r[j] = s[up(j)]
    BY <2>3, <2>4
  <2>6. \A i \in DOMAIN s : i # p => down(i) \in DOMAIN r /\ up(down(i)) = i
    BY <2>4
  <2>7. \A i, j \in DOMAIN r : /\ i < j => up(i) < up(j)
                               /\ up(i) = up(j) => i = j
    BY <2>4
  <2>8. \A i, j \in DOMAIN s : i # p /\ j # p /\ i < j => down(i) < down(j)
    BY <2>4
  <2>9. \A i \in DOMAIN s : s[i] = m <=> i = p
    BY <2>1 DEF Distinct
  <2>10. \A i \in DOMAIN s : i # p => r[down(i)] = s[i]
    BY <2>5, <2>6
  <2> HIDE DEF up, down
  <2>11. Distinct(r)
    BY <2>5, <2>7 DEF Distinct
  <2>12. Range(r) = Range(s) \ {m}
    BY <2>5, <2>6, <2>9, <2>10 DEF Range
  <2>13. ASSUME NEW a, NEW b
         PROVE  Precedes(r, a, b) <=> Precedes(s, a, b) /\ a # m /\ b # m
    <3>1. Precedes(r, a, b) => Precedes(s, a, b) /\ a # m /\ b # m
      BY <2>5, <2>7, <2>9 DEF Precedes
    <3>2. Precedes(s, a, b) /\ a # m /\ b # m => Precedes(r, a, b)
      BY <2>6, <2>8, <2>9, <2>10 DEF Precedes
    <3>. QED
      BY <3>1, <3>2
  <2>. QED
    BY <2>2, <2>3, <2>11, <2>12, <2>13
<1>. QED
  BY <1>1, <1>2

(* A key that is used moves to the end.                                    *)
LEMMA TouchFacts ==
  ASSUME NEW s \in Seq(Model), Distinct(s), NEW m \in Model
  PROVE  /\ Touch(s, m) \in Seq(Model)
         /\ Distinct(Touch(s, m))
         /\ Range(Touch(s, m)) = Range(s) \cup {m}
         /\ \A a, b : Precedes(Touch(s, m), a, b)
                        <=> \/ Precedes(s, a, b) /\ a # m /\ b # m
                            \/ a \in Range(s) \ {m} /\ b = m
<1> DEFINE f == Forget(s, m)
<1>1. /\ f \in Seq(Model)
      /\ Distinct(f)
      /\ Range(f) = Range(s) \ {m}
      /\ \A a, b : Precedes(f, a, b) <=> Precedes(s, a, b) /\ a # m /\ b # m
  BY ForgetFacts
<1>2. Touch(s, m) = Append(f, m)
  BY DEF Touch
<1> HIDE DEF f
<1> DEFINE t == Append(f, m)
<1>3. /\ t \in Seq(Model)
      /\ Len(t) = Len(f) + 1
      /\ \A i \in 1 .. Len(f) : t[i] = f[i]
      /\ t[Len(f) + 1] = m
  BY <1>1, AppendProperties
<1>4. /\ Len(f) \in Nat
      /\ DOMAIN f = 1 .. Len(f)
      /\ DOMAIN t = 1 .. Len(f) + 1
  BY <1>1, <1>3, LenProperties
<1> HIDE DEF t
<1>5. \A i \in DOMAIN f : f[i] # m
  BY <1>1 DEF Range
<1>6. \A i \in DOMAIN t : i \in DOMAIN f \/ i = Len(f) + 1
  BY <1>4
<1>7. \A i \in DOMAIN f : i \in DOMAIN t /\ i < Len(f) + 1 /\ t[i] = f[i]
  BY <1>3, <1>4
<1>8. Len(f) + 1 \in DOMAIN t /\ t[Len(f) + 1] = m
  BY <1>3, <1>4
<1>9. Distinct(t)
  BY <1>1, <1>5, <1>6, <1>7, <1>8 DEF Distinct
<1>10. Range(t) = Range(f) \cup {m}
  BY <1>6, <1>7, <1>8 DEF Range
<1>11. Range(f) \cup {m} = Range(s) \cup {m}
  BY <1>1
<1>12. ASSUME NEW a, NEW b
       PROVE  Precedes(t, a, b) <=> Precedes(f, a, b) \/ (a \in Range(f) /\ b = m)
  <2>1. Precedes(f, a, b) => Precedes(t, a, b)
    BY <1>7 DEF Precedes
  <2>2. a \in Range(f) /\ b = m => Precedes(t, a, b)
    BY <1>7, <1>8 DEF Precedes, Range
  <2>3. ASSUME NEW i \in DOMAIN t, NEW j \in DOMAIN t, i < j, t[i] = a, t[j] = b
        PROVE  Precedes(f, a, b) \/ (a \in Range(f) /\ b = m)
    <3>1. i \in DOMAIN f
      BY <1>4, <2>3
    <3>2. CASE j \in DOMAIN f
      BY <1>7, <2>3, <3>1, <3>2 DEF Precedes
    <3>3. CASE j = Len(f) + 1
      BY <1>7, <1>8, <2>3, <3>1, <3>3 DEF Range
    <3>. QED
      BY <1>6, <3>2, <3>3
  <2>. QED
    BY <2>1, <2>2, <2>3 DEF Precedes
<1>. QED
  BY <1>1, <1>2, <1>3, <1>9, <1>10, <1>11, <1>12 DEF t

(* What choose() returns is a candidate, never used or else used before     *)
(* every other candidate.                                                  *)
LEMMA VictimFacts ==
  ASSUME NEW s \in Seq(Model), Distinct(s), NEW candidates \in SUBSET Model,
         NEW v \in Victims(s, candidates)
  PROVE  /\ v \in candidates
         /\ \/ v \notin Range(s)
            \/ /\ candidates \subseteq Range(s)
               /\ \A u \in candidates : ~ Precedes(s, u, v)
<1>1. CASE candidates \ Range(s) # {}
  BY <1>1 DEF Victims
<1>2. CASE candidates \ Range(s) = {}
  <2>1. PICK i \in DOMAIN s : /\ v = s[i]
                              /\ s[i] \in candidates
                              /\ \A k \in 1 .. i - 1 : s[k] \notin candidates
    BY <1>2 DEF Victims
  <2>2. DOMAIN s = 1 .. Len(s) /\ Len(s) \in Nat
    BY LenProperties
  <2>3. ASSUME NEW u \in candidates, Precedes(s, u, v)
        PROVE  FALSE
    <3>1. PICK k \in DOMAIN s, j \in DOMAIN s : k < j /\ s[k] = u /\ s[j] = v
      BY <2>3 DEF Precedes
    <3>2. j = i
      BY <2>1, <3>1 DEF Distinct
    <3>3. k \in 1 .. i - 1
      BY <2>2, <3>1, <3>2
    <3>. QED
      BY <2>1, <2>3, <3>1, <3>3
  <2>. QED
    BY <1>2, <2>1, <2>3
<1>. QED
  BY <1>1, <1>2

-----------------------------------------------------------------------------
(* The inductive invariant.                                                *)

(* A load under way works on an absent model, and no exception is pending. *)
CallInv == Loading => call \in Model \ Loaded /\ error = "none"

IInv ==
  /\ TypeOK
  /\ MemoryBound
  /\ WeightsAccounted
  /\ OrderTracksLoaded
  /\ CallInv

LEMMA InitIInv == Init => IInv
<1> SUFFICES ASSUME Init PROVE IInv
  OBVIOUS
<1> USE DEF Init
<1>1. TypeOK
  BY EmptySeq DEF TypeOK, Errors
<1>2. MemoryBound
  <2>1. Units({}) = {}
    BY DEF Units
  <2>2. UsedGpuMem({}) = 0
    BY <2>1, FS_EmptySet DEF UsedGpuMem
  <2>. QED
    BY <2>2, MemoryAssumption DEF MemoryBound
<1>3. WeightsAccounted
  BY DEF WeightsAccounted, Loaded
<1>4. OrderTracksLoaded
  BY EmptySeq DEF OrderTracksLoaded, Range
<1>5. CallInv
  BY DEF CallInv, Loading
<1>. QED
  BY <1>1, <1>2, <1>3, <1>4, <1>5 DEF IInv

(* Once the loop of Device.free has ended, the new model fits.             *)
LEMMA RoomForCall ==
  ASSUME IInv, Loading, ~Short
  PROVE  UsedGpuMem(Loaded \cup {call}) =< GpuMemLimit
<1>1. Loaded \in SUBSET Model /\ call \in Model /\ call \notin Loaded
  BY DEF IInv, TypeOK, CallInv, Loaded
<1>2. UsedGpuMem(Loaded) \in Nat
  BY <1>1, UsedIsNat
<1>3. GpuMem[call] \in Nat /\ GpuMemLimit \in Nat
  BY <1>1, MemoryAssumption
<1>4. UsedGpuMem(Loaded \cup {call}) = UsedGpuMem(Loaded) + GpuMem[call]
  BY <1>1, UsedAdd
<1>. QED
  BY <1>2, <1>3, <1>4 DEF Short, FreeGpuMem

LEMMA NextIInv == IInv /\ [Next]_vars => IInv'
<1> SUFFICES ASSUME IInv, [Next]_vars
             PROVE  IInv'
  OBVIOUS
<1> USE DEF IInv
<1>0. Distinct(order)
  BY DEF OrderTracksLoaded, Distinct
<1>1. ASSUME NEW m \in Model, Activate(m)
      PROVE  IInv'
  <2> USE <1>1 DEF Activate, Ready
  <2>1. Loaded' = Loaded
    BY DEF Loaded
  <2>2. TypeOK'
    BY DEF TypeOK
  <2>3. MemoryBound' /\ WeightsAccounted' /\ OrderTracksLoaded' /\ CallInv'
    BY <2>1 DEF MemoryBound, WeightsAccounted, OrderTracksLoaded, CallInv, Loading
  <2>. QED
    BY <2>2, <2>3
<1>2. ASSUME NEW m \in Model, BeginLoad(m)
      PROVE  IInv'
  <2> USE <1>2 DEF BeginLoad, Ready
  <2>1. TypeOK'
    BY DEF TypeOK
  <2>2. MemoryBound' /\ WeightsAccounted' /\ OrderTracksLoaded' /\ CallInv'
    BY DEF MemoryBound, WeightsAccounted, OrderTracksLoaded, CallInv, Loading, Loaded
  <2>. QED
    BY <2>1, <2>2
<1>3. ASSUME NEW m \in Model, Cache(m)
      PROVE  IInv'
  <2> USE <1>3 DEF Cache
  <2>1. Loaded' = Loaded
    BY DEF Loaded
  <2>2. TypeOK'
    BY DEF TypeOK
  <2>3. MemoryBound' /\ WeightsAccounted' /\ OrderTracksLoaded' /\ CallInv'
    BY <2>1 DEF MemoryBound, WeightsAccounted, OrderTracksLoaded, CallInv, Loading
  <2>. QED
    BY <2>2, <2>3
<1>4. ASSUME NEW m \in Model, Infer(m)
      PROVE  IInv'
  <2> USE <1>4 DEF Infer, Ready
  <2>1. order \in Seq(Model)
    BY DEF TypeOK
  <2>2. order' \in Seq(Model) /\ Distinct(order') /\ Range(order') = Range(order) \cup {m}
    BY <1>0, <2>1, TouchFacts
  <2>3. m \in Loaded /\ Loaded' = Loaded
    BY DEF Loaded
  <2>4. TypeOK'
    BY <2>2 DEF TypeOK
  <2>5. OrderTracksLoaded'
    BY <2>2, <2>3 DEF OrderTracksLoaded, Distinct
  <2>6. MemoryBound' /\ WeightsAccounted' /\ CallInv'
    BY <2>3 DEF MemoryBound, WeightsAccounted, CallInv, Loading
  <2>. QED
    BY <2>4, <2>5, <2>6
<1>5. ASSUME CacheAll
      PROVE  IInv'
  <2> USE <1>5 DEF CacheAll, Ready
  <2>1. Loaded' = Loaded
    BY DEF Loaded
  <2>2. TypeOK'
    BY DEF TypeOK, Loaded
  <2>3. MemoryBound' /\ WeightsAccounted' /\ OrderTracksLoaded' /\ CallInv'
    BY <2>1 DEF MemoryBound, WeightsAccounted, OrderTracksLoaded, CallInv, Loading
  <2>. QED
    BY <2>2, <2>3
<1>6. ASSUME Evict
      PROVE  IInv'
  <2> USE <1>6 DEF Evict
  <2>1. PICK v \in Victims(order, cached) :
          /\ cached' = cached \ {v}
          /\ weights' = weights \ {v}
          /\ order' = Forget(order, v)
    OBVIOUS
  <2>2. order \in Seq(Model) /\ cached \in SUBSET Model
    BY DEF TypeOK
  <2>3. v \in cached
    BY <1>0, <2>2, VictimFacts
  <2>4. order' \in Seq(Model) /\ Distinct(order') /\ Range(order') = Range(order) \ {v}
    BY <1>0, <2>1, <2>2, <2>3, ForgetFacts
  <2>5. Loaded' = Loaded \ {v}
    BY <2>1, <2>3 DEF Loaded, TypeOK
  <2>6. TypeOK'
    BY <2>1, <2>4 DEF TypeOK
  <2>7. MemoryBound'
    <3>1. weights \in SUBSET Model /\ weights' \in SUBSET weights
      BY <2>1 DEF TypeOK
    <3>2. UsedGpuMem(weights') =< UsedGpuMem(weights)
      BY <3>1, UsedMonotone
    <3>3. UsedGpuMem(weights) \in Nat /\ UsedGpuMem(weights') \in Nat
      BY <3>1, UsedIsNat
    <3>. QED
      BY <3>2, <3>3, MemoryAssumption DEF MemoryBound
  <2>8. WeightsAccounted'
    BY <2>1, <2>5 DEF WeightsAccounted
  <2>9. OrderTracksLoaded'
    BY <2>4, <2>5 DEF OrderTracksLoaded, Distinct
  <2>10. CallInv'
    BY <2>5 DEF CallInv, Loading
  <2>. QED
    BY <2>6, <2>7, <2>8, <2>9, <2>10
<1>7. ASSUME OutOfMemory
      PROVE  IInv'
  <2> USE <1>7 DEF OutOfMemory
  <2>1. TypeOK'
    BY DEF TypeOK, Errors
  <2>2. MemoryBound' /\ WeightsAccounted' /\ OrderTracksLoaded' /\ CallInv'
    BY DEF MemoryBound, WeightsAccounted, OrderTracksLoaded, CallInv, Loading, Loaded
  <2>. QED
    BY <2>1, <2>2
<1>8. ASSUME FinishLoad
      PROVE  IInv'
  <2> USE <1>8 DEF FinishLoad
  <2>1. call \in Model \ Loaded /\ error = "none" /\ weights = Loaded
    BY DEF CallInv, WeightsAccounted
  <2>2. Loaded' = Loaded \cup {call} /\ weights' = Loaded \cup {call}
    BY <2>1 DEF Loaded
  <2>3. TypeOK'
    BY <2>1 DEF TypeOK, Loaded
  <2>4. MemoryBound'
    BY <2>2, RoomForCall DEF MemoryBound
  <2>5. WeightsAccounted' /\ OrderTracksLoaded' /\ CallInv'
    BY <2>2 DEF WeightsAccounted, OrderTracksLoaded, CallInv, Loading
  <2>. QED
    BY <2>3, <2>4, <2>5
<1>9. ASSUME FailLoad
      PROVE  IInv'
  <2> USE <1>9 DEF FailLoad
  <2>1. call \in Model \ Loaded /\ error = "none" /\ weights = Loaded
    BY DEF CallInv, WeightsAccounted
  <2>2. Loaded' = Loaded
    BY DEF Loaded
  <2>3. weights' = Loaded \/ weights' = Loaded \cup {call}
    BY <2>1
  <2>4. TypeOK'
    BY <2>1, <2>3 DEF TypeOK, Errors, Loaded
  <2>5. MemoryBound'
    <3>1. CASE weights' = Loaded
      BY <2>1, <3>1 DEF MemoryBound
    <3>2. CASE weights' = Loaded \cup {call}
      BY <3>2, RoomForCall DEF MemoryBound
    <3>. QED
      BY <2>3, <3>1, <3>2
  <2>6. WeightsAccounted' /\ OrderTracksLoaded' /\ CallInv'
    BY <2>2, <2>3 DEF WeightsAccounted, OrderTracksLoaded, CallInv, Loading
  <2>. QED
    BY <2>4, <2>5, <2>6
<1>10. CASE UNCHANGED vars
  BY <1>10 DEF vars, TypeOK, MemoryBound, WeightsAccounted, OrderTracksLoaded,
              CallInv, Loading, Loaded
<1>. QED
  BY <1>1, <1>2, <1>3, <1>4, <1>5, <1>6, <1>7, <1>8, <1>9, <1>10
     DEF Next, LoadStep

LEMMA Invariance == Spec => []IInv
BY InitIInv, NextIInv, PTL DEF Spec

-----------------------------------------------------------------------------
(* Theorems.                                                               *)

(* The variables keep their types and no model is both active and cached:  *)
(* the bookkeeping of Device.load, cache, cache_all and unload.             *)
THEOREM TypeCorrect == Spec => []TypeOK
BY Invariance, PTL DEF IInv

(* Device.load never lets the models on the GPU outgrow the limit, whatever *)
(* the sizes, the calls and the failures of model.load.                    *)
THEOREM MemoryIsBounded == Spec => []MemoryBound
BY Invariance, PTL DEF IInv

(* The device counts every model that holds weights until a load fails.    *)
THEOREM WeightsAreAccounted == Spec => []WeightsAccounted
BY Invariance, PTL DEF IInv

(* The keys of the eviction order are models on the device, each once.     *)
THEOREM OrderIsTracked == Spec => []OrderTracksLoaded
BY Invariance, PTL DEF IInv

(* No step takes the weights of a model in use away: Device.free evicts    *)
(* cached models only, and active and cached never overlap.                *)
THEOREM ActiveModelsKeepWeights == Spec => ActiveKeepsWeights
<1>1. IInv /\ [Next]_vars => [active \subseteq weights']_vars
  <2> SUFFICES ASSUME IInv, Next
               PROVE  active \subseteq weights'
    BY DEF vars
  <2>1. active \subseteq weights
    BY DEF IInv, WeightsAccounted, Loaded
  <2>2. CASE Evict
    <3>1. Distinct(order) /\ order \in Seq(Model) /\ cached \in SUBSET Model
      BY DEF IInv, OrderTracksLoaded, Distinct, TypeOK
    <3>2. PICK v \in Victims(order, cached) : weights' = weights \ {v}
      BY <2>2 DEF Evict
    <3>3. v \in cached
      BY <3>1, VictimFacts
    <3>. QED
      BY <2>1, <3>2, <3>3 DEF IInv, TypeOK
  <2>3. CASE ~Evict
    BY <2>1, <2>3 DEF Next, LoadStep, Activate, BeginLoad, Cache, Infer, CacheAll,
                      OutOfMemory, FinishLoad, FailLoad
  <2>. QED
    BY <2>2, <2>3
<1>. QED
  BY <1>1, Invariance, PTL DEF Spec, ActiveKeepsWeights

(* When InsufficientDeviceMemoryError is raised, everything that could be   *)
(* evicted has been and the model does not fit beside the active ones.     *)
THEOREM InsufficientIsJustified == Spec => InsufficientIsTrue
<1> DEFINE Raised == error' = "insufficient" /\ error = "none"
           TooMuch == UsedGpuMem(active \cup {call}) > GpuMemLimit
<1>1. IInv /\ [Next]_vars => [Raised => TooMuch]_vars
  <2> SUFFICES ASSUME IInv, Next, Raised
               PROVE  TooMuch
    BY DEF vars
  <2>1. OutOfMemory
    BY DEF Next, LoadStep, Activate, BeginLoad, Cache, Infer, CacheAll, Evict,
           FinishLoad, FailLoad
  <2>2. Loaded = active /\ active \in SUBSET Model /\ call \in Model \ active
    BY <2>1 DEF OutOfMemory, Loaded, IInv, TypeOK, CallInv
  <2>3. GpuMemLimit - UsedGpuMem(active) < GpuMem[call]
    BY <2>1, <2>2 DEF OutOfMemory, Short, FreeGpuMem
  <2>4. UsedGpuMem(active) \in Nat /\ GpuMem[call] \in Nat /\ GpuMemLimit \in Nat
    BY <2>2, UsedIsNat, MemoryAssumption
  <2>5. UsedGpuMem(active \cup {call}) = UsedGpuMem(active) + GpuMem[call]
    BY <2>2, UsedAdd
  <2>. QED
    BY <2>3, <2>4, <2>5
<1>. QED
  BY <1>1, Invariance, PTL DEF Spec, InsufficientIsTrue

-----------------------------------------------------------------------------
(* Device implements LruCache.                                             *)

(* Popping a key from the dictionary removes its pairs from the relation.  *)
LEMMA ForgetRecency ==
  ASSUME NEW s \in Seq(Model), Distinct(s), NEW m \in Model
  PROVE  Recency(Forget(s, m)) = { p \in Recency(s) : p[1] # m /\ p[2] # m }
BY ForgetFacts DEF Recency

(* Touching a key makes it the latest of the relation.                     *)
LEMMA TouchRecency ==
  ASSUME NEW s \in Seq(Model), Distinct(s), NEW m \in Model
  PROVE  Recency(Touch(s, m))
           = { p \in Recency(s) : p[1] # m /\ p[2] # m }
             \cup { <<a, m>> : a \in Range(s) \ {m} }
<1>1. Range(s) \subseteq Model
  BY RangeOfSeq
<1>2. \A a, b : Precedes(Touch(s, m), a, b)
                  <=> \/ Precedes(s, a, b) /\ a # m /\ b # m
                      \/ a \in Range(s) \ {m} /\ b = m
  BY TouchFacts
<1>. QED
  BY <1>1, <1>2 DEF Recency

LEMMA InitLru == Init => Lru!Init
BY EmptySeq DEF Init, Lru!Init, Recency, Precedes, Range

LEMMA NextLru == IInv /\ IInv' /\ [Next]_vars => [Lru!Next]_(Lru!vars)
<1> SUFFICES ASSUME IInv, IInv', [Next]_vars
             PROVE  [Lru!Next]_(Lru!vars)
  OBVIOUS
<1>0. order \in Seq(Model) /\ Distinct(order) /\ cached \in SUBSET Model
  BY DEF IInv, OrderTracksLoaded, Distinct, TypeOK
<1>1. ASSUME NEW m \in Model, Activate(m)
      PROVE  Lru!Activate(m)
  BY <1>1 DEF Activate, Lru!Activate
<1>2. ASSUME NEW m \in Model, Cache(m)
      PROVE  Lru!Release({m})
  BY <1>2 DEF Cache, Lru!Release
<1>3. ASSUME CacheAll
      PROVE  Lru!Release(active) /\ active \in SUBSET Model
  BY <1>3 DEF CacheAll, Lru!Release, Loaded, IInv, TypeOK
<1>4. ASSUME NEW m \in Model, Infer(m)
      PROVE  Lru!Use(m)
  <2>1. order' = Touch(order, m) /\ m \in active /\ UNCHANGED <<active, cached>>
    BY <1>4 DEF Infer
  <2>2. Range(order') = Range(order) \cup {m}
    BY <1>0, <2>1, TouchFacts
  <2>3. Recency(order')
          = { p \in Recency(order) : p[1] # m /\ p[2] # m }
            \cup { <<a, m>> : a \in Range(order) \ {m} }
    BY <1>0, <2>1, TouchRecency
  <2>. QED
    BY <2>1, <2>2, <2>3 DEF Lru!Use, Lru!Apart
<1>5. ASSUME Evict
      PROVE  \E v \in Model : Lru!Drop(v)
  <2>1. PICK v \in Victims(order, cached) :
          cached' = cached \ {v} /\ order' = Forget(order, v)
    BY <1>5 DEF Evict
  <2>2. v \in cached
    BY <1>0, VictimFacts
  <2>3. \/ v \notin Range(order)
        \/ /\ cached \subseteq Range(order)
           /\ \A u \in cached : ~ Precedes(order, u, v)
    BY <1>0, VictimFacts
  <2>4. Lru!LeastRecent(v)
    BY <2>3 DEF Lru!LeastRecent, Recency
  <2>5. Range(order') = Range(order) \ {v}
    BY <1>0, <2>1, <2>2, ForgetFacts
  <2>6. Recency(order') = { p \in Recency(order) : p[1] # v /\ p[2] # v }
    BY <1>0, <2>1, <2>2, ForgetRecency
  <2>7. UNCHANGED active
    BY <1>5 DEF Evict
  <2>8. Lru!Drop(v)
    BY <2>1, <2>2, <2>4, <2>5, <2>6, <2>7 DEF Lru!Drop, Lru!Apart
  <2>. QED
    BY <1>0, <2>2, <2>8
<1>6. ASSUME FinishLoad
      PROVE  Lru!BringIn(call) /\ call \in Model
  <2>1. call \in Model \ Loaded
    BY <1>6 DEF FinishLoad, IInv, CallInv
  <2>2. UsedGpuMem(Loaded \cup {call}) =< GpuMemLimit
    BY <1>6, RoomForCall DEF FinishLoad
  <2>3. active' = active \cup {call} /\ UNCHANGED <<cached, order>>
    BY <1>6 DEF FinishLoad
  <2>4. Lru!UsedGpuMem(active \cup cached \cup {call}) = UsedGpuMem(Loaded \cup {call})
    BY DEF Lru!UsedGpuMem, UsedGpuMem, Lru!Units, Units, Loaded,
           Lru!Cardinality, Cardinality
  <2>. QED
    BY <2>1, <2>2, <2>3, <2>4 DEF Lru!BringIn, Loaded
<1>7. ASSUME \/ \E m \in Model : BeginLoad(m)
             \/ OutOfMemory
             \/ FailLoad
             \/ UNCHANGED vars
      PROVE  UNCHANGED Lru!vars
  BY <1>7 DEF BeginLoad, OutOfMemory, FailLoad, vars, Lru!vars
<1>. QED
  BY <1>1, <1>2, <1>3, <1>4, <1>5, <1>6, <1>7 DEF Next, LoadStep, Lru!Next

(* Sets and ordered dictionary together are a least-recently-used cache     *)
(* with a memory limit: every step of Device is a step of LruCache or none.*)
THEOREM DeviceImplementsLru == Spec => ImplementsLru
BY Invariance, InitLru, NextLru, PTL DEF Spec, Lru!Spec, ImplementsLru

-----------------------------------------------------------------------------
(***************************************************************************)
(* The worker thread: what is proved of Device for every client holds of   *)
(* it, whatever the scripts of its jobs.                                   *)
(***************************************************************************)

(* A load under way is the one the current operation asked for.            *)
LoadingInv ==
  Loading => /\ At("enter") \/ At("load")
             /\ call = Current

JobsIInv == IInv /\ JobsTypeOK /\ LoadingInv

(* The operation the worker is at is one of a script.                      *)
LEMMA CurrentOperation ==
  ASSUME JobsTypeOK, Running
  PROVE  /\ pc \in Nat
         /\ pc + 1 \in 1 .. Len(script) + 1
         /\ script[pc] \in Operations
         /\ script[pc].op # "check" => Current \in Model
<1>1. Len(script) \in Nat /\ pc \in 1 .. Len(script)
  BY LenProperties DEF JobsTypeOK, Running
<1>2. script[pc] \in Operations
  BY <1>1, ElementOfSeq DEF JobsTypeOK
<1>. QED
  BY <1>1, <1>2 DEF Operations, Check, Current

(* Every step of the worker thread is one call of the device or none.      *)
LEMMA JobsStepIsClientStep ==
  ASSUME JobsIInv, JobsNext
  PROVE  [Next]_vars
<1>1. active \subseteq Model /\ cached \subseteq Model
  BY DEF JobsIInv, IInv, TypeOK
<1>2. CASE LoadPresent
  BY <1>1, <1>2 DEF LoadPresent, Activate, Next
<1>3. CASE LoadAbsent
  <2>1. Current \in Model
    BY <1>3, CurrentOperation DEF LoadAbsent, At, JobsIInv
  <2>. QED
    BY <1>3, <2>1 DEF LoadAbsent, Next
<1>4. CASE MakeRoom \/ LoadReturns \/ LoadRaises
  BY <1>4 DEF MakeRoom, LoadReturns, LoadRaises, Next, LoadStep
<1>5. CASE InferStep
  BY <1>1, <1>5 DEF InferStep, Infer, Next
<1>6. CASE ExitStep \/ Unwind
  BY <1>1, <1>6 DEF ExitStep, Unwind, CloseInnermost, Cache, Next
<1>7. CASE JobReturns
  BY <1>7 DEF JobReturns, Next
<1>8. CASE CheckStep \/ JobRaises \/ WorkerDies \/ \E s \in Scripts : StartJob(s)
  BY <1>8 DEF CheckStep, JobRaises, WorkerDies, StartJob
<1>. QED
  BY <1>2, <1>3, <1>4, <1>5, <1>6, <1>7, <1>8 DEF JobsNext, WorkerStep

LEMMA JobsInitIInv == JobsInit => JobsIInv
<1> SUFFICES ASSUME JobsInit PROVE JobsIInv
  OBVIOUS
<1>1. IInv
  BY InitIInv DEF JobsInit
<1>2. JobsTypeOK
  <2>1. Len(<<>>) = 0
    OBVIOUS
  <2>. QED
    BY <2>1, EmptySeq DEF JobsInit, JobsTypeOK, Modes
<1>3. LoadingInv
  BY DEF JobsInit, Init, LoadingInv, Loading
<1>. QED
  BY <1>1, <1>2, <1>3 DEF JobsIInv

(* Opening and closing blocks keeps a sequence of models.                  *)
LEMMA EnteredType ==
  ASSUME JobsIInv
  PROVE  /\ Running /\ (At("enter") \/ At("load")) /\ Opened => entered' \in Seq(Model)
         /\ CloseInnermost => entered' \in Seq(Model)
<1>1. entered \in Seq(Model)
  BY DEF JobsIInv, JobsTypeOK
<1>2. ASSUME Running, At("enter") \/ At("load"), Opened
      PROVE  entered' \in Seq(Model)
  <2>1. Current \in Model
    BY <1>2, CurrentOperation DEF At, JobsIInv
  <2>. QED
    BY <1>1, <1>2, <2>1, AppendProperties DEF Opened
<1>3. ASSUME CloseInnermost
      PROVE  entered' \in Seq(Model)
  <2>1. entered' = SubSeq(entered, 1, Len(entered) - 1)
    BY <1>3 DEF CloseInnermost, Front
  <2>2. \A i \in 1 .. Len(entered) - 1 : entered[i] \in Model
    BY <1>1, LenProperties, ElementOfSeq
  <2>. QED
    BY <1>1, <2>1, <2>2, SubSeqProperties, LenProperties
<1>. QED
  BY <1>2, <1>3

LEMMA JobsNextIInv == JobsIInv /\ [JobsNext]_allVars => JobsIInv'
<1> SUFFICES ASSUME JobsIInv, [JobsNext]_allVars
             PROVE  JobsIInv'
  OBVIOUS
<1>1. CASE UNCHANGED allVars
  BY <1>1 DEF allVars, jobVars, vars, JobsIInv, IInv, TypeOK, MemoryBound,
              WeightsAccounted, OrderTracksLoaded, CallInv, JobsTypeOK, LoadingInv,
              Loading, Loaded, At, Running, Current
<1>2. CASE JobsNext
  <2>1. IInv'
    BY <1>2, JobsStepIsClientStep, NextIInv DEF JobsIInv
  <2> USE DEF JobsIInv
  <2>2. ASSUME LoadPresent \/ LoadReturns
        PROVE  JobsTypeOK' /\ LoadingInv'
    <3>1. Running /\ (At("enter") \/ At("load")) /\ Opened /\ Advance
      BY <2>2 DEF LoadPresent, LoadReturns, LoadingInv, FinishLoad, At
    <3>2. entered' \in Seq(Model)
      BY <3>1, EnteredType
    <3>3. JobsTypeOK'
      BY <3>1, <3>2, CurrentOperation DEF Advance, JobsTypeOK
    <3>4. call' = NoModel
      BY <2>2 DEF LoadPresent, LoadReturns, FinishLoad, Activate, Ready, vars
    <3>. QED
      BY <3>3, <3>4 DEF LoadingInv, Loading
  <2>3. ASSUME LoadAbsent
        PROVE  JobsTypeOK' /\ LoadingInv'
    BY <2>3 DEF LoadAbsent, BeginLoad, jobVars, JobsTypeOK, LoadingInv, At, Running, Current
  <2>4. ASSUME MakeRoom
        PROVE  JobsTypeOK' /\ LoadingInv'
    BY <2>4 DEF MakeRoom, Evict, jobVars, JobsTypeOK, LoadingInv, Loading, At, Running, Current
  <2>5. ASSUME LoadRaises
        PROVE  JobsTypeOK' /\ LoadingInv'
    BY <2>5 DEF LoadRaises, OutOfMemory, FailLoad, JobsTypeOK, Modes, LoadingInv, Loading
  <2>6. ASSUME InferStep
        PROVE  JobsTypeOK' /\ LoadingInv'
    <3>1. Running /\ Advance /\ UNCHANGED entered /\ call' = NoModel
      BY <2>6 DEF InferStep, At, Infer, Ready
    <3>. QED
      BY <3>1, CurrentOperation DEF Advance, JobsTypeOK, LoadingInv, Loading
  <2>7. ASSUME ExitStep
        PROVE  JobsTypeOK' /\ LoadingInv'
    <3>1. Running /\ Advance /\ CloseInnermost
      BY <2>7 DEF ExitStep, At
    <3>2. entered' \in Seq(Model)
      BY <3>1, EnteredType
    <3>3. ~Loading /\ UNCHANGED call
      BY <2>7, <3>1 DEF ExitStep, LoadingInv, At, CloseInnermost, Cache, vars
    <3>. QED
      BY <3>1, <3>2, <3>3, CurrentOperation DEF Advance, JobsTypeOK, LoadingInv, Loading
  <2>8. ASSUME CheckStep
        PROVE  JobsTypeOK' /\ LoadingInv'
    <3>1. Running /\ UNCHANGED <<entered, script, call>> /\ ~Loading
      BY <2>8 DEF CheckStep, At, LoadingInv, Advance, vars
    <3>2. \/ Advance
          \/ mode' = "canceled" /\ UNCHANGED pc
      BY <2>8 DEF CheckStep
    <3>. QED
      BY <3>1, <3>2, CurrentOperation DEF Advance, JobsTypeOK, Modes, LoadingInv, Loading
  <2>9. ASSUME JobRaises
        PROVE  JobsTypeOK' /\ LoadingInv'
    BY <2>9 DEF JobRaises, vars, JobsTypeOK, Modes, LoadingInv, Loading
  <2>10. ASSUME Unwind
         PROVE  JobsTypeOK' /\ LoadingInv'
    <3>1. CloseInnermost /\ UNCHANGED <<mode, script, pc>> /\ ~Loading
      BY <2>10 DEF Unwind, LoadingInv, At, Running
    <3>2. entered' \in Seq(Model) /\ UNCHANGED call
      BY <3>1, EnteredType DEF CloseInnermost, Cache, vars
    <3>. QED
      BY <3>1, <3>2 DEF JobsTypeOK, LoadingInv, Loading
  <2>11. ASSUME JobReturns
         PROVE  JobsTypeOK' /\ LoadingInv'
    <3>1. Len(<<>>) = 0 /\ <<>> \in Seq(Operations)
      BY EmptySeq
    <3>. QED
      BY <2>11, <3>1 DEF JobReturns, CacheAll, Ready, JobsTypeOK, Modes, LoadingInv, Loading
  <2>12. ASSUME WorkerDies
         PROVE  JobsTypeOK' /\ LoadingInv'
    BY <2>12 DEF WorkerDies, vars, JobsTypeOK, Modes, LoadingInv, Loading, At, Running
  <2>13. ASSUME NEW s \in Scripts, StartJob(s)
         PROVE  JobsTypeOK' /\ LoadingInv'
    <3>1. s \in Seq(Operations) /\ Len(s) \in Nat
      BY ScriptsAssumption, LenProperties
    <3>2. ~Loading /\ UNCHANGED call
      BY <2>13 DEF StartJob, vars, LoadingInv, At, Running
    <3>. QED
      BY <2>13, <3>1, <3>2 DEF StartJob, JobsTypeOK, Modes, LoadingInv, Loading
  <2>. QED
    BY <1>2, <2>1, <2>2, <2>3, <2>4, <2>5, <2>6, <2>7, <2>8, <2>9, <2>10, <2>11,
       <2>12, <2>13 DEF JobsNext, WorkerStep
<1>. QED
  BY <1>1, <1>2

LEMMA JobsInvariance == JobsSpec => []JobsIInv
BY JobsInitIInv, JobsNextIInv, PTL DEF JobsSpec

-----------------------------------------------------------------------------
(* Every step of the worker thread is one of the device or leaves it alone. *)
LEMMA JobsAreClients == JobsSpec => Spec
<1>1. JobsInit => Init
  BY DEF JobsInit
<1>2. JobsIInv /\ [JobsNext]_allVars => [Next]_vars
  BY JobsStepIsClientStep DEF allVars, vars
<1>. QED
  BY <1>1, <1>2, JobsInvariance, PTL DEF JobsSpec, Spec

(* Hence the jobs never overcommit the GPU, whatever their scripts.        *)
THEOREM JobsMemoryIsBounded == JobsSpec => []MemoryBound
BY JobsAreClients, MemoryIsBounded, PTL

-----------------------------------------------------------------------------
(* The blocks of a job                                                     *)

OpenOnce(s) == \A i, j \in 1 .. Len(s) : s[i] = s[j] => i = j

(* The open blocks are those of distinct models, all of them active, and    *)
(* they are the ones the script has open where the job is.                 *)
BlocksInv ==
  /\ OpenOnce(entered)
  /\ ToSet(entered) \subseteq active
  /\ mode = "running" => script \in Scripts /\ entered = Blocks[script][pc]
  /\ mode = "idle" => entered = <<>>

(* What a script has open before and after the operation of a running job. *)
LEMMA NestedOperation ==
  ASSUME JobsIInv, BlocksInv, Running
  PROVE  LET open == Blocks[script] IN
         /\ script[pc].op = "enter" => /\ Current \notin ToSet(entered)
                                       /\ open[pc + 1] = Append(entered, Current)
         /\ script[pc].op = "exit" => open[pc + 1] = Front(entered)
         /\ script[pc].op \in {"load", "infer"} => /\ Current \in ToSet(entered)
                                                  /\ open[pc + 1] = entered
         /\ script[pc].op \notin {"enter", "exit"} => open[pc + 1] = entered
<1>1. script \in Scripts /\ entered = Blocks[script][pc]
  BY DEF BlocksInv, Running
<1>2. Len(script) \in Nat /\ pc \in 1 .. Len(script)
  BY LenProperties DEF JobsIInv, JobsTypeOK, Running
<1>. QED
  BY <1>1, <1>2, BlocksAssumption DEF Nested, Current

LEMMA OpenedBlocks ==
  ASSUME JobsIInv, BlocksInv, Running, At("enter") \/ At("load"), Opened, Advance,
         active' = active \cup {Current}
  PROVE  BlocksInv'
<1>1. entered \in Seq(Model) /\ Current \in Model /\ Len(entered) \in Nat
  BY CurrentOperation, LenProperties DEF JobsIInv, JobsTypeOK, At
<1>2. mode' = "running" /\ script' = script /\ script \in Scripts /\ pc' = pc + 1
  BY DEF Advance, Running, BlocksInv
<1>3. CASE script[pc].op = "enter"
  <2>1. PICK b : b = Append(entered, Current)
    OBVIOUS
  <2>2. /\ Len(b) = Len(entered) + 1 /\ DOMAIN b = 1 .. Len(entered) + 1
        /\ b[Len(entered) + 1] = Current
        /\ \A i \in 1 .. Len(entered) : b[i] = entered[i]
        /\ DOMAIN entered = 1 .. Len(entered)
    BY <1>1, <2>1, AppendProperties, LenProperties
  <2>3. Current \notin ToSet(entered) /\ entered' = b /\ entered' = Blocks[script][pc + 1]
    BY <1>3, <2>1, NestedOperation DEF Opened
  <2>4. \A i \in 1 .. Len(entered) : entered[i] \in ToSet(entered)
    BY <2>2 DEF ToSet
  <2>5. OpenOnce(b)
    <3> SUFFICES ASSUME NEW i \in 1 .. Len(entered) + 1, NEW j \in 1 .. Len(entered) + 1,
                        b[i] = b[j]
                 PROVE  i = j
      BY <2>2 DEF OpenOnce
    <3>1. \A k \in 1 .. Len(entered) : b[k] # Current
      BY <2>2, <2>3, <2>4
    <3>2. CASE i \in 1 .. Len(entered) /\ j \in 1 .. Len(entered)
      BY <2>2, <3>2 DEF BlocksInv, OpenOnce
    <3>3. CASE i = Len(entered) + 1 \/ j = Len(entered) + 1
      BY <1>1, <2>2, <3>1, <3>3
    <3>. QED
      BY <1>1, <3>2, <3>3
  <2>6. ToSet(b) \subseteq ToSet(entered) \cup {Current}
    BY <1>1, <2>2, <2>4 DEF ToSet
  <2>. QED
    BY <1>2, <2>3, <2>5, <2>6 DEF BlocksInv
<1>4. CASE script[pc].op # "enter"
  <2>1. entered' = entered /\ Blocks[script][pc + 1] = entered
    BY <1>4, NestedOperation DEF Opened, At
  <2>. QED
    BY <1>2, <2>1 DEF BlocksInv
<1>. QED
  BY <1>3, <1>4

LEMMA ClosedBlock ==
  ASSUME JobsIInv, BlocksInv, CloseInnermost
  PROVE  entered' = Front(entered) /\ OpenOnce(entered') /\ ToSet(entered') \subseteq active'
<1>1. /\ entered \in Seq(Model) /\ entered # <<>> /\ entered' = Front(entered)
      /\ active \ {Last(entered)} \subseteq active'
  BY DEF JobsIInv, JobsTypeOK, CloseInnermost, Cache, vars
<1>2. Len(entered) \in Nat \ {0} /\ DOMAIN entered = 1 .. Len(entered)
  BY <1>1, LenProperties, EmptySeq
<1>3. /\ Len(entered') = Len(entered) - 1 /\ DOMAIN entered' = 1 .. Len(entered) - 1
      /\ \A i \in 1 .. Len(entered) - 1 : entered'[i] = entered[i]
  BY <1>1, <1>2 DEF Front
<1>4. Last(entered) = entered[Len(entered)]
  BY DEF Last
<1>5. \A i \in 1 .. Len(entered) - 1 :
        entered[i] \in ToSet(entered) /\ entered[i] # Last(entered)
  BY <1>2, <1>4 DEF BlocksInv, OpenOnce, ToSet
<1>6. ToSet(entered') \subseteq active'
  BY <1>1, <1>3, <1>5 DEF BlocksInv, ToSet
<1>7. OpenOnce(entered')
  BY <1>2, <1>3 DEF BlocksInv, OpenOnce
<1>. QED
  BY <1>1, <1>6, <1>7

LEMMA BlocksStep == JobsIInv /\ BlocksInv /\ [JobsNext]_allVars => BlocksInv'
<1> SUFFICES ASSUME JobsIInv, BlocksInv, [JobsNext]_allVars PROVE BlocksInv'
  OBVIOUS
<1>0. ToSet(<<>>) = {} /\ OpenOnce(<<>>)
  BY EmptySeq DEF ToSet, OpenOnce
<1>a. ASSUME UNCHANGED <<entered, active>>, mode' \notin {"running", "idle"}
      PROVE  BlocksInv'
  BY <1>a DEF BlocksInv
<1>b. ASSUME UNCHANGED <<entered, active, mode, script, pc>>
      PROVE  BlocksInv'
  BY <1>b DEF BlocksInv
<1>1. CASE LoadPresent
  <2>1. active' = active \cup {Current}
    BY <1>1 DEF LoadPresent, Activate, vars
  <2>. QED
    BY <1>1, <2>1, OpenedBlocks DEF LoadPresent, At
<1>2. CASE LoadReturns
  <2>1. (At("enter") \/ At("load")) /\ active' = active \cup {Current}
    BY <1>2 DEF LoadReturns, FinishLoad, JobsIInv, LoadingInv
  <2>. QED
    BY <1>2, <2>1, OpenedBlocks DEF LoadReturns, At
<1>3. CASE LoadAbsent \/ MakeRoom \/ UNCHANGED allVars
  BY <1>3, <1>b DEF LoadAbsent, BeginLoad, MakeRoom, Evict, jobVars, allVars, vars
<1>4. CASE LoadRaises \/ JobRaises \/ WorkerDies
  BY <1>4, <1>a DEF LoadRaises, OutOfMemory, FailLoad, JobRaises, WorkerDies, vars
<1>5. CASE InferStep
  <2>1. Running /\ Advance /\ UNCHANGED <<entered, active>> /\ script[pc].op = "infer"
    BY <1>5 DEF InferStep, At, Infer
  <2>2. Blocks[script][pc + 1] = entered
    BY <2>1, NestedOperation
  <2>. QED
    BY <2>1, <2>2 DEF BlocksInv, Advance, Running
<1>6. CASE CheckStep
  <2>1. Running /\ UNCHANGED <<entered, active>> /\ script[pc].op = "check"
    BY <1>6 DEF CheckStep, At, vars
  <2>2. Blocks[script][pc + 1] = entered
    BY <2>1, NestedOperation
  <2>3. \/ Advance
        \/ mode' = "canceled"
    BY <1>6 DEF CheckStep
  <2>. QED
    BY <1>a, <2>1, <2>2, <2>3 DEF BlocksInv, Advance, Running
<1>7. CASE ExitStep
  <2>1. Running /\ Advance /\ CloseInnermost /\ script[pc].op = "exit"
    BY <1>7 DEF ExitStep, At
  <2>2. Blocks[script][pc + 1] = Front(entered)
    BY <2>1, NestedOperation
  <2>. QED
    BY <2>1, <2>2, ClosedBlock DEF BlocksInv, Advance, Running
<1>8. CASE Unwind
  <2>1. CloseInnermost /\ mode' = mode /\ mode \in {"canceled", "failed"}
    BY <1>8 DEF Unwind
  <2>. QED
    BY <2>1, ClosedBlock DEF BlocksInv
<1>9. CASE JobReturns
  <2>1. entered' = entered /\ mode' = "idle"
    BY <1>9 DEF JobReturns
  <2>2. entered = <<>>
    <3>1. CASE mode = "running" /\ pc > Len(script)
      <4>1. Len(script) \in Nat /\ pc = Len(script) + 1
        BY <3>1, LenProperties DEF JobsIInv, JobsTypeOK
      <4>. QED
        BY <3>1, <4>1, BlocksAssumption DEF BlocksInv, Nested
    <3>. QED
      BY <1>9, <3>1 DEF JobReturns
  <2>. QED
    BY <1>0, <2>1, <2>2 DEF BlocksInv
<1>10. ASSUME NEW s \in Scripts, StartJob(s) PROVE BlocksInv'
  <2>1. entered = <<>> /\ Blocks[s][1] = <<>>
    BY <1>10, BlocksAssumption DEF StartJob, BlocksInv, Nested
  <2>. QED
    BY <1>10, <2>1 DEF StartJob, vars, BlocksInv
<1>. QED
  BY <1>1, <1>2, <1>3, <1>4, <1>5, <1>6, <1>7, <1>8, <1>9, <1>10 DEF JobsNext, WorkerStep

(* Whatever is evicted, fails or is canceled, a job with nested blocks      *)
(* computes only with models that are active and hold their weights.       *)
THEOREM JobsComputeWhileActive == JobsSpec => []ComputesWhileActive
<1>1. JobsInit => BlocksInv
  BY EmptySeq DEF JobsInit, Init, BlocksInv, OpenOnce, ToSet
<1>2. JobsIInv /\ BlocksInv => ComputesWhileActive
  <2> SUFFICES ASSUME JobsIInv, BlocksInv, At("infer")
               PROVE  Current \in active /\ Current \in weights
    BY DEF ComputesWhileActive
  <2>1. Current \in ToSet(entered)
    BY NestedOperation DEF At
  <2>2. active \subseteq weights
    BY DEF JobsIInv, IInv, WeightsAccounted, Loaded
  <2>. QED
    BY <2>1, <2>2 DEF BlocksInv
<1>. QED
  BY <1>1, <1>2, JobsInvariance, BlocksStep, PTL DEF JobsSpec

-----------------------------------------------------------------------------
(* The models in use are those of the open blocks                          *)

ActiveInv == active \subseteq ToSet(entered)

(* A model is brought in when its block is entered, and then it and those   *)
(* of the blocks around it are what the script has open after it.          *)
LEMMA LoadOpens ==
  ASSUME JobsIInv, BlocksInv, ActiveInv, Loading
  PROVE  /\ script[pc].op = "enter"
         /\ active \cup {call} \subseteq ToSet(Blocks[script][pc + 1])
<1>1. Running /\ call = Current /\ script[pc].op \in {"enter", "load"}
  BY DEF JobsIInv, LoadingInv, At
<1>2. call \notin active
  BY DEF JobsIInv, IInv, CallInv, Loaded
<1>3. script[pc].op = "enter"
  BY <1>1, <1>2, NestedOperation DEF BlocksInv
<1>4. entered \in Seq(Model) /\ call \in Model
  BY <1>1, CurrentOperation DEF JobsIInv, JobsTypeOK, At
<1>5. Blocks[script][pc + 1] = Append(entered, call)
  BY <1>1, <1>3, NestedOperation
<1>6. ToSet(entered) \cup {call} \subseteq ToSet(Append(entered, call))
  <2>1. /\ DOMAIN Append(entered, call) = 1 .. Len(entered) + 1
        /\ DOMAIN entered = 1 .. Len(entered) /\ Len(entered) \in Nat
        /\ Append(entered, call)[Len(entered) + 1] = call
        /\ \A i \in 1 .. Len(entered) : Append(entered, call)[i] = entered[i]
    BY <1>4, AppendProperties, LenProperties
  <2>. QED
    BY <2>1 DEF ToSet
<1>. QED
  BY <1>3, <1>5, <1>6 DEF ActiveInv

LEMMA OpenedKeepsActive ==
  ASSUME JobsIInv, BlocksInv, ActiveInv, Running, At("enter") \/ At("load"), Opened,
         active' = active \cup {Current}
  PROVE  ActiveInv'
<1>1. entered \in Seq(Model) /\ Current \in Model
  BY CurrentOperation DEF JobsIInv, JobsTypeOK, At
<1>2. CASE script[pc].op = "enter"
  <2>1. /\ DOMAIN Append(entered, Current) = 1 .. Len(entered) + 1
        /\ DOMAIN entered = 1 .. Len(entered) /\ Len(entered) \in Nat
        /\ Append(entered, Current)[Len(entered) + 1] = Current
        /\ \A i \in 1 .. Len(entered) : Append(entered, Current)[i] = entered[i]
    BY <1>1, AppendProperties, LenProperties
  <2>2. ToSet(entered) \cup {Current} \subseteq ToSet(Append(entered, Current))
    BY <2>1 DEF ToSet
  <2>3. entered' = Append(entered, Current)
    BY <1>2 DEF Opened
  <2>. QED
    BY <2>2, <2>3 DEF ActiveInv
<1>3. CASE script[pc].op # "enter"
  <2>1. entered' = entered /\ Current \in ToSet(entered)
    BY <1>3, NestedOperation DEF Opened, At
  <2>. QED
    BY <2>1 DEF ActiveInv
<1>. QED
  BY <1>2, <1>3

LEMMA ClosedKeepsActive ==
  ASSUME JobsIInv, ActiveInv, CloseInnermost
  PROVE  ActiveInv'
<1>1. /\ entered \in Seq(Model) /\ entered # <<>> /\ entered' = Front(entered)
      /\ active' \subseteq active \ {Last(entered)}
  BY DEF JobsIInv, JobsTypeOK, CloseInnermost, Cache, vars
<1>2. Len(entered) \in Nat \ {0} /\ DOMAIN entered = 1 .. Len(entered)
  BY <1>1, LenProperties, EmptySeq
<1>3. /\ DOMAIN entered' = 1 .. Len(entered) - 1
      /\ \A i \in 1 .. Len(entered) - 1 : entered'[i] = entered[i]
  BY <1>1, <1>2 DEF Front
<1>4. Last(entered) = entered[Len(entered)]
  BY DEF Last
<1>5. ToSet(entered) \ {Last(entered)} \subseteq ToSet(entered')
  BY <1>2, <1>3, <1>4 DEF ToSet
<1>. QED
  BY <1>1, <1>5 DEF ActiveInv

LEMMA ActiveStep ==
  JobsIInv /\ BlocksInv /\ ActiveInv /\ [JobsNext]_allVars => ActiveInv'
<1> SUFFICES ASSUME JobsIInv, BlocksInv, ActiveInv, [JobsNext]_allVars PROVE ActiveInv'
  OBVIOUS
<1>a. ASSUME UNCHANGED <<entered, active>> PROVE ActiveInv'
  BY <1>a DEF ActiveInv
<1>1. CASE LoadPresent
  <2>1. active' = active \cup {Current}
    BY <1>1 DEF LoadPresent, Activate, vars
  <2>. QED
    BY <1>1, <2>1, OpenedKeepsActive DEF LoadPresent, At
<1>2. CASE LoadReturns
  <2>1. (At("enter") \/ At("load")) /\ active' = active \cup {Current}
    BY <1>2 DEF LoadReturns, FinishLoad, JobsIInv, LoadingInv
  <2>. QED
    BY <1>2, <2>1, OpenedKeepsActive DEF LoadReturns, At
<1>3. CASE LoadAbsent \/ MakeRoom \/ LoadRaises \/ UNCHANGED allVars
  BY <1>3, <1>a DEF LoadAbsent, BeginLoad, MakeRoom, Evict, LoadRaises, OutOfMemory,
                    FailLoad, jobVars, allVars, vars
<1>4. CASE InferStep \/ CheckStep \/ JobRaises \/ WorkerDies \/ \E s \in Scripts : StartJob(s)
  BY <1>4, <1>a DEF InferStep, Infer, CheckStep, JobRaises, WorkerDies, StartJob, vars
<1>5. CASE ExitStep \/ Unwind
  BY <1>5, ClosedKeepsActive DEF ExitStep, Unwind
<1>6. CASE JobReturns
  BY <1>6 DEF JobReturns, CacheAll, ActiveInv
<1>. QED
  BY <1>1, <1>2, <1>3, <1>4, <1>5, <1>6 DEF JobsNext, WorkerStep

(* With any scripts whose blocks nest, wherever a job is canceled, raises or *)
(* fails to load, the models in use are those whose blocks are open: all of *)
(* them are given up on the way out, and none before.                      *)
THEOREM ActiveModelsAreEntered == JobsSpec => []ActiveIsEntered
<1>1. JobsInit => BlocksInv /\ ActiveInv
  BY EmptySeq DEF JobsInit, Init, BlocksInv, OpenOnce, ToSet, ActiveInv
<1>2. BlocksInv /\ ActiveInv => ActiveIsEntered
  BY DEF BlocksInv, ActiveInv, ActiveIsEntered
<1>. QED
  BY <1>1, <1>2, JobsInvariance, BlocksStep, ActiveStep, PTL DEF JobsSpec

(* Whatever is left on the device by the jobs before, a load of a job whose *)
(* own models fit at a time always finds room: Device.free has cached models*)
(* to evict until it does.                                                 *)
THEOREM JobsNeverLackMemory == JobsSpec => []MemorySuffices
<1>1. JobsInit => BlocksInv /\ ActiveInv /\ MemorySuffices
  BY EmptySeq DEF JobsInit, Init, BlocksInv, OpenOnce, ToSet, ActiveInv, MemorySuffices
<1>2. JobsIInv /\ BlocksInv /\ ActiveInv => ~OutOfMemory
  <2> SUFFICES ASSUME JobsIInv, BlocksInv, ActiveInv, Loading, cached = {}
               PROVE  ~Short
    BY DEF OutOfMemory
  <2>1. /\ Loaded = active /\ active \in SUBSET Model
        /\ call \in Model \ active
    BY DEF JobsIInv, IInv, TypeOK, CallInv, Loaded
  <2>2. Running /\ script \in Scripts /\ pc + 1 \in 1 .. Len(script) + 1
    BY CurrentOperation DEF JobsIInv, LoadingInv, At, BlocksInv, Running
  <2> DEFINE open == ToSet(Blocks[script][pc + 1])
  <2>3. active \cup {call} \subseteq open
    BY LoadOpens
  <2>4. open \in SUBSET Model
    <3>1. Len(script) \in Nat
      BY LenProperties DEF JobsIInv, JobsTypeOK
    <3>2. Blocks[script][pc + 1] \in Seq(Model)
      BY <2>2, BlocksAssumption DEF Nested
    <3>3. DOMAIN Blocks[script][pc + 1] = 1 .. Len(Blocks[script][pc + 1])
      BY <3>2, LenProperties
    <3>. QED
      BY <3>2, <3>3, ElementOfSeq DEF ToSet
  <2>5. UsedGpuMem(open) =< GpuMemLimit
    BY <2>2, FitsAssumption
  <2>6. UsedGpuMem(active \cup {call}) =< UsedGpuMem(open)
    BY <2>3, <2>4, UsedMonotone
  <2>7. UsedGpuMem(active \cup {call}) = UsedGpuMem(active) + GpuMem[call]
    BY <2>1, UsedAdd
  <2>8. /\ UsedGpuMem(active) \in Nat /\ UsedGpuMem(open) \in Nat
        /\ GpuMem[call] \in Nat /\ GpuMemLimit \in Nat
    BY <2>1, <2>4, UsedIsNat, MemoryAssumption
  <2> HIDE DEF open
  <2>. QED
    BY <2>1, <2>5, <2>6, <2>7, <2>8 DEF Short, FreeGpuMem
<1>3. JobsIInv /\ BlocksInv /\ ActiveInv /\ MemorySuffices /\ [JobsNext]_allVars
        => MemorySuffices'
  <2> SUFFICES ASSUME JobsIInv, ~OutOfMemory, MemorySuffices, [JobsNext]_allVars
               PROVE  error' # "insufficient"
    BY <1>2 DEF MemorySuffices
  <2>1. CASE JobsNext
    BY <2>1, JobsStepIsClientStep
       DEF Next, Activate, BeginLoad, Cache, Infer, CacheAll, LoadStep, Evict, FinishLoad,
           FailLoad, vars, MemorySuffices
  <2>. QED
    BY <2>1 DEF allVars, vars, MemorySuffices
<1>. QED
  BY <1>1, <1>3, JobsInvariance, BlocksStep, ActiveStep, PTL DEF JobsSpec

-----------------------------------------------------------------------------
(* The inside of a load                                                    *)

Part == UNION { ClassOf[m].clears : m \in Model }

(* How far the load under way has come: its attributes up to here are set,  *)
(* and its network is on the GPU once it was moved.                        *)
LoadSoFar ==
  /\ Loading /\ ~Short
  /\ at \in 1 .. Len(LoadOf(call)) + 1
  /\ AssignedBefore(LoadOf(call), at) \subseteq parts[call]
  /\ (\E i \in 1 .. at - 1 : LoadOf(call)[i].does = "move") => call \in onGpu

ModelInv ==
  /\ parts \in [Model -> SUBSET Part]
  /\ \A m \in Model : parts[m] \subseteq ClassOf[m].clears
  /\ at \in Nat
  /\ at # 0 => LoadSoFar
  /\ at = 0 => onGpu \subseteq weights
  /\ at = 0 /\ Loading => ~Held(call)
  /\ \A m \in Loaded : ClassOf[m].asserts \subseteq parts[m]
  /\ weights = { m \in Model \ {call} : Held(m) }
  /\ Loaded \subseteq onGpu
  /\ onGpu \subseteq weights \cup {call}

LEMMA ModelInit == LoadingInit => ModelInv
BY DeviceAssumption DEF LoadingInit, Init, ModelInv, Held, Loaded, Loading, Part

(* What a model of a well-formed class has once its load() is through.      *)
LEMMA WholeLoad ==
  ASSUME NEW m \in Model
  PROVE  LET load == LoadOf(m) IN
         /\ Len(load) \in Nat /\ DOMAIN load = 1 .. Len(load)
         /\ ClassOf[m].handle \in ClassOf[m].asserts
         /\ ClassOf[m].asserts \subseteq AssignedBefore(load, Len(load) + 1)
         /\ \E i \in 1 .. Len(load) : load[i].does = "move"
         /\ \A i \in 1 .. Len(load) :
              load[i].does = "assign" => load[i].part \in ClassOf[m].clears
<1> DEFINE load == LoadOf(m)
<1>1. WellFormed(ClassOf[m])
  BY ClassAssumption
<1>2. Len(load) \in Nat /\ DOMAIN load = 1 .. Len(load)
  BY <1>1, LenProperties DEF WellFormed, LoadOf
<1>3. AssignedBefore(load, Len(load) + 1) \subseteq ClassOf[m].clears
  BY <1>1 DEF WellFormed, LoadOf
<1>4. \A i \in 1 .. Len(load) :
        load[i].does = "assign" => load[i].part \in AssignedBefore(load, Len(load) + 1)
  BY <1>2 DEF AssignedBefore
<1>. QED
  BY <1>1, <1>2, <1>3, <1>4 DEF WellFormed, LoadOf

(* An eviction leaves no attribute and nothing on the GPU.                 *)
LEMMA EvictedModel ==
  ASSUME IInv, ModelInv, EvictModel
  PROVE  \E victim \in cached :
           /\ cached' = cached \ {victim}
           /\ weights' = weights \ {victim}
           /\ parts' = [parts EXCEPT ![victim] = {}]
           /\ onGpu' = onGpu \ {victim}
<1>1. order \in Seq(Model) /\ Distinct(order) /\ cached \in SUBSET Model
  BY DEF IInv, TypeOK, OrderTracksLoaded, Distinct
<1>2. PICK victim \in Victims(order, cached) :
        cached' = cached \ {victim} /\ weights' = weights \ {victim}
  BY DEF EvictModel, Evict
<1>3. victim \in cached /\ victim \in Model
  BY <1>1, <1>2, VictimFacts
<1>4. cached \ cached' = {victim}
  BY <1>2, <1>3
<1>5. Cleared(victim) = {}
  <2>1. Held(victim)
    BY <1>3 DEF IInv, WeightsAccounted, Loaded, ModelInv
  <2>. QED
    BY <1>3, <2>1 DEF Cleared, ModelInv
<1>6. parts' = [parts EXCEPT ![victim] = {}]
  BY <1>4, <1>5 DEF EvictModel, ModelInv
<1>7. onGpu' = onGpu \ {victim}
  BY <1>4, <1>5 DEF EvictModel
<1>. QED
  BY <1>2, <1>3, <1>6, <1>7

(* Every step is a step of Device or one inside a load.                    *)
LEMMA LoadingStepIsStep ==
  ASSUME IInv, ModelInv, [LoadingNext]_modelVars
  PROVE  [Next]_vars
<1>1. CASE LoadBreaks
  BY <1>1 DEF LoadBreaks, Next, LoadStep
<1>2. CASE LoadDone
  BY <1>2 DEF LoadDone, Next, LoadStep
<1>3. CASE CallLoad \/ LoadOn \/ UNCHANGED modelVars
  BY <1>3 DEF CallLoad, LoadOn, modelVars, vars
<1>4. CASE EvictModel
  BY <1>4 DEF EvictModel, Next, LoadStep
<1>5. CASE Bookkeeping
  BY <1>5 DEF Bookkeeping, Next, LoadStep
<1>. QED
  BY <1>1, <1>2, <1>3, <1>4, <1>5 DEF LoadingNext, ModelStep

LEMMA ModelNext == IInv /\ IInv' /\ ModelInv /\ [LoadingNext]_modelVars => ModelInv'
<1> SUFFICES ASSUME IInv, IInv', ModelInv, [LoadingNext]_modelVars
             PROVE  ModelInv'
  OBVIOUS
<1>0. /\ active \subseteq Model /\ cached \subseteq Model /\ NoModel \notin Model
      /\ Loaded \subseteq weights
      /\ Loading => call \in Model \ Loaded /\ error = "none" /\ weights = Loaded
  BY DeviceAssumption DEF IInv, TypeOK, WeightsAccounted, CallInv
<1>1. CASE UNCHANGED modelVars
  BY <1>1 DEF modelVars, vars, loadingVars, ModelInv, LoadSoFar, Held, Loading, Loaded, Short
<1>2. ASSUME NEW m \in Model, Activate(m) \/ Cache(m) \/ Infer(m), UNCHANGED loadingVars
      PROVE  ModelInv'
  <2>1. ~Loading /\ UNCHANGED <<weights, call>> /\ Loaded' = Loaded
    BY <1>2 DEF Activate, Cache, Infer, Ready, Loading, Loaded
  <2>. QED
    BY <1>2, <2>1 DEF loadingVars, ModelInv, LoadSoFar, Held, Loading
<1>3. ASSUME CacheAll, UNCHANGED loadingVars
      PROVE  ModelInv'
  <2>1. ~Loading /\ UNCHANGED <<weights, call>> /\ Loaded' = Loaded
    BY <1>3 DEF CacheAll, Ready, Loading, Loaded
  <2>. QED
    BY <1>3, <2>1 DEF loadingVars, ModelInv, LoadSoFar, Held, Loading
<1>4. ASSUME NEW m \in Model, BeginLoad(m), UNCHANGED loadingVars
      PROVE  ModelInv'
  <2>1. /\ ~Loading /\ error = "none" /\ m \notin Loaded /\ call' = m
        /\ UNCHANGED weights /\ Loaded' = Loaded
    BY <1>4 DEF BeginLoad, Ready, Loading, Loaded
  <2>2. m \notin weights
    BY <2>1 DEF IInv, WeightsAccounted
  <2>3. call = NoModel
    BY <2>1 DEF Loading
  <2>. QED
    BY <1>0, <1>4, <2>1, <2>2, <2>3 DEF loadingVars, ModelInv, LoadSoFar, Held, Loading
<1>5. ASSUME OutOfMemory, UNCHANGED loadingVars
      PROVE  ModelInv'
  <2>1. at = 0 /\ ~Held(call) /\ UNCHANGED weights /\ Loaded' = Loaded /\ call' = NoModel
    BY <1>5 DEF OutOfMemory, ModelInv, LoadSoFar, Loaded
  <2>2. weights' = { m \in Model \ {call'} : Held(m) }
    BY <1>0, <2>1 DEF ModelInv
  <2>. QED
    BY <1>5, <2>1, <2>2 DEF loadingVars, ModelInv, Held, Loading
<1>6. CASE EvictModel
  <2>1. PICK victim \in cached :
          /\ cached' = cached \ {victim}
          /\ weights' = weights \ {victim}
          /\ parts' = [parts EXCEPT ![victim] = {}]
          /\ onGpu' = onGpu \ {victim}
    BY <1>6, EvictedModel
  <2>2. UNCHANGED <<at, call, active>> /\ at = 0 /\ Loading
    BY <1>6 DEF EvictModel, Evict
  <2>3. Loaded' = Loaded \ {victim} /\ victim # call /\ victim \in Model
    <3>1. active \cap cached = {}
      BY DEF IInv, TypeOK
    <3>. QED
      BY <1>0, <2>1, <2>2, <3>1 DEF Loaded
  <2>4. \A m \in Model : /\ m # victim => parts'[m] = parts[m]
                         /\ parts'[victim] = {}
    BY <2>1, <2>3 DEF ModelInv
  <2>5. parts' \in [Model -> SUBSET Part]
    BY <2>1 DEF ModelInv
  <2>6. weights' = { m \in Model \ {call'} : Held(m)' }
    BY <2>1, <2>2, <2>3, <2>4 DEF ModelInv, Held
  <2>. QED
    BY <1>0, <2>1, <2>2, <2>3, <2>4, <2>5, <2>6 DEF ModelInv, Held, Loading
<1>7. CASE CallLoad
  <2>1. UNCHANGED <<vars, parts, onGpu>> /\ Loading /\ ~Short /\ at = 0 /\ call \in Model
    BY <1>0, <1>7 DEF CallLoad
  <2>2. at' = 1
    BY <1>7, <2>1 DEF CallLoad, ModelInv
  <2>3. Loaded' = Loaded /\ ~Short' /\ Loading'
    BY <2>1 DEF vars, Loaded, Short, Loading
  <2>4. AssignedBefore(LoadOf(call), 1) = {}
    BY DEF AssignedBefore
  <2>5. LoadSoFar'
    BY <2>1, <2>2, <2>3, <2>4, WholeLoad DEF LoadSoFar, vars
  <2>. QED
    BY <2>1, <2>2, <2>3, <2>5 DEF ModelInv, Held, vars
<1>8. CASE LoadOn
  <2>1. /\ UNCHANGED vars /\ LoadSoFar /\ at' = at + 1
        /\ call \in Model /\ Step = LoadOf(call)[at]
    BY <1>0, <1>8 DEF LoadOn, InLoad, ModelInv, LoadSoFar, Step
  <2>2. at \in 1 .. Len(LoadOf(call)) /\ Len(LoadOf(call)) \in Nat
    BY <1>8, <2>1, WholeLoad DEF LoadOn, InLoad
  <2>3. /\ Step.does = "assign" => Step.part \in ClassOf[call].clears
        /\ ClassOf[call].clears \subseteq Part
    BY <2>1, <2>2, WholeLoad DEF Part
  <2>4. /\ parts' \in [Model -> SUBSET Part]
        /\ \A m \in Model : /\ m # call => parts'[m] = parts[m]
                            /\ parts[m] \subseteq parts'[m]
                            /\ parts'[m] \subseteq ClassOf[m].clears
        /\ Step.does = "assign" => Step.part \in parts'[call]
    BY <1>8, <2>1, <2>3 DEF LoadOn, ModelInv
  <2>5. AssignedBefore(LoadOf(call), at + 1) \subseteq parts'[call]
    BY <2>1, <2>2, <2>4 DEF AssignedBefore, LoadSoFar
  <2>6. /\ onGpu \subseteq onGpu' /\ onGpu' \subseteq onGpu \cup {call}
        /\ Step.does = "move" => call \in onGpu'
    BY <1>8 DEF LoadOn
  <2>7. Loaded' = Loaded /\ ~Short' /\ Loading' /\ call' = call /\ weights' = weights
    BY <2>1 DEF vars, Loaded, Short, Loading, LoadSoFar
  <2>8. LoadSoFar'
    BY <2>1, <2>2, <2>5, <2>6, <2>7 DEF LoadSoFar
  <2>9. weights' = { m \in Model \ {call'} : Held(m)' }
    BY <2>4, <2>7 DEF ModelInv, Held
  <2>. QED
    BY <1>0, <2>1, <2>2, <2>4, <2>6, <2>7, <2>8, <2>9 DEF ModelInv, Held
<1>9. CASE LoadBreaks
  <2>1. /\ Loading /\ call' = NoModel /\ at' = 0 /\ UNCHANGED <<parts, active, cached>>
        /\ weights' \in {weights, weights \cup {call}}
        /\ call \in weights' <=> Held(call)
    BY <1>9 DEF LoadBreaks, FailLoad
  <2>2. call \in Model /\ call \notin weights
    BY <1>0, <2>1 DEF ModelInv
  <2>3. weights' = { m \in Model \ {call'} : Held(m)' }
    BY <1>0, <2>1, <2>2 DEF ModelInv, Held
  <2>4. /\ onGpu \ {call} \subseteq onGpu'
        /\ onGpu' \subseteq onGpu \cup {call}
        /\ ~Held(call) => call \notin onGpu'
    BY <1>9 DEF LoadBreaks
  <2>5. Loaded' = Loaded /\ call \notin Loaded
    BY <1>0, <2>1 DEF Loaded
  <2>6. onGpu' \subseteq weights'
    BY <2>1, <2>2, <2>4 DEF ModelInv
  <2>7. ~Loading'
    BY <2>1 DEF Loading
  <2>. QED
    BY <2>1, <2>3, <2>4, <2>5, <2>6, <2>7 DEF ModelInv
<1>10. CASE LoadDone
  <2>1. /\ Loading /\ LoadSoFar /\ ~InLoad /\ call \in Model
        /\ weights' = weights \cup {call} /\ active' = active \cup {call}
        /\ call' = NoModel /\ at' = 0 /\ UNCHANGED <<cached, parts, onGpu>>
    BY <1>0, <1>10 DEF LoadDone, FinishLoad, ModelInv
  <2>2. at = Len(LoadOf(call)) + 1 /\ Len(LoadOf(call)) \in Nat
    BY <2>1, WholeLoad DEF InLoad, LoadSoFar
  <2>3. ClassOf[call].asserts \subseteq parts[call] /\ Held(call)
    BY <2>1, <2>2, WholeLoad DEF LoadSoFar, Held
  <2>4. call \in onGpu
    BY <2>1, <2>2, WholeLoad DEF LoadSoFar
  <2>5. Loaded' = Loaded \cup {call}
    BY <2>1 DEF Loaded
  <2>6. weights' = { m \in Model \ {call'} : Held(m)' }
    BY <1>0, <2>1, <2>3 DEF ModelInv, Held
  <2>7. ~Loading'
    BY <2>1 DEF Loading
  <2>. QED
    BY <2>1, <2>3, <2>4, <2>5, <2>6, <2>7 DEF ModelInv
<1>. QED
  BY <1>1, <1>2, <1>3, <1>4, <1>5, <1>6, <1>7, <1>8, <1>9, <1>10
     DEF LoadingNext, Bookkeeping, ModelStep

LEMMA LoadingInvariance == LoadingSpec => [](IInv /\ ModelInv)
<1>1. LoadingInit => IInv /\ ModelInv
  BY InitIInv, ModelInit DEF LoadingInit
<1>2. IInv /\ ModelInv /\ [LoadingNext]_modelVars => (IInv /\ ModelInv)'
  <2>1. IInv /\ ModelInv /\ [LoadingNext]_modelVars => IInv'
    BY LoadingStepIsStep, NextIInv
  <2>. QED
    BY <2>1, ModelNext
<1>. QED
  BY <1>1, <1>2, PTL DEF LoadingSpec

(* Calls, steps and exceptions inside a load() are a Device in which a load *)
(* is one step: what is proved of Device holds with them too.              *)
THEOREM LoadingImplementsDevice == LoadingSpec => Spec
<1>1. LoadingInit => Init
  BY DEF LoadingInit
<1>2. IInv /\ ModelInv /\ [LoadingNext]_modelVars => [Next]_vars
  BY LoadingStepIsStep
<1>. QED
  BY <1>1, <1>2, LoadingInvariance, PTL DEF LoadingSpec, Spec

(* Until a load fails, and with that its worker ends, a model that is not   *)
(* being loaded has every attribute its pipe methods assert, or none at all. *)
WholeOrAbsent ==
  error = "load_failed" \/
    \A m \in Model \ {call} :
      parts[m] = {} \/ ClassOf[m].asserts \subseteq parts[m]

(* What makes it inductive: the device has no model that it does not count. *)
AbsentInv ==
  error # "load_failed" =>
    \A m \in Model \ Loaded : m # call \/ at = 0 => parts[m] = {}

LEMMA AbsentStep ==
  IInv /\ ModelInv /\ AbsentInv /\ [LoadingNext]_modelVars => AbsentInv'
<1> SUFFICES ASSUME IInv, ModelInv, AbsentInv, [LoadingNext]_modelVars
             PROVE  AbsentInv'
  OBVIOUS
<1>0. /\ active \subseteq Model /\ cached \subseteq Model /\ NoModel \notin Model
      /\ active \cap cached = {} /\ DOMAIN parts = Model
      /\ Loading => call \in Model \ Loaded
  BY DeviceAssumption DEF IInv, TypeOK, CallInv, ModelInv
<1>1. CASE UNCHANGED modelVars
  BY <1>1 DEF modelVars, vars, loadingVars, AbsentInv, Loaded
<1>2. CASE Bookkeeping
  <2>1. UNCHANGED <<parts, at>> /\ Loaded' = Loaded
    BY <1>2 DEF Bookkeeping, loadingVars, Activate, BeginLoad, Cache, Infer, CacheAll,
                OutOfMemory, Loaded
  <2>2. CASE \E m \in Model : BeginLoad(m)
    BY <1>0, <2>1, <2>2 DEF BeginLoad, Ready, AbsentInv
  <2>3. CASE OutOfMemory
    <3>1. at = 0
      BY <2>3 DEF OutOfMemory, ModelInv, LoadSoFar
    <3>2. error # "load_failed"
      BY <2>3 DEF OutOfMemory, IInv, CallInv
    <3>. QED
      BY <2>1, <3>1, <3>2 DEF AbsentInv
  <2>4. CASE ~OutOfMemory /\ ~\E m \in Model : BeginLoad(m)
    <3>1. UNCHANGED <<error, call>>
      BY <1>2, <2>4 DEF Bookkeeping, Activate, Cache, Infer, CacheAll
    <3>. QED
      BY <2>1, <3>1 DEF AbsentInv
  <2>. QED
    BY <2>2, <2>3, <2>4
<1>3. CASE EvictModel
  <2>1. PICK victim \in cached :
          /\ cached' = cached \ {victim}
          /\ parts' = [parts EXCEPT ![victim] = {}]
    BY <1>3, EvictedModel
  <2>2. UNCHANGED <<at, call, active, error>>
    BY <1>3 DEF EvictModel, Evict
  <2>3. Loaded' = Loaded \ {victim}
    BY <1>0, <2>1, <2>2 DEF Loaded
  <2>. QED
    BY <1>0, <2>1, <2>2, <2>3 DEF AbsentInv
<1>4. CASE CallLoad
  BY <1>4 DEF CallLoad, vars, AbsentInv, Loaded
<1>5. CASE LoadOn
  <2>1. UNCHANGED <<error, call, active, cached>> /\ Loaded' = Loaded
    BY <1>5 DEF LoadOn, vars, Loaded
  <2>2. \A m \in Model : m # call => parts'[m] = parts[m]
    BY <1>0, <1>5 DEF LoadOn
  <2>3. at' # 0
    BY <1>5 DEF LoadOn, ModelInv
  <2>. QED
    BY <2>1, <2>2, <2>3 DEF AbsentInv
<1>6. CASE LoadBreaks
  BY <1>6 DEF LoadBreaks, FailLoad, AbsentInv
<1>7. CASE LoadDone
  <2>1. /\ Loaded' = Loaded \cup {call}
        /\ UNCHANGED <<parts, error>>
    BY <1>7 DEF LoadDone, FinishLoad, Loaded
  <2>. QED
    BY <2>1 DEF AbsentInv
<1>. QED
  BY <1>1, <1>2, <1>3, <1>4, <1>5, <1>6, <1>7 DEF LoadingNext, ModelStep

(* No order of calls and evictions leaves a model in use without an         *)
(* attribute its pipe methods assert, for classes of any shape whose load() *)
(* assigns them: an early return by the handle never hides one.  After a   *)
(* load that fails no other is begun, as the worker has ended; the models   *)
(* still in use then have theirs, and up to then none is left half loaded. *)
THEOREM AssertsAlwaysHold == LoadingSpec => [](AssertsHold /\ WholeOrAbsent)
<1>1. LoadingInit => AbsentInv
  BY DEF LoadingInit, AbsentInv
<1>2. IInv /\ ModelInv /\ AbsentInv => AssertsHold /\ WholeOrAbsent
  BY DEF ModelInv, AssertsHold, WholeOrAbsent, AbsentInv, Loaded
<1>. QED
  BY <1>1, <1>2, AbsentStep, LoadingInvariance, PTL DEF LoadingSpec

(* At every step of a load() the GPU holds what Device counts, the model    *)
(* being loaded and what a failed load left, and all of that fits.         *)
THEOREM GpuIsCounted == LoadingSpec => []GpuHoldsCounted
<1>1. IInv /\ ModelInv => GpuHoldsCounted
  <2> SUFFICES ASSUME IInv, ModelInv PROVE UsedGpuMem(onGpu) =< GpuMemLimit
    BY DEF ModelInv, GpuHoldsCounted
  <2>1. PICK S \in SUBSET Model : onGpu \subseteq S /\ UsedGpuMem(S) =< GpuMemLimit
    <3>1. CASE at = 0
      BY <3>1 DEF IInv, TypeOK, MemoryBound, ModelInv
    <3>2. CASE at # 0
      <4>1. Loading /\ ~Short
        BY <3>2 DEF ModelInv, LoadSoFar
      <4>2. weights = Loaded /\ Loaded \cup {call} \in SUBSET Model
        BY <4>1 DEF IInv, TypeOK, WeightsAccounted, CallInv, Loaded
      <4>. QED
        BY <4>1, <4>2, RoomForCall DEF ModelInv
    <3>. QED
      BY <3>1, <3>2
  <2>2. onGpu \in SUBSET S
    BY <2>1
  <2>3. UsedGpuMem(onGpu) \in Nat /\ UsedGpuMem(S) \in Nat /\ GpuMemLimit \in Nat
    BY <2>2, UsedIsNat, MemoryAssumption
  <2>4. UsedGpuMem(onGpu) =< UsedGpuMem(S)
    BY <2>2, UsedMonotone
  <2>. QED
    BY <2>1, <2>3, <2>4
<1>. QED
  BY <1>1, LoadingInvariance, PTL
=============================================================================
