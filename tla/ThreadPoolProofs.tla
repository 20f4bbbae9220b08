-------------------------- MODULE ThreadPoolProofs --------------------------
(***************************************************************************)
(* The thread pool is correct for any finite number of workers and runners:*)
(* PoolInvariant is inductive, a woken worker finds a runner, and the pool *)
(* implements TaskPool.                                                    *)
(***************************************************************************)
EXTENDS ThreadPool, FiniteSetTheorems, SequenceTheorems, TLAPS

\* The counted sets are finite and their cardinalities natural numbers.
LEMMA Countable ==
  ASSUME TypeOK
  PROVE  /\ IsFiniteSet(Claimants) /\ Cardinality(Claimants) \in Nat
         /\ IsFiniteSet(pushed) /\ Cardinality(pushed) \in Nat
         /\ Cardinality(pushed) <= Cardinality(Runners) /\ Cardinality(Runners) \in Nat
         /\ Len(listRunner) \in Nat
<1>1. IsFiniteSet(Claimants)
  BY FS_Subset, PoolAssumption DEF Claimants
<1>2. IsFiniteSet(pushed) /\ Cardinality(pushed) <= Cardinality(Runners)
  BY FS_Subset, PoolAssumption DEF TypeOK
<1>3. Cardinality(Runners) \in Nat
  BY FS_CardinalityType, PoolAssumption
<1>4. Len(listRunner) \in Nat
  BY LenProperties DEF TypeOK
<1> QED
  BY <1>1, <1>2, <1>3, <1>4, FS_CardinalityType

\* Initially the pool's invariant holds (hatchInitialize: an empty list, a
\* semaphore at 0, an event not set).
LEMMA InitPoolInvariant == Init => PoolInvariant
<1> SUFFICES ASSUME Init PROVE PoolInvariant
  OBVIOUS
<1>1. TypeOK
  <2>1. count \in 0..MaxCount
    BY PoolAssumption DEF Init
  <2>2. listRunner \in Seq(Runners)
    BY DEF Init
  <2> QED
    BY <2>1, <2>2, Zenon DEF Init, TypeOK
<1>2. UnitsMatchRunners
  <2>1. Claimants = {} /\ Unreleased = 0
    BY DEF Init, Claimants, Unreleased
  <2> QED
    BY <2>1, FS_EmptySet DEF Init, UnitsMatchRunners
<1>3. ListFits
  BY FS_EmptySet DEF Init, ListFits
<1>4. RunnersPlaced
  BY DEF Init, RunnersPlaced, InList, RunBy
<1>5. PhasesMatch
  BY DEF Init, PhasesMatch
<1> QED
  BY <1>1, <1>2, <1>3, <1>4, <1>5 DEF PoolInvariant

\* Before the pool is complete the list is empty and nobody has been woken.
LEMMA NothingYet ==
  ASSUME PoolInvariant, main = "create"
  PROVE  listRunner = <<>> /\ count = 0 /\ Claimants = {} /\ pushed = {}
<1> USE DEF PoolInvariant
<1>1. pushed = {}
  BY DEF PhasesMatch
<1>2. Len(listRunner) = 0
  BY <1>1, FS_EmptySet, Countable DEF ListFits
<1>3. count = 0 /\ Cardinality(Claimants) = 0
  BY <1>2, Countable DEF UnitsMatchRunners, Unreleased, TypeOK
<1>4. Claimants = {}
  BY <1>3, Countable, FS_EmptySet
<1> QED
  BY <1>1, <1>2, <1>3, <1>4, EmptySeq DEF TypeOK

\* A worker that was woken finds a runner: it is one of the claimants, each of
\* which stands for a runner of the list.
LEMMA WokenFindsRunner ==
  ASSUME PoolInvariant, NEW w \in Workers, wpc[w] = "pop"
  PROVE  listRunner # <<>>
<1> USE DEF PoolInvariant
<1>1. Claimants # {}
  BY DEF Claimants
<1>2. Cardinality(Claimants) # 0
  BY <1>1, Countable, FS_EmptySet
<1>3. Len(listRunner) # 0
  BY <1>2, Countable DEF UnitsMatchRunners, Unreleased, TypeOK
<1> QED
  BY <1>3

\* hatchPop moves the first runner, and no other, out of the list.
LEMMA PopTakesHead ==
  ASSUME PoolInvariant, NEW w \in Workers, hatchPop(w)
  PROVE  /\ UNCHANGED <<main, count, endEvent, pushed, returned>>
         /\ wpc' = [wpc EXCEPT ![w] = "run"]
         /\ listRunner' \in Seq(Runners) /\ Len(listRunner') = Len(listRunner) - 1
         /\ \A i, j \in DOMAIN listRunner' : listRunner'[i] = listRunner'[j] => i = j
         /\ \E r \in Runners :
              /\ job' = [job EXCEPT ![w] = r]
              /\ InList(r) /\ ~InList(r)'
              /\ \A q \in Runners : q # r => (InList(q)' <=> InList(q))
<1>1. TypeOK /\ RunnersPlaced
  BY DEF PoolInvariant
<1>2. listRunner # <<>>
  BY WokenFindsRunner DEF hatchPop
<1>3. /\ Head(listRunner) \in Runners
      /\ Head(listRunner) = listRunner[1]
      /\ Tail(listRunner) \in Seq(Runners)
      /\ Len(Tail(listRunner)) = Len(listRunner) - 1
      /\ \A i \in 1..(Len(listRunner) - 1) : Tail(listRunner)[i] = listRunner[i + 1]
  BY <1>1, <1>2, HeadTailProperties DEF TypeOK
<1>4. /\ job' = [job EXCEPT ![w] = Head(listRunner)]
      /\ listRunner' = Tail(listRunner)
      /\ wpc' = [wpc EXCEPT ![w] = "run"]
      /\ UNCHANGED <<main, count, endEvent, pushed, returned>>
  BY <1>2 DEF hatchPop
<1>5. PICK r \in Runners : r = Head(listRunner)
  BY <1>3
<1>6. /\ DOMAIN listRunner = 1..Len(listRunner)
      /\ DOMAIN listRunner' = 1..(Len(listRunner) - 1)
      /\ \A i \in DOMAIN listRunner' : listRunner'[i] = listRunner[i + 1]
      /\ 1 \in DOMAIN listRunner
      /\ \A i \in DOMAIN listRunner' : i + 1 \in DOMAIN listRunner /\ i + 1 # 1
  BY <1>1, <1>2, <1>3, <1>4 DEF TypeOK
<1>7. \A i, j \in DOMAIN listRunner' : listRunner'[i] = listRunner'[j] => i = j
  <2>1. SUFFICES ASSUME NEW i \in DOMAIN listRunner', NEW j \in DOMAIN listRunner',
                        listRunner'[i] = listRunner'[j]
                 PROVE  i = j
    OBVIOUS
  <2>2. i + 1 = j + 1
    BY <1>1, <1>6, <2>1 DEF RunnersPlaced
  <2> QED
    BY <1>1, <1>6, <2>2, Countable
<1>8. InList(r) /\ ~InList(r)'
  BY <1>1, <1>3, <1>5, <1>6 DEF InList, RunnersPlaced
<1>9. \A q \in Runners : q # r => (InList(q)' <=> InList(q))
  <2>1. SUFFICES ASSUME NEW q \in Runners, q # r PROVE InList(q)' <=> InList(q)
    OBVIOUS
  <2>2. ASSUME InList(q)' PROVE InList(q)
    BY <1>6, <2>2 DEF InList
  <2>3. ASSUME InList(q) PROVE InList(q)'
    <3>1. PICK i \in DOMAIN listRunner : listRunner[i] = q
      BY <2>3 DEF InList
    <3>2. i # 1
      BY <1>3, <1>5, <2>1, <3>1
    <3>3. i - 1 \in DOMAIN listRunner' /\ (i - 1) + 1 = i
      BY <1>1, <1>6, <3>1, <3>2, Countable
    <3> QED
      BY <1>6, <3>1, <3>3 DEF InList
  <2> QED
    BY <2>2, <2>3
<1> QED
  BY <1>3, <1>4, <1>5, <1>7, <1>8, <1>9, Zenon

\* hatchPush puts a runner in the list that was nowhere in the pool.
LEMMA PushAddsRunner ==
  ASSUME PoolInvariant, NEW r \in Runners, hatchPush(r)
  PROVE  /\ Len(listRunner') = Len(listRunner) + 1
         /\ \A i, j \in DOMAIN listRunner' : listRunner'[i] = listRunner'[j] => i = j
         /\ \A q \in Runners : InList(q)' <=> InList(q) \/ q = r
         /\ ~InList(r) /\ (\A w \in Workers : ~RunBy(w, r))
<1>1. TypeOK /\ RunnersPlaced
  BY DEF PoolInvariant
<1>2. /\ Len(listRunner') = Len(listRunner) + 1
      /\ DOMAIN listRunner' = 1..(Len(listRunner) + 1)
      /\ DOMAIN listRunner = 1..Len(listRunner)
      /\ listRunner'[Len(listRunner) + 1] = r
      /\ \A i \in DOMAIN listRunner : listRunner'[i] = listRunner[i]
  BY <1>1 DEF hatchPush, TypeOK
<1>3. \A q \in Runners : InList(q)' <=> InList(q) \/ q = r
  BY <1>1, <1>2, Countable DEF InList
<1>4. ~InList(r) /\ \A w \in Workers : ~RunBy(w, r)
  BY <1>1 DEF hatchPush, RunnersPlaced
<1>5. \A i \in DOMAIN listRunner : listRunner[i] # r
  BY <1>4 DEF InList
<1>6. \A i, j \in DOMAIN listRunner' : listRunner'[i] = listRunner'[j] => i = j
  BY <1>1, <1>2, <1>5, Countable DEF RunnersPlaced
<1> QED
  BY <1>2, <1>3, <1>4, <1>6

\* Every step of the main thread and of a worker keeps the pool's invariant.
LEMMA NextPoolInvariant == PoolInvariant /\ [Next]_vars => PoolInvariant'
<1> SUFFICES ASSUME PoolInvariant, [Next]_vars PROVE PoolInvariant'
  OBVIOUS
<1>1. TypeOK /\ UnitsMatchRunners /\ ListFits /\ RunnersPlaced /\ PhasesMatch
  BY DEF PoolInvariant
<1>c. count \in Nat
  BY <1>1, PoolAssumption DEF TypeOK
<1>2. ASSUME NEW w \in Workers, CreateThread(w) PROVE PoolInvariant'
  <2>1. TypeOK'
    BY <1>1, <1>2 DEF CreateThread, TypeOK
  <2>2. UnitsMatchRunners'
    <3>1. Claimants' = Claimants /\ Unreleased' = Unreleased
      BY <1>1, <1>2 DEF CreateThread, TypeOK, Claimants, Unreleased
    <3> QED
      BY <1>1, <1>2, <3>1 DEF CreateThread, UnitsMatchRunners
  <2>3. ListFits'
    BY <1>1, <1>2 DEF CreateThread, ListFits
  <2>4. RunnersPlaced'
    BY <1>1, <1>2 DEF CreateThread, TypeOK, RunnersPlaced, InList, RunBy
  <2>5. PhasesMatch'
    BY <1>1, <1>2 DEF CreateThread, TypeOK, PhasesMatch
  <2> QED
    BY <2>1, <2>2, <2>3, <2>4, <2>5 DEF PoolInvariant
<1>3. ASSUME CreateFails PROVE PoolInvariant'
  <2>1. TypeOK'
    BY <1>1, <1>3 DEF CreateFails, TypeOK
  <2>2. UnitsMatchRunners'
    <3>1. Claimants' = {} /\ Unreleased' = 0
      BY <1>3 DEF CreateFails, Claimants, Unreleased
    <3>2. listRunner = <<>> /\ count = 0
      BY <1>3, NothingYet DEF CreateFails
    <3> QED
      BY <1>3, <3>1, <3>2, FS_EmptySet DEF CreateFails, UnitsMatchRunners
  <2>3. ListFits'
    BY <1>1, <1>3 DEF CreateFails, ListFits
  <2>4. RunnersPlaced'
    <3>1. listRunner = <<>> /\ pushed = {}
      BY <1>3, NothingYet DEF CreateFails
    <3> QED
      BY <1>1, <1>3, <3>1 DEF CreateFails, TypeOK, RunnersPlaced, InList, RunBy
  <2>5. PhasesMatch'
    BY <1>1, <1>3 DEF CreateFails, TypeOK, PhasesMatch
  <2> QED
    BY <2>1, <2>2, <2>3, <2>4, <2>5 DEF PoolInvariant
<1>4. ASSUME NEW r \in Runners, hatchPush(r) PROVE PoolInvariant'
  <2>1. TypeOK'
    BY <1>1, <1>4 DEF hatchPush, TypeOK
  <2>2. UnitsMatchRunners'
    <3>1. Claimants' = Claimants
      BY <1>4 DEF hatchPush, Claimants
    <3>2. Unreleased = 0 /\ Unreleased' = 1
      BY <1>4 DEF hatchPush, Unreleased
    <3>3. Len(listRunner') = Len(listRunner) + 1
      BY <1>4, PushAddsRunner
    <3>4. count' = count
      BY <1>4 DEF hatchPush
    <3> QED
      BY <1>1, <1>c, <3>1, <3>2, <3>3, <3>4, Countable DEF UnitsMatchRunners
  <2>3. ListFits'
    <3>1. Len(listRunner') = Len(listRunner) + 1
      BY <1>4, PushAddsRunner
    <3>2. Cardinality(pushed') = Cardinality(pushed) + 1
      BY <1>1, <1>4, Countable, FS_AddElement, Zenon DEF hatchPush
    <3> QED
      BY <1>1, <3>1, <3>2, Countable DEF ListFits
  <2>4. RunnersPlaced'
    <3>1. \A w \in Workers, q \in Runners : RunBy(w, q)' <=> RunBy(w, q)
      BY <1>4 DEF hatchPush, RunBy
    <3>2. pushed' = pushed \cup {r} /\ returned' = returned /\ r \notin returned
      BY <1>1, <1>4 DEF hatchPush, TypeOK
    <3>3. \A w \in Workers : (wpc[w] = "run" => job[w] \in Runners)'
      BY <1>1, <1>4 DEF hatchPush, RunnersPlaced
    <3>4. pushed' \subseteq Runners
      BY <2>1 DEF TypeOK
    <3> QED
      BY <1>1, <1>4, <3>1, <3>2, <3>3, <3>4, PushAddsRunner DEF RunnersPlaced
  <2>5. PhasesMatch'
    BY <1>1, <1>4 DEF hatchPush, TypeOK, PhasesMatch
  <2> QED
    BY <2>1, <2>2, <2>3, <2>4, <2>5 DEF PoolInvariant
<1>5. ASSUME hatchReleaseSemaphore PROVE PoolInvariant'
  <2>1. TypeOK'
    <3>1. count' \in 0..MaxCount
      BY <1>1, <1>5, PoolAssumption DEF hatchReleaseSemaphore, TypeOK
    <3> QED
      BY <1>1, <1>5, <3>1 DEF hatchReleaseSemaphore, TypeOK
  <2>2. UnitsMatchRunners'
    <3>1. Claimants' = Claimants
      BY <1>5 DEF hatchReleaseSemaphore, Claimants
    <3>2. Unreleased = 1 /\ Unreleased' = 0
      BY <1>5 DEF hatchReleaseSemaphore, Unreleased
    <3>3. count + 1 <= Len(listRunner)
      BY <1>1, <1>c, <3>2, Countable DEF UnitsMatchRunners
    <3>4. Len(listRunner) <= MaxCount
      BY <1>1, Countable, PoolAssumption DEF ListFits
    <3>5. count < MaxCount
      BY <1>1, <1>c, <3>3, <3>4, Countable, PoolAssumption
    <3>6. count' = count + 1 /\ listRunner' = listRunner
      BY <1>5, <3>5 DEF hatchReleaseSemaphore
    <3> QED
      BY <1>1, <1>c, <3>1, <3>2, <3>6, Countable DEF UnitsMatchRunners
  <2>3. ListFits'
    BY <1>1, <1>5 DEF hatchReleaseSemaphore, ListFits
  <2>4. RunnersPlaced'
    BY <1>1, <1>5 DEF hatchReleaseSemaphore, TypeOK, RunnersPlaced, InList, RunBy
  <2>5. PhasesMatch'
    BY <1>1, <1>5 DEF hatchReleaseSemaphore, TypeOK, PhasesMatch
  <2> QED
    BY <2>1, <2>2, <2>3, <2>4, <2>5 DEF PoolInvariant
<1>6. ASSUME hatchEnd PROVE PoolInvariant'
  <2>1. TypeOK'
    BY <1>1, <1>6 DEF hatchEnd, TypeOK
  <2>2. UnitsMatchRunners'
    <3>1. Claimants' = Claimants /\ Unreleased' = Unreleased
      BY <1>1, <1>6 DEF hatchEnd, TypeOK, Claimants, Unreleased
    <3> QED
      BY <1>1, <1>6, <3>1 DEF hatchEnd, UnitsMatchRunners
  <2>3. ListFits'
    BY <1>1, <1>6 DEF hatchEnd, ListFits
  <2>4. RunnersPlaced'
    BY <1>1, <1>6 DEF hatchEnd, TypeOK, RunnersPlaced, InList, RunBy
  <2>5. PhasesMatch'
    BY <1>1, <1>6 DEF hatchEnd, TypeOK, PhasesMatch
  <2> QED
    BY <2>1, <2>2, <2>3, <2>4, <2>5 DEF PoolInvariant
<1>7. ASSUME hatchWaitThreadEnd PROVE PoolInvariant'
  <2>1. TypeOK'
    BY <1>1, <1>7 DEF hatchWaitThreadEnd, TypeOK
  <2>2. UnitsMatchRunners'
    <3>1. Claimants' = Claimants /\ Unreleased' = Unreleased
      BY <1>1, <1>7 DEF hatchWaitThreadEnd, TypeOK, Claimants, Unreleased
    <3> QED
      BY <1>1, <1>7, <3>1 DEF hatchWaitThreadEnd, UnitsMatchRunners
  <2>3. ListFits'
    BY <1>1, <1>7 DEF hatchWaitThreadEnd, ListFits
  <2>4. RunnersPlaced'
    BY <1>1, <1>7 DEF hatchWaitThreadEnd, TypeOK, RunnersPlaced, InList, RunBy
  <2>5. PhasesMatch'
    BY <1>1, <1>7 DEF hatchWaitThreadEnd, TypeOK, PhasesMatch
  <2> QED
    BY <2>1, <2>2, <2>3, <2>4, <2>5 DEF PoolInvariant
<1>8. ASSUME NEW w \in Workers, WaitEnd(w) PROVE PoolInvariant'
  <2>1. TypeOK'
    BY <1>1, <1>8 DEF WaitEnd, TypeOK
  <2>2. UnitsMatchRunners'
    <3>1. Claimants' = Claimants /\ Unreleased' = Unreleased
      BY <1>1, <1>8 DEF WaitEnd, TypeOK, Claimants, Unreleased
    <3> QED
      BY <1>1, <1>8, <3>1 DEF WaitEnd, UnitsMatchRunners
  <2>3. ListFits'
    BY <1>1, <1>8 DEF WaitEnd, ListFits
  <2>4. RunnersPlaced'
    BY <1>1, <1>8 DEF WaitEnd, TypeOK, RunnersPlaced, InList, RunBy
  <2>5. PhasesMatch'
    BY <1>1, <1>8 DEF WaitEnd, TypeOK, PhasesMatch
  <2> QED
    BY <2>1, <2>2, <2>3, <2>4, <2>5 DEF PoolInvariant
<1>9. ASSUME NEW w \in Workers, WaitRunner(w) PROVE PoolInvariant'
  <2>1. TypeOK'
    <3>1. count' \in 0..MaxCount
      BY <1>1, <1>9, PoolAssumption DEF WaitRunner, TypeOK
    <3> QED
      BY <1>1, <1>9, <3>1 DEF WaitRunner, TypeOK
  <2>2. UnitsMatchRunners'
    <3>1. Claimants' = Claimants \cup {w} /\ w \notin Claimants
      BY <1>1, <1>9 DEF WaitRunner, TypeOK, Claimants
    <3>2. Cardinality(Claimants') = Cardinality(Claimants) + 1
      BY <1>1, <3>1, Countable, FS_AddElement, Zenon
    <3>3. Unreleased' = Unreleased /\ Unreleased \in Nat
      BY <1>9 DEF WaitRunner, Unreleased
    <3>4. count' = count - 1 /\ listRunner' = listRunner
      BY <1>9 DEF WaitRunner
    <3> QED
      BY <1>1, <1>c, <3>2, <3>3, <3>4, Countable DEF UnitsMatchRunners
  <2>3. ListFits'
    BY <1>1, <1>9 DEF WaitRunner, ListFits
  <2>4. RunnersPlaced'
    BY <1>1, <1>9 DEF WaitRunner, TypeOK, RunnersPlaced, InList, RunBy
  <2>5. PhasesMatch'
    BY <1>1, <1>9 DEF WaitRunner, TypeOK, PhasesMatch
  <2> QED
    BY <2>1, <2>2, <2>3, <2>4, <2>5 DEF PoolInvariant
<1>10. ASSUME NEW w \in Workers, hatchPop(w) PROVE PoolInvariant'
  <2>1. PICK r \in Runners :
          /\ job' = [job EXCEPT ![w] = r]
          /\ InList(r) /\ ~InList(r)'
          /\ \A q \in Runners : q # r => (InList(q)' <=> InList(q))
    BY <1>10, PopTakesHead
  <2>a. /\ UNCHANGED <<main, count, endEvent, pushed, returned>>
        /\ wpc' = [wpc EXCEPT ![w] = "run"]
        /\ listRunner' \in Seq(Runners) /\ Len(listRunner') = Len(listRunner) - 1
        /\ \A i, j \in DOMAIN listRunner' : listRunner'[i] = listRunner'[j] => i = j
    BY <1>10, PopTakesHead
  <2>2. TypeOK'
    BY <1>1, <2>1, <2>a DEF TypeOK
  <2>3. UnitsMatchRunners'
    <3>1. Claimants' = Claimants \ {w} /\ w \in Claimants
      BY <1>1, <1>10, <2>a DEF hatchPop, TypeOK, Claimants
    <3>2. Cardinality(Claimants') = Cardinality(Claimants) - 1
      BY <1>1, <3>1, Countable, FS_RemoveElement, Zenon
    <3>3. Unreleased' = Unreleased /\ Unreleased \in Nat
      BY <2>a DEF Unreleased
    <3>4. count + Cardinality(Claimants) + Unreleased = Len(listRunner)
      BY <1>1 DEF UnitsMatchRunners
    <3>5. count \in Nat /\ Len(listRunner) \in Nat /\ Cardinality(Claimants) \in Nat
      BY <1>1, Countable DEF TypeOK
    <3>6. count' = count /\ Len(listRunner') = Len(listRunner) - 1
      BY <2>a
    <3>7. ASSUME NEW c \in Nat, NEW u \in Nat, NEW n \in Nat, NEW l \in Nat, c + n + u = l
          PROVE  c + (n - 1) + u = l - 1
      BY <3>7
    <3>8. count + (Cardinality(Claimants) - 1) + Unreleased = Len(listRunner) - 1
      BY <3>3, <3>4, <3>5, <3>7
    <3> QED
      BY <3>2, <3>3, <3>6, <3>8, Zenon DEF UnitsMatchRunners
  <2>4. ListFits'
    BY <1>1, <2>a, Countable DEF ListFits
  <2>5. RunnersPlaced'
    <3>1. RunBy(w, r)' /\ \A q \in Runners : RunBy(w, q)' => q = r
      BY <1>1, <2>1, <2>a DEF RunBy, TypeOK
    <3>2. \A v \in Workers \ {w}, q \in Runners : RunBy(v, q)' <=> RunBy(v, q)
      BY <1>1, <2>1, <2>a DEF RunBy, TypeOK
    <3>3. r \in pushed \ returned /\ \A v \in Workers : ~RunBy(v, r)
      BY <1>1, <2>1 DEF RunnersPlaced
    <3>4. \A v \in Workers : (wpc[v] = "run" => job[v] \in Runners)'
      BY <1>1, <2>1, <2>a DEF RunnersPlaced, TypeOK
    <3>5. \A q \in pushed : q \in Runners
      BY <1>1 DEF TypeOK
    <3>6. \A q \in Runners : ~RunBy(w, q)
      BY <1>10 DEF hatchPop, RunBy
    <3>7. \A q \in Runners : InList(q)' => q \in pushed' \ returned'
      BY <1>1, <2>1, <2>a DEF RunnersPlaced
    <3>8. \A v \in Workers, q \in Runners :
             RunBy(v, q)' => q \in pushed' \ returned' /\ ~InList(q)'
      BY <1>1, <2>1, <2>a, <3>1, <3>2, <3>3, Zenon DEF RunnersPlaced
    <3>9. \A u, v \in Workers, q \in Runners : RunBy(u, q)' /\ RunBy(v, q)' => u = v
      BY <1>1, <3>1, <3>2, <3>3 DEF RunnersPlaced
    <3>10. \A q \in pushed' \ returned' : InList(q)' \/ \E v \in Workers : RunBy(v, q)'
      BY <1>1, <2>1, <2>a, <3>1, <3>2, <3>5, <3>6 DEF RunnersPlaced
    <3> QED
      BY <2>a, <3>4, <3>7, <3>8, <3>9, <3>10 DEF RunnersPlaced
  <2>6. PhasesMatch'
    BY <1>1, <1>10, <2>a DEF hatchPop, TypeOK, PhasesMatch
  <2> QED
    BY <2>2, <2>3, <2>4, <2>5, <2>6 DEF PoolInvariant
<1>11. ASSUME NEW w \in Workers, RunReturns(w) PROVE PoolInvariant'
  <2>1. TypeOK'
    <3>1. job[w] \in pushed
      BY <1>1, <1>11 DEF RunReturns, RunnersPlaced, RunBy
    <3> QED
      BY <1>1, <1>11, <3>1 DEF RunReturns, TypeOK
  <2>2. UnitsMatchRunners'
    <3>1. Claimants' = Claimants /\ Unreleased' = Unreleased
      BY <1>1, <1>11 DEF RunReturns, TypeOK, Claimants, Unreleased
    <3> QED
      BY <1>1, <1>11, <3>1 DEF RunReturns, UnitsMatchRunners
  <2>3. ListFits'
    BY <1>1, <1>11 DEF RunReturns, ListFits
  <2>4. RunnersPlaced'
    <3>1. job[w] \in Runners /\ RunBy(w, job[w])
      BY <1>1, <1>11 DEF RunReturns, RunnersPlaced, RunBy
    <3>2. \A q \in Runners : ~RunBy(w, q)'
      BY <1>1, <1>11 DEF RunReturns, TypeOK, RunBy
    <3>3. \A v \in Workers \ {w}, q \in Runners : RunBy(v, q)' <=> RunBy(v, q)
      BY <1>1, <1>11 DEF RunReturns, TypeOK, RunBy
    <3>4. \A q \in Runners : RunBy(w, q) => q = job[w]
      BY DEF RunBy
    <3>5. \A q \in Runners : InList(q)' <=> InList(q)
      BY <1>11 DEF RunReturns, InList
    <3>6. /\ pushed' = pushed /\ returned' = returned \cup {job[w]}
          /\ listRunner' = listRunner /\ pushed \subseteq Runners
      BY <1>1, <1>11 DEF RunReturns, TypeOK
    <3>7. \A v \in Workers : (wpc[v] = "run" => job[v] \in Runners)'
      BY <1>1, <1>11 DEF RunReturns, RunnersPlaced, TypeOK
    <3>8. ~InList(job[w])
      BY <1>1, <3>1 DEF RunnersPlaced
    <3>9. \A q \in Runners : InList(q)' => q \in pushed' \ returned'
      BY <1>1, <3>5, <3>6, <3>8 DEF RunnersPlaced
    <3>10. \A v \in Workers, q \in Runners :
             RunBy(v, q)' => q \in pushed' \ returned' /\ ~InList(q)'
      <4>1. SUFFICES ASSUME NEW v \in Workers, NEW q \in Runners, RunBy(v, q)'
                     PROVE  q \in pushed' \ returned' /\ ~InList(q)'
        OBVIOUS
      <4>2. v # w /\ RunBy(v, q)
        BY <3>2, <3>3, <4>1
      <4>3. q # job[w]
        BY <1>1, <3>1, <4>2 DEF RunnersPlaced
      <4> QED
        BY <1>1, <3>5, <3>6, <4>2, <4>3 DEF RunnersPlaced
    <3>11. \A u, v \in Workers, q \in Runners : RunBy(u, q)' /\ RunBy(v, q)' => u = v
      BY <1>1, <3>2, <3>3 DEF RunnersPlaced
    <3>12. \A q \in pushed' \ returned' : InList(q)' \/ \E v \in Workers : RunBy(v, q)'
      <4>1. SUFFICES ASSUME NEW q \in pushed' \ returned', ~InList(q)'
                     PROVE  \E v \in Workers : RunBy(v, q)'
        OBVIOUS
      <4>2. q \in pushed \ returned /\ q # job[w] /\ q \in Runners /\ ~InList(q)
        BY <3>5, <3>6, <4>1
      <4>3. PICK v \in Workers : RunBy(v, q)
        BY <1>1, <4>2 DEF RunnersPlaced
      <4>4. v # w
        BY <3>4, <4>2, <4>3
      <4> QED
        BY <3>3, <4>2, <4>3, <4>4
    <3>13. \A i, j \in DOMAIN listRunner' : listRunner'[i] = listRunner'[j] => i = j
      BY <1>1, <3>6 DEF RunnersPlaced
    <3> QED
      BY <3>7, <3>9, <3>10, <3>11, <3>12, <3>13 DEF RunnersPlaced
  <2>5. PhasesMatch'
    BY <1>1, <1>11 DEF RunReturns, TypeOK, PhasesMatch
  <2> QED
    BY <2>1, <2>2, <2>3, <2>4, <2>5 DEF PoolInvariant
<1>12. ASSUME UNCHANGED vars PROVE PoolInvariant'
  <2>1. /\ main' = main /\ listRunner' = listRunner /\ count' = count
        /\ endEvent' = endEvent /\ wpc' = wpc /\ job' = job
        /\ pushed' = pushed /\ returned' = returned
    BY <1>12 DEF vars
  <2>2. TypeOK'
    BY <1>1, <2>1 DEF TypeOK
  <2>3. UnitsMatchRunners'
    BY <1>1, <2>1 DEF UnitsMatchRunners, Claimants, Unreleased
  <2>4. ListFits'
    BY <1>1, <2>1, Zenon DEF ListFits
  <2>5. RunnersPlaced'
    <3>1. \A r \in Runners : InList(r)' <=> InList(r)
      BY <2>1 DEF InList
    <3>2. \A w \in Workers, r \in Runners : RunBy(w, r)' <=> RunBy(w, r)
      BY <2>1 DEF RunBy
    <3>3. pushed \subseteq Runners
      BY <1>1 DEF TypeOK
    <3> QED
      BY <1>1, <2>1, <3>1, <3>2, <3>3 DEF RunnersPlaced
  <2>6. PhasesMatch'
    BY <1>1, <2>1 DEF PhasesMatch
  <2> QED
    BY <2>2, <2>3, <2>4, <2>5, <2>6 DEF PoolInvariant
<1> QED
  BY <1>2, <1>3, <1>4, <1>5, <1>6, <1>7, <1>8, <1>9, <1>10, <1>11, <1>12
  DEF Next, Main, Worker, Over

\* The pool's invariant holds in every reachable state: the semaphore counts
\* the queued runners, and no runner is lost or doubled.
THEOREM PoolInvariantHolds == Spec => []PoolInvariant
<1> QED
  BY InitPoolInvariant, NextPoolInvariant, PTL DEF Spec

\* hatchPop never gives NULL to a worker the semaphore woke.
THEOREM WokenWorkerFindsRunner == Spec => []PopFindsRunner
<1>1. PoolInvariant => PopFindsRunner
  BY WokenFindsRunner DEF PopFindsRunner
<1> QED
  BY <1>1, PoolInvariantHolds, PTL

\* The initial state of the pool is one of TaskPool.
LEMMA InitImplementsPool == Init => Pool!PoolInit
  BY DEF Init, Pool!PoolInit, Task

\* A step that moves no runner and does not touch the end of the pool is no
\* step of TaskPool.
LEMMA PoolStutters ==
  ASSUME UNCHANGED <<listRunner, pushed, returned, endEvent>>,
         (main = "returned")' <=> main = "returned"
  PROVE  UNCHANGED Pool!poolVars
<1>1. Task' = Task
  BY DEF Task, InList
<1>2. (main = "returned")' = (main = "returned")
  OBVIOUS
<1> QED
  BY <1>1, <1>2 DEF Pool!poolVars

\* Every step of the pool is a step of TaskPool or changes nothing there.
LEMMA StepImplementsPool ==
  ASSUME PoolInvariant, [Next]_vars
  PROVE  [Pool!PoolNext]_(Pool!poolVars)
<1>1. TypeOK /\ RunnersPlaced /\ PhasesMatch
  BY DEF PoolInvariant
<1>2. ASSUME NEW w \in Workers, CreateThread(w) PROVE UNCHANGED Pool!poolVars
  BY <1>2, PoolStutters DEF CreateThread
<1>3. CASE CreateFails
  BY <1>3, PoolStutters DEF CreateFails
<1>4. ASSUME NEW r \in Runners, hatchPush(r) PROVE Pool!PoolPush(r)
  <2>1. \A q \in Runners : InList(q)' <=> InList(q) \/ q = r
    BY <1>4, PushAddsRunner
  <2>2. pushed' = pushed \cup {r} /\ r \notin pushed /\ returned' = returned
    BY <1>4 DEF hatchPush
  <2>3. Task[r] = "new" /\ Task'[r] = "queued"
    BY <2>1, <2>2 DEF Task
  <2>4. \A q \in Runners : q # r => Task'[q] = Task[q]
    BY <2>1, <2>2 DEF Task
  <2>5. Task' = [Task EXCEPT ![r] = "queued"]
    BY <2>3, <2>4, Zenon DEF Task
  <2>6. ~endEvent /\ endEvent' = endEvent /\ main # "returned" /\ main' # "returned"
    BY <1>1, <1>4 DEF hatchPush, PhasesMatch
  <2> QED
    BY <2>3, <2>5, <2>6 DEF Pool!PoolPush
<1>5. CASE hatchReleaseSemaphore
  BY <1>5, PoolStutters DEF hatchReleaseSemaphore
<1>6. CASE hatchEnd
  <2>1. Task' = Task
    BY <1>6 DEF hatchEnd, Task, InList
  <2>2. ~endEvent /\ endEvent' = TRUE /\ main # "returned" /\ main' # "returned"
    BY <1>1, <1>6 DEF hatchEnd, PhasesMatch
  <2>3. (main = "returned")' = (main = "returned")
    BY <2>2
  <2>4. Pool!PoolEnd
    BY <2>1, <2>2, <2>3 DEF Pool!PoolEnd
  <2> QED
    BY <2>4 DEF Pool!PoolNext
<1>7. CASE hatchWaitThreadEnd
  <2>1. Task' = Task
    BY <1>7 DEF hatchWaitThreadEnd, Task, InList
  <2>2. endEvent /\ endEvent' = endEvent /\ main # "returned" /\ main' = "returned"
    BY <1>1, <1>7 DEF hatchWaitThreadEnd, PhasesMatch
  <2>3. ASSUME NEW r \in Runners PROVE Task[r] # "running"
    <3>1. \A w \in Workers : ~RunBy(w, r)
      BY <1>7 DEF hatchWaitThreadEnd, RunBy
    <3>2. r \in pushed \ returned => InList(r)
      BY <1>1, <3>1 DEF RunnersPlaced
    <3> QED
      BY <3>2 DEF Task
  <2>4. (main = "returned")' = TRUE
    BY <2>2
  <2>5. Pool!PoolEndReturns
    BY <2>1, <2>2, <2>3, <2>4 DEF Pool!PoolEndReturns
  <2> QED
    BY <2>5 DEF Pool!PoolNext
<1>8. ASSUME NEW w \in Workers, WaitEnd(w) PROVE UNCHANGED Pool!poolVars
  BY <1>8, PoolStutters DEF WaitEnd
<1>9. ASSUME NEW w \in Workers, WaitRunner(w) PROVE UNCHANGED Pool!poolVars
  BY <1>9, PoolStutters DEF WaitRunner
<1>10. ASSUME NEW w \in Workers, hatchPop(w) PROVE \E r \in Runners : Pool!PoolStart(r)
  <2>1. PICK r \in Runners :
          /\ InList(r) /\ ~InList(r)'
          /\ \A q \in Runners : q # r => (InList(q)' <=> InList(q))
    BY <1>10, PopTakesHead
  <2>2. UNCHANGED <<main, endEvent, pushed, returned>>
    BY <1>10, PopTakesHead
  <2>3. r \in pushed \ returned
    BY <1>1, <2>1 DEF RunnersPlaced
  <2>4. Task[r] = "queued" /\ Task'[r] = "running"
    BY <2>1, <2>2, <2>3 DEF Task
  <2>5. \A q \in Runners : q # r => Task'[q] = Task[q]
    BY <2>1, <2>2 DEF Task
  <2>6. Task' = [Task EXCEPT ![r] = "running"]
    BY <2>4, <2>5, Zenon DEF Task
  <2>7. main # "returned"
    BY <1>1, <1>10 DEF hatchPop, PhasesMatch
  <2> QED
    BY <2>2, <2>4, <2>6, <2>7, Zenon DEF Pool!PoolStart
<1>11. ASSUME NEW w \in Workers, RunReturns(w) PROVE \E r \in Runners : Pool!PoolFinish(r)
  <2>1. PICK r \in Runners : r = job[w] /\ RunBy(w, r)
    BY <1>1, <1>11 DEF RunReturns, RunnersPlaced, RunBy
  <2>2. r \in pushed \ returned /\ ~InList(r)
    BY <1>1, <2>1 DEF RunnersPlaced
  <2>3. /\ UNCHANGED <<main, listRunner, endEvent, pushed>>
        /\ returned' = returned \cup {r}
    BY <1>11, <2>1 DEF RunReturns
  <2>4. \A q \in Runners : InList(q)' <=> InList(q)
    BY <2>3 DEF InList
  <2>5. Task[r] = "running" /\ Task'[r] = "done"
    BY <2>2, <2>3, <2>4 DEF Task
  <2>6. \A q \in Runners : q # r => Task'[q] = Task[q]
    BY <2>3, <2>4 DEF Task
  <2>7. Task' = [Task EXCEPT ![r] = "done"]
    BY <2>5, <2>6, Zenon DEF Task
  <2> QED
    BY <2>3, <2>5, <2>7, Zenon DEF Pool!PoolFinish
<1>12. CASE UNCHANGED vars
  BY <1>12, PoolStutters DEF vars
<1> QED
  BY <1>2, <1>3, <1>4, <1>5, <1>6, <1>7, <1>8, <1>9, <1>10, <1>11, <1>12, Zenon
  DEF Next, Main, Worker, Over, Pool!PoolNext

\* The thread pool implements TaskPool: a runner is started at most once,
\* hatchEnd returns only when none is running, and none starts afterwards.
THEOREM PoolImplementsTaskPool == Spec => ImplementsTaskPool
<1>1. PoolInvariant /\ [Next]_vars => [Pool!PoolNext]_(Pool!poolVars)
  BY StepImplementsPool
<1> QED
  BY <1>1, InitImplementsPool, PoolInvariantHolds, PTL
  DEF Spec, ImplementsTaskPool, Pool!PoolSpec
=============================================================================
