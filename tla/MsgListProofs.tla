--------------------------- MODULE MsgListProofs ---------------------------
(***************************************************************************)
(* The message list is correct for any number of producers, any finite     *)
(* number of consumers, any messages and any length: ListInvariant is      *)
(* inductive, no pop meets an empty queue, the length is bounded, and the  *)
(* list implements BoundedFifo.                                            *)
(***************************************************************************)
EXTENDS MsgList, FiniteSetTheorems, SequenceTheorems, TLAPS

\* Initially the invariant of the list holds (hatchInitializeGlobalVar creates
\* the semaphore with count 0 beside an empty list).
LEMMA InitListInvariant == Init => ListInvariant
<1> SUFFICES ASSUME Init PROVE ListInvariant
  OBVIOUS
<1> USE ThreadAssumption, MsgAssumption, LengthAssumption DEF Init, Threads
<1>1. TypeOK
  BY DEF TypeOK, ProducerLabels, ConsumerLabels
<1>2. Exclusive
  BY DEF Exclusive, Inside
<1>3. HandsMatch
  BY DEF HandsMatch, Inside
<1>4. UnitsMatchMessages
  <2>1. Claimants = {}
    BY DEF Claimants
  <2>2. Promised = 0
    BY DEF Promised
  <2> QED
    BY <2>1, <2>2, FS_EmptySet DEF UnitsMatchMessages
<1> QED
  BY <1>1, <1>2, <1>3, <1>4 DEF ListInvariant

\* Taking a unit makes a consumer a claimant: one more than before.
LEMMA ClaimantJoins ==
  ASSUME TypeOK, NEW c \in Consumers, pc[c] = "wait", pc' = [pc EXCEPT ![c] = "enter"]
  PROVE  Cardinality(Claimants') = Cardinality(Claimants) + 1
<1>1. Claimants' = Claimants \cup {c} /\ c \notin Claimants
  BY DEF Claimants, TypeOK, Threads
<1>2. IsFiniteSet(Claimants)
  BY FS_Subset, ThreadAssumption DEF Claimants
<1> QED
  BY <1>1, <1>2, FS_AddElement, Zenon

\* A pop ends a claim: one claimant less.
LEMMA ClaimantLeaves ==
  ASSUME TypeOK, NEW c \in Consumers, pc[c] = "pop", pc' = [pc EXCEPT ![c] = "leave"]
  PROVE  Cardinality(Claimants') = Cardinality(Claimants) - 1
<1>1. Claimants' = Claimants \ {c} /\ c \in Claimants
  BY DEF Claimants, TypeOK, Threads
<1>2. IsFiniteSet(Claimants)
  BY FS_Subset, ThreadAssumption DEF Claimants
<1> QED
  BY <1>1, <1>2, FS_RemoveElement

\* The number of claimants is a natural number, at most the number of consumers.
LEMMA ClaimantsFinite ==
  /\ IsFiniteSet(Claimants)
  /\ Cardinality(Claimants) \in Nat
  /\ Cardinality(Consumers) \in Nat
  /\ Cardinality(Claimants) <= Cardinality(Consumers)
  /\ \A c \in Claimants : Cardinality(Claimants) >= 1
<1>1. IsFiniteSet(Claimants) /\ Cardinality(Claimants) <= Cardinality(Consumers)
  BY FS_Subset, ThreadAssumption DEF Claimants
<1>2. Cardinality(Claimants) \in Nat /\ Cardinality(Consumers) \in Nat
  BY <1>1, FS_CardinalityType, ThreadAssumption
<1>3. ASSUME NEW c \in Claimants PROVE Cardinality(Claimants) >= 1
  BY <1>1, <1>2, FS_EmptySet
<1> QED
  BY <1>1, <1>2, <1>3

\* Whoever pops finds a message: the popper is a claimant, and no producer is
\* between release and push while the popper owns the critical section.
LEMMA PopFindsMessage ==
  ASSUME ListInvariant, NEW c \in Consumers, pc[c] = "pop"
  PROVE  list # <<>> /\ Promised = 0
<1>1. c \in Claimants
  BY DEF Claimants
<1>2. owner = c
  BY DEF ListInvariant, Exclusive, Inside, Threads
<1>3. Promised = 0
  <2>1. ASSUME NEW p \in Producers PROVE pc[p] # "push"
    BY <1>2, ThreadAssumption DEF ListInvariant, Exclusive, Inside, Threads
  <2> QED
    BY <2>1 DEF Promised
<1>4. Len(list) >= 1
  BY <1>1, <1>3, ClaimantsFinite DEF ListInvariant, UnitsMatchMessages, TypeOK
<1> QED
  BY <1>3, <1>4, EmptySeq

\* Every step of every thread keeps the invariant of the list.
LEMMA NextListInvariant == ListInvariant /\ [Next]_vars => ListInvariant'
<1> SUFFICES ASSUME ListInvariant, [Next]_vars PROVE ListInvariant'
  OBVIOUS
<1> USE ThreadAssumption, MsgAssumption, LengthAssumption
<1> USE DEF Threads, ProducerLabels, ConsumerLabels, Goto
<1>1. TypeOK /\ Exclusive /\ HandsMatch /\ UnitsMatchMessages
  BY DEF ListInvariant
<1>2. ASSUME NEW p \in Producers, NEW m \in Msg, EnterPush(p, m) PROVE ListInvariant'
  <2>1. TypeOK'
    BY <1>1, <1>2 DEF EnterPush, TypeOK
  <2>2. Exclusive'
    BY <1>1, <1>2 DEF EnterPush, TypeOK, Exclusive, Inside
  <2>3. HandsMatch'
    BY <1>1, <1>2 DEF EnterPush, TypeOK, HandsMatch, Inside
  <2>4. Claimants' = Claimants /\ Promised' = Promised
    BY <1>1, <1>2 DEF EnterPush, TypeOK, Claimants, Promised
  <2>5. UnitsMatchMessages'
    BY <1>1, <1>2, <2>4 DEF EnterPush, UnitsMatchMessages
  <2> QED
    BY <2>1, <2>2, <2>3, <2>5 DEF ListInvariant
<1>3. ASSUME NEW p \in Producers, Release(p) PROVE ListInvariant'
  <2>1. TypeOK'
    BY <1>1, <1>3 DEF Release, TypeOK
  <2>2. Exclusive'
    BY <1>1, <1>3 DEF Release, TypeOK, Exclusive, Inside
  <2>3. HandsMatch'
    BY <1>1, <1>3 DEF Release, TypeOK, HandsMatch, Inside
  <2>4. Claimants' = Claimants
    BY <1>1, <1>3 DEF Release, TypeOK, Claimants
  <2>5. Promised = 0
    BY <1>1, <1>3 DEF Release, Promised, Exclusive, Inside
  <2>6. UnitsMatchMessages'
    <3>1. CASE count < MaxLength
      <4>1. Promised' = 1
        BY <1>1, <1>3, <3>1 DEF Release, TypeOK, Promised
      <4> QED
        BY <1>1, <1>3, <2>4, <2>5, <3>1, <4>1, ClaimantsFinite
        DEF Release, TypeOK, UnitsMatchMessages
    <3>2. CASE ~(count < MaxLength)
      <4>1. Promised' = 0
        BY <1>1, <1>3, <2>5, <3>2 DEF Release, TypeOK, Promised
      <4> QED
        BY <1>1, <1>3, <2>4, <2>5, <3>2, <4>1 DEF Release, UnitsMatchMessages
    <3> QED
      BY <3>1, <3>2
  <2> QED
    BY <2>1, <2>2, <2>3, <2>6 DEF ListInvariant
<1>4. ASSUME NEW p \in Producers, Push(p) PROVE ListInvariant'
  <2>1. hand[p] \in Msg
    BY <1>1, <1>4 DEF Push, HandsMatch, Inside
  <2>2. TypeOK'
    BY <1>1, <1>4, <2>1, AppendProperties DEF Push, TypeOK
  <2>3. Exclusive'
    BY <1>1, <1>4 DEF Push, TypeOK, Exclusive, Inside
  <2>4. HandsMatch'
    BY <1>1, <1>4 DEF Push, TypeOK, HandsMatch, Inside
  <2>5. Claimants' = Claimants
    BY <1>1, <1>4 DEF Push, TypeOK, Claimants
  <2>6. Promised = 1
    BY <1>4 DEF Push, Promised
  <2>7. Promised' = 0
    <3>1. ASSUME NEW o \in Producers PROVE pc'[o] # "push"
      BY <1>1, <1>4 DEF Push, TypeOK, Exclusive, Inside
    <3> QED
      BY <3>1 DEF Promised
  <2>8. Len(list') = Len(list) + 1
    BY <1>1, <1>4, <2>1, AppendProperties DEF Push, TypeOK
  <2>9. UnitsMatchMessages'
    BY <1>1, <1>4, <2>5, <2>6, <2>7, <2>8, ClaimantsFinite, LenProperties
    DEF Push, TypeOK, UnitsMatchMessages
  <2> QED
    BY <2>2, <2>3, <2>4, <2>9 DEF ListInvariant
<1>5. ASSUME NEW p \in Producers, LeavePush(p) PROVE ListInvariant'
  <2>1. TypeOK'
    BY <1>1, <1>5 DEF LeavePush, TypeOK
  <2>2. Exclusive'
    BY <1>1, <1>5 DEF LeavePush, TypeOK, Exclusive, Inside
  <2>3. HandsMatch'
    BY <1>1, <1>5 DEF LeavePush, TypeOK, HandsMatch, Inside
  <2>4. Claimants' = Claimants /\ Promised' = Promised
    BY <1>1, <1>5 DEF LeavePush, TypeOK, Claimants, Promised
  <2>5. UnitsMatchMessages'
    BY <1>1, <1>5, <2>4 DEF LeavePush, UnitsMatchMessages
  <2> QED
    BY <2>1, <2>2, <2>3, <2>5 DEF ListInvariant
<1>6. ASSUME NEW c \in Consumers, WaitSemaphore(c) PROVE ListInvariant'
  <2>1. TypeOK'
    BY <1>1, <1>6 DEF WaitSemaphore, TypeOK
  <2>2. Exclusive'
    BY <1>1, <1>6 DEF WaitSemaphore, TypeOK, Exclusive, Inside
  <2>3. HandsMatch'
    BY <1>1, <1>6 DEF WaitSemaphore, TypeOK, HandsMatch, Inside
  <2>4. Cardinality(Claimants') = Cardinality(Claimants) + 1
    BY <1>1, <1>6, ClaimantJoins, Zenon DEF WaitSemaphore
  <2>5. Promised' = Promised
    BY <1>1, <1>6 DEF WaitSemaphore, TypeOK, Promised
  <2>6. UnitsMatchMessages'
    BY <1>1, <1>6, <2>4, <2>5, ClaimantsFinite DEF WaitSemaphore, TypeOK, UnitsMatchMessages
  <2> QED
    BY <2>1, <2>2, <2>3, <2>6 DEF ListInvariant
<1>7. ASSUME NEW c \in Consumers, EnterPop(c) PROVE ListInvariant'
  <2>1. TypeOK'
    BY <1>1, <1>7 DEF EnterPop, TypeOK
  <2>2. Exclusive'
    BY <1>1, <1>7 DEF EnterPop, TypeOK, Exclusive, Inside
  <2>3. HandsMatch'
    BY <1>1, <1>7 DEF EnterPop, TypeOK, HandsMatch, Inside
  <2>4. Claimants' = Claimants /\ Promised' = Promised
    BY <1>1, <1>7 DEF EnterPop, TypeOK, Claimants, Promised
  <2>5. UnitsMatchMessages'
    BY <1>1, <1>7, <2>4 DEF EnterPop, UnitsMatchMessages
  <2> QED
    BY <2>1, <2>2, <2>3, <2>5 DEF ListInvariant
<1>8. ASSUME NEW c \in Consumers, Pop(c) PROVE ListInvariant'
  <2>1. list # <<>> /\ Promised = 0
    BY <1>8, PopFindsMessage DEF Pop
  <2>2. /\ hand' = [hand EXCEPT ![c] = Head(list)] /\ list' = Tail(list)
        /\ Head(list) \in Msg /\ list' \in Seq(Msg) /\ Len(list') = Len(list) - 1
    BY <1>1, <1>8, <2>1, HeadTailProperties DEF Pop, Front, PopFront, TypeOK
  <2>3. TypeOK'
    BY <1>1, <1>8, <2>2 DEF Pop, TypeOK
  <2>4. Exclusive'
    BY <1>1, <1>8 DEF Pop, TypeOK, Exclusive, Inside
  <2>5. HandsMatch'
    BY <1>1, <1>8, <2>2 DEF Pop, TypeOK, HandsMatch, Inside
  <2>6. Cardinality(Claimants') = Cardinality(Claimants) - 1
    BY <1>1, <1>8, ClaimantLeaves, Zenon DEF Pop
  <2>7. Promised' = 0
    BY <1>1, <1>8, <2>1 DEF Pop, TypeOK, Promised
  <2>8. UnitsMatchMessages'
    <3>1. count' = count /\ count \in Nat
      BY <1>1, <1>8 DEF Pop, TypeOK
    <3>2. Len(list) \in Nat /\ Cardinality(Claimants) \in Nat
      BY <1>1, ClaimantsFinite, LenProperties DEF TypeOK
    <3>3. Len(list') = Len(list) - 1
      BY <2>2
    <3>4. count + Cardinality(Claimants) = Len(list) + 0
      BY <1>1, <2>1 DEF UnitsMatchMessages
    <3>5. count' + Cardinality(Claimants') = Len(list') + 0
      BY <2>6, <3>1, <3>2, <3>3, <3>4
    <3> QED
      BY <2>7, <3>5 DEF UnitsMatchMessages
  <2> QED
    BY <2>3, <2>4, <2>5, <2>8 DEF ListInvariant
<1>9. ASSUME NEW c \in Consumers, LeavePop(c) PROVE ListInvariant'
  <2>1. TypeOK'
    BY <1>1, <1>9 DEF LeavePop, TypeOK
  <2>2. Exclusive'
    BY <1>1, <1>9 DEF LeavePop, TypeOK, Exclusive, Inside
  <2>3. HandsMatch'
    BY <1>1, <1>9 DEF LeavePop, TypeOK, HandsMatch, Inside
  <2>4. Claimants' = Claimants /\ Promised' = Promised
    BY <1>1, <1>9 DEF LeavePop, TypeOK, Claimants, Promised
  <2>5. UnitsMatchMessages'
    BY <1>1, <1>9, <2>4, Zenon DEF LeavePop, UnitsMatchMessages
  <2> QED
    BY <2>1, <2>2, <2>3, <2>5 DEF ListInvariant
<1>10. ASSUME NEW c \in Consumers, Handle(c) PROVE ListInvariant'
  <2>1. TypeOK'
    BY <1>1, <1>10 DEF Handle, TypeOK
  <2>2. Exclusive'
    BY <1>1, <1>10 DEF Handle, TypeOK, Exclusive, Inside
  <2>3. HandsMatch'
    BY <1>1, <1>10 DEF Handle, TypeOK, HandsMatch, Inside
  <2>4. Claimants' = Claimants /\ Promised' = Promised
    BY <1>1, <1>10 DEF Handle, TypeOK, Claimants, Promised
  <2>5. UnitsMatchMessages'
    BY <1>1, <1>10, <2>4 DEF Handle, UnitsMatchMessages
  <2> QED
    BY <2>1, <2>2, <2>3, <2>5 DEF ListInvariant
<1>11. CASE UNCHANGED vars
  <2>1. TypeOK' /\ Exclusive' /\ HandsMatch'
    BY <1>1, <1>11 DEF vars, TypeOK, Exclusive, HandsMatch, Inside
  <2>2. UnitsMatchMessages'
    BY <1>1, <1>11 DEF vars, UnitsMatchMessages, Claimants, Promised
  <2> QED
    BY <2>1, <2>2 DEF ListInvariant
<1> QED
  BY <1>2, <1>3, <1>4, <1>5, <1>6, <1>7, <1>8, <1>9, <1>10, <1>11
  DEF Next, Producer, Consumer

\* The list's invariant always holds: the critical section is exclusive, and
\* the semaphore's units and the messages of the list agree.
THEOREM ListInvariantHolds == Spec => []ListInvariant
BY InitListInvariant, NextListInvariant, PTL DEF Spec

\* The semaphore's count stays between 0 and the list's maximum, the list holds
\* messages only and every thread is at a place of its own kind, for any threads.
THEOREM ListTypesHold == Spec => []TypeOK
<1>1. ListInvariant => TypeOK
  BY DEF ListInvariant
<1> QED
  BY ListInvariantHolds, <1>1, PTL

\* front() and pop() of hatchPop...MsgList never meet an empty queue.
THEOREM PopIsDefined == Spec => []PopDefined
<1> DEFINE Inv == ListInvariant /\ PopDefined
<1>1. Init => Inv
  BY InitListInvariant, MsgAssumption DEF Init, PopDefined
<1>2. Inv /\ [Next]_vars => Inv'
  <2> SUFFICES ASSUME Inv, [Next]_vars PROVE PopDefined'
    BY NextListInvariant
  <2> USE MsgAssumption DEF PopDefined, Goto, Threads
  <2>1. TypeOK
    BY DEF ListInvariant
  <2>2. ASSUME NEW p \in Producers, Producer(p) PROVE PopDefined'
    BY <2>1, <2>2 DEF Producer, EnterPush, Release, Push, LeavePush, TypeOK
  <2>3. ASSUME NEW c \in Consumers, Pop(c) PROVE PopDefined'
    <3>1. list # <<>>
      BY <2>3, PopFindsMessage DEF Pop
    <3>2. Head(list) \in Msg
      BY <2>1, <3>1, HeadTailProperties DEF TypeOK
    <3> QED
      BY <2>1, <2>3, <3>1, <3>2 DEF Pop, Front, TypeOK
  <2>4. ASSUME NEW c \in Consumers, WaitSemaphore(c) \/ EnterPop(c) \/ LeavePop(c) \/ Handle(c)
        PROVE  PopDefined'
    BY <2>1, <2>4 DEF WaitSemaphore, EnterPop, LeavePop, Handle, TypeOK
  <2>5. CASE UNCHANGED vars
    BY <2>5 DEF vars
  <2> QED
    BY <2>2, <2>3, <2>4, <2>5 DEF Next, Consumer
<1> QED
  BY <1>1, <1>2, PTL DEF Spec

\* The list never holds more than MaxLength messages and one per consumer.
THEOREM LengthIsBounded == Spec => []LengthBounded
<1>1. ListInvariant => LengthBounded
  BY ClaimantsFinite, LenProperties, LengthAssumption
  DEF ListInvariant, TypeOK, UnitsMatchMessages, LengthBounded, Promised
<1> QED
  BY <1>1, ListInvariantHolds, PTL

-----------------------------------------------------------------------------
(* The list implements BoundedFifo. *)

\* The initial state of the list is one of the FIFO.
LEMMA InitImplements == Init => Fifo!Init
BY ThreadAssumption DEF Init, Fifo!Init, Answer, Threads

\* Every step of the list is a step of the FIFO or leaves what the FIFO shows
\* unchanged.
LEMMA StepImplements == ListInvariant /\ PopDefined /\ [Next]_vars => [Fifo!Next]_(Fifo!vars)
<1> SUFFICES ASSUME ListInvariant, PopDefined, [Next]_vars PROVE [Fifo!Next]_(Fifo!vars)
  OBVIOUS
<1> USE ThreadAssumption, MsgAssumption DEF Threads, Goto
<1>1. TypeOK /\ Exclusive /\ HandsMatch /\ UnitsMatchMessages
  BY DEF ListInvariant
<1> DEFINE Got == [c \in Consumers |-> hand[c]]
<1>2. ASSUME NEW p \in Producers, NEW m \in Msg, EnterPush(p, m)
      PROVE  UNCHANGED Fifo!vars
  <2>1. Answer' = Answer
    BY <1>1, <1>2 DEF EnterPush, Answer, TypeOK
  <2>2. Got' = Got
    BY <1>1, <1>2 DEF EnterPush, TypeOK
  <2> QED
    BY <1>2, <2>1, <2>2 DEF EnterPush, Fifo!vars
<1>3. ASSUME NEW p \in Producers, Release(p) PROVE [Fifo!Next]_(Fifo!vars)
  <2>1. Got' = Got /\ list' = list
    BY <1>3 DEF Release
  <2>2. CASE count < MaxLength
    <3>1. Answer' = Answer
      BY <1>1, <1>3, <2>2 DEF Release, Answer, TypeOK
    <3> QED
      BY <2>1, <3>1 DEF Fifo!vars
  <2>3. CASE ~(count < MaxLength)
    <3>1. Answer[p] = "none" /\ Answer' = [Answer EXCEPT ![p] = "full"]
      <4>1. pc[p] = "release" /\ pc' = [pc EXCEPT ![p] = "leave"] /\ ret' = [ret EXCEPT ![p] = -1]
        BY <1>3, <2>3 DEF Release
      <4>2. ret'[p] # 0 /\ \A o \in Producers : o # p => ret'[o] = ret[o]
        BY <1>1, <4>1 DEF TypeOK
      <4>3. pc'[p] = "leave" /\ \A o \in Producers : o # p => pc'[o] = pc[o]
        BY <1>1, <4>1 DEF TypeOK
      <4>4. Answer[p] = "none" /\ Answer'[p] = "full"
        BY <4>1, <4>2, <4>3 DEF Answer
      <4>5. \A o \in Producers : o # p => Answer'[o] = Answer[o]
        BY <4>2, <4>3 DEF Answer
      <4> QED
        BY <4>4, <4>5, Zenon DEF Answer
    <3>2. Promised = 0
      BY <1>1, <1>3 DEF Release, Promised, Exclusive, Inside
    <3>3. Len(list) >= MaxLength
      <4>1. count = MaxLength /\ MaxLength \in Nat
        BY <1>1, <2>3, LengthAssumption DEF TypeOK
      <4>2. Len(list) \in Nat /\ Cardinality(Claimants) \in Nat
        BY <1>1, ClaimantsFinite, LenProperties DEF TypeOK
      <4> QED
        BY <1>1, <3>2, <4>1, <4>2 DEF UnitsMatchMessages
    <3>4. Fifo!Refuse(p)
      BY <2>1, <3>1, <3>3 DEF Fifo!Refuse
    <3> QED
      BY <3>4 DEF Fifo!Next
  <2> QED
    BY <2>2, <2>3
<1>4. ASSUME NEW p \in Producers, Push(p) PROVE [Fifo!Next]_(Fifo!vars)
  <2>1. hand[p] \in Msg
    BY <1>1, <1>4 DEF Push, HandsMatch, Inside
  <2>2. Got' = Got /\ list' = Append(list, hand[p])
    BY <1>4 DEF Push
  <2>3. ret[p] = 0 => Answer[p] = "none" /\ Answer' = [Answer EXCEPT ![p] = "stored"]
    BY <1>1, <1>4, Zenon DEF Push, Answer, TypeOK
  <2>4. Promised = 1
    BY <1>4 DEF Push, Promised
  <2>5. Len(list) < MaxLength + Cardinality(Consumers)
    BY <1>1, <2>4, ClaimantsFinite, LenProperties, LengthAssumption
    DEF UnitsMatchMessages, TypeOK
  <2>6. ret[p] = 0
    BY <1>1, <1>4 DEF Push, HandsMatch
  <2>7. Fifo!Store(p, hand[p])
    BY <2>2, <2>3, <2>5, <2>6 DEF Fifo!Store
  <2> QED
    BY <2>1, <2>7 DEF Fifo!Next
<1>5. ASSUME NEW p \in Producers, LeavePush(p) PROVE [Fifo!Next]_(Fifo!vars)
  <2>1. Got' = Got /\ list' = list
    BY <1>1, <1>5 DEF LeavePush, TypeOK
  <2>2. Answer[p] # "none" /\ Answer' = [Answer EXCEPT ![p] = "none"]
    BY <1>1, <1>5, Zenon DEF LeavePush, Answer, TypeOK
  <2>3. Fifo!Return(p)
    BY <2>1, <2>2 DEF Fifo!Return
  <2> QED
    BY <2>3 DEF Fifo!Next
<1>6. ASSUME NEW c \in Consumers, WaitSemaphore(c) \/ EnterPop(c) \/ LeavePop(c)
      PROVE  UNCHANGED Fifo!vars
  <2>1. Answer' = Answer
    BY <1>1, <1>6 DEF WaitSemaphore, EnterPop, LeavePop, Answer, TypeOK
  <2> QED
    BY <1>6, <2>1, Zenon DEF WaitSemaphore, EnterPop, LeavePop, Fifo!vars
<1>7. ASSUME NEW c \in Consumers, Pop(c) PROVE [Fifo!Next]_(Fifo!vars)
  <2>1. list # <<>>
    BY <1>7, PopFindsMessage DEF Pop
  <2>2. Answer' = Answer
    BY <1>1, <1>7 DEF Pop, Answer, TypeOK
  <2>3. Got[c] = NoMsg
    BY <1>1, <1>7 DEF Pop, HandsMatch
  <2>4. hand' = [hand EXCEPT ![c] = Head(list)] /\ list' = Tail(list)
    BY <1>7, <2>1 DEF Pop, Front, PopFront
  <2>5. Got' = [Got EXCEPT ![c] = Head(list)]
    BY <1>1, <2>4, Zenon DEF TypeOK
  <2>6. Fifo!Take(c)
    BY <2>1, <2>2, <2>3, <2>4, <2>5 DEF Fifo!Take
  <2> QED
    BY <2>6 DEF Fifo!Next
<1>8. ASSUME NEW c \in Consumers, Handle(c) PROVE [Fifo!Next]_(Fifo!vars)
  <2>1. Answer' = Answer /\ list' = list
    BY <1>1, <1>8 DEF Handle, Answer, TypeOK
  <2>2. Got[c] # NoMsg
    BY <1>1, <1>8 DEF Handle, HandsMatch
  <2>3. Got' = [Got EXCEPT ![c] = NoMsg]
    BY <1>1, <1>8, Zenon DEF Handle, TypeOK
  <2>4. Fifo!Finish(c)
    BY <2>1, <2>2, <2>3 DEF Fifo!Finish
  <2> QED
    BY <2>4 DEF Fifo!Next
<1>9. CASE UNCHANGED vars
  BY <1>9 DEF vars, Fifo!vars, Answer
<1> QED
  BY <1>2, <1>3, <1>4, <1>5, <1>6, <1>7, <1>8, <1>9 DEF Next, Producer, Consumer

\* Every behaviour of the list is one of the bounded FIFO: nothing is lost,
\* invented, duplicated or reordered, and a push fails only on a full list.
THEOREM ListImplementsFifo == Spec => ImplementsFifo
BY InitImplements, StepImplements, ListInvariantHolds, PopIsDefined, PTL
DEF Spec, ImplementsFifo, Fifo!Spec
=============================================================================
