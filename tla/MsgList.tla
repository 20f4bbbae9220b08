------------------------------ MODULE MsgList ------------------------------
(***************************************************************************)
(* One message list of hatchNet (receive, send or temp; hatchGlobal.cpp):  *)
(* a std::queue, the critical section that guards it and the counting      *)
(* semaphore its consumer waits on.  A push releases the semaphore and     *)
(* then stores the message, both inside the critical section; a consumer   *)
(* first takes a unit of the semaphore and only then enters the critical   *)
(* section, where it calls front() and pop() without looking whether the   *)
(* queue is empty.  One action per call on one of the three objects.       *)
(***************************************************************************)
EXTENDS Integers, Sequences, FiniteSets

CONSTANTS Producers,   \* threads that call hatchPush...MsgList
          Consumers,   \* threads that wait on the semaphore and pop
          Msg,         \* the messages
          NoMsg,       \* nothing in hand
          Undefined,   \* what front() of an empty queue yields
          NoThread,    \* nobody owns the critical section
          MaxLength    \* NET_..._MESSAGE_LIST_MAX_LENGTH, the semaphore's maximum

ASSUME ThreadAssumption ==
  /\ Producers \cap Consumers = {}
  /\ IsFiniteSet(Consumers)
  /\ NoThread \notin Producers \cup Consumers

ASSUME MsgAssumption ==
  /\ NoMsg \notin Msg
  /\ Undefined \notin Msg
  /\ Undefined # NoMsg

ASSUME LengthAssumption == MaxLength \in Nat \ {0}

VARIABLES owner,    \* owner of the list's critical section
          count,    \* the semaphore's count
          list,     \* the std::queue
          pc,       \* where each thread is
          hand,     \* the message each thread holds
          ret       \* per producer: what hatchReleaseSemaphore returned

vars == <<owner, count, list, pc, hand, ret>>

Threads == Producers \cup Consumers

Init ==
  /\ owner = NoThread
  /\ count = 0
  /\ list = <<>>
  /\ pc = [t \in Threads |-> IF t \in Producers THEN "idle" ELSE "wait"]
  /\ hand = [t \in Threads |-> NoMsg]
  /\ ret = [p \in Producers |-> 0]

Goto(t, label) == pc' = [pc EXCEPT ![t] = label]

-----------------------------------------------------------------------------
(* hatchPushReadMsgList, hatchPushSendMsgList, hatchPushTempMsgList *)

\* seeded fault: the push does not wait for the critical section
EnterPush_Unlocked(p, m) ==
  /\ pc[p] = "idle"
  /\ owner' = p
  /\ hand' = [hand EXCEPT ![p] = m]
  /\ Goto(p, "release")
  /\ UNCHANGED <<count, list, ret>>

EnterPush(p, m) ==
  /\ pc[p] = "idle"
  /\ owner = NoThread
  /\ owner' = p
  /\ hand' = [hand EXCEPT ![p] = m]
  /\ Goto(p, "release")
  /\ UNCHANGED <<count, list, ret>>

\* seeded fault: the semaphore has no maximum
Release_NoMaximum(p) ==
  /\ pc[p] = "release"
  /\ count' = count + 1
  /\ ret' = [ret EXCEPT ![p] = 0]
  /\ Goto(p, "push")
  /\ UNCHANGED <<owner, list, hand>>

\* seeded fault: the message is stored whatever ReleaseSemaphore returned
Release_Unchecked(p) ==
  /\ pc[p] = "release"
  /\ count' = IF count < MaxLength THEN count + 1 ELSE count
  /\ ret' = [ret EXCEPT ![p] = IF count < MaxLength THEN 0 ELSE -1]
  /\ Goto(p, "push")
  /\ UNCHANGED <<owner, list, hand>>

\* seeded fault: the message is stored and the semaphore is not released
Release_Forgotten(p) ==
  /\ pc[p] = "release"
  /\ ret' = [ret EXCEPT ![p] = 0]
  /\ Goto(p, "push")
  /\ UNCHANGED <<owner, count, list, hand>>

\* ReleaseSemaphore fails, and leaves the count alone, at the maximum
Release(p) ==
  /\ pc[p] = "release"
  /\ IF count < MaxLength
       THEN /\ count' = count + 1
            /\ ret' = [ret EXCEPT ![p] = 0]
            /\ Goto(p, "push")
       ELSE /\ count' = count
            /\ ret' = [ret EXCEPT ![p] = -1]
            /\ Goto(p, "leave")
  /\ UNCHANGED <<owner, list, hand>>

Push(p) ==
  /\ pc[p] = "push"
  /\ list' = Append(list, hand[p])
  /\ Goto(p, "leave")
  /\ UNCHANGED <<owner, count, hand, ret>>

\* the list, or the caller that deletes it, has the message now
LeavePush(p) ==
  /\ pc[p] = "leave"
  /\ owner' = NoThread
  /\ hand' = [hand EXCEPT ![p] = NoMsg]
  /\ Goto(p, "idle")
  /\ UNCHANGED <<count, list, ret>>

-----------------------------------------------------------------------------
(* WaitForMultipleObjects on the semaphore, then hatchPop...MsgList *)

WaitSemaphore(c) ==
  /\ pc[c] = "wait"
  /\ count > 0
  /\ count' = count - 1
  /\ Goto(c, "enter")
  /\ UNCHANGED <<owner, list, hand, ret>>

EnterPop(c) ==
  /\ pc[c] = "enter"
  /\ owner = NoThread
  /\ owner' = c
  /\ Goto(c, "pop")
  /\ UNCHANGED <<count, list, hand, ret>>

Front(q) == IF q = <<>> THEN Undefined ELSE Head(q)

PopFront(q) == IF q = <<>> THEN q ELSE Tail(q)

Pop(c) ==
  /\ pc[c] = "pop"
  /\ hand' = [hand EXCEPT ![c] = Front(list)]
  /\ list' = PopFront(list)
  /\ Goto(c, "leave")
  /\ UNCHANGED <<owner, count, ret>>

LeavePop(c) ==
  /\ pc[c] = "leave"
  /\ owner' = NoThread
  /\ Goto(c, "handle")
  /\ UNCHANGED <<count, list, hand, ret>>

\* the consumer processes the message and waits again
Handle(c) ==
  /\ pc[c] = "handle"
  /\ hand' = [hand EXCEPT ![c] = NoMsg]
  /\ Goto(c, "wait")
  /\ UNCHANGED <<owner, count, list, ret>>

-----------------------------------------------------------------------------

Producer(p) == (\E m \in Msg : EnterPush(p, m)) \/ Release(p) \/ Push(p) \/ LeavePush(p)

Consumer(c) == WaitSemaphore(c) \/ EnterPop(c) \/ Pop(c) \/ LeavePop(c) \/ Handle(c)

Next == (\E p \in Producers : Producer(p)) \/ (\E c \in Consumers : Consumer(c))

Spec == Init /\ [][Next]_vars

(***************************************************************************)
(* A thread that can go on does (Windows runs every ready thread), and a   *)
(* consumer that keeps finding the critical section free in between gets   *)
(* it in the end.  Nothing makes a producer start a push.                  *)
(***************************************************************************)
Fairness ==
  /\ \A p \in Producers : WF_vars(Release(p) \/ Push(p) \/ LeavePush(p))
  /\ \A c \in Consumers : WF_vars(Consumer(c)) /\ SF_vars(EnterPop(c))

FairSpec == Spec /\ Fairness

-----------------------------------------------------------------------------

ProducerLabels == {"idle", "release", "push", "leave"}
ConsumerLabels == {"wait", "enter", "pop", "leave", "handle"}

\* The variables keep their types; the semaphore's count stays in 0..MaxLength
\* (CreateSemaphore with the list's maximum, ReleaseSemaphore refusing more).
TypeOK ==
  /\ owner \in Threads \cup {NoThread}
  /\ count \in 0..MaxLength
  /\ list \in Seq(Msg)
  /\ pc \in [Threads -> ProducerLabels \cup ConsumerLabels]
  /\ \A p \in Producers : pc[p] \in ProducerLabels
  /\ \A c \in Consumers : pc[c] \in ConsumerLabels
  /\ hand \in [Threads -> Msg \cup {NoMsg, Undefined}]
  /\ ret \in [Producers -> {0, -1}]

\* threads between hatchEnter and hatchLeave
Inside(t) ==
  \/ t \in Producers /\ pc[t] \in {"release", "push", "leave"}
  \/ t \in Consumers /\ pc[t] \in {"pop", "leave"}

\* The critical section is exclusive: exactly its owner is inside it.
Exclusive == \A t \in Threads : Inside(t) <=> owner = t

\* consumers that took a unit of the semaphore and have not popped yet
Claimants == {c \in Consumers : pc[c] \in {"enter", "pop"}}

\* units released for a message that is not in the list yet
Promised == IF \E p \in Producers : pc[p] = "push" THEN 1 ELSE 0

\* Every unit of the semaphore, waiting or already taken by a consumer, stands
\* for one message of the list or for the one a producer is about to store:
\* release and push happen together although they touch two objects.
UnitsMatchMessages == count + Cardinality(Claimants) = Len(list) + Promised

\* A producer inside the critical section holds the message it was given, a
\* producer outside it holds none, a producer about to store was not refused,
\* and a consumer holds a message exactly after its pop.
HandsMatch ==
  /\ \A p \in Producers : hand[p] \in Msg <=> Inside(p)
  /\ \A p \in Producers : pc[p] = "push" => ret[p] = 0
  /\ \A c \in Consumers : hand[c] = NoMsg <=> pc[c] \in {"wait", "enter", "pop"}

\* The list's invariant: together these survive every step of every thread,
\* which none of them does alone.
ListInvariant == TypeOK /\ Exclusive /\ HandsMatch /\ UnitsMatchMessages

\* front() and pop() are never called on an empty queue, although
\* hatchPop...MsgList does not check: no consumer ever gets an undefined
\* message, whatever the interleaving.
PopDefined == \A t \in Threads : hand[t] # Undefined

\* The list may outgrow the semaphore's maximum, by at most one message per
\* consumer that has taken its unit and not yet popped.
LengthBounded == Len(list) <= MaxLength + Cardinality(Consumers)

-----------------------------------------------------------------------------
(* The list seen from outside: a push takes effect when the message is     *)
(* stored or when the semaphore refuses it, a pop when front() returns.    *)

Answer ==
  [p \in Producers |->
     IF pc[p] # "leave" THEN "none" ELSE IF ret[p] = 0 THEN "stored" ELSE "full"]

Fifo == INSTANCE BoundedFifo WITH
          queue <- list, answer <- Answer, got <- [c \in Consumers |-> hand[c]],
          Capacity <- MaxLength, Slack <- Cardinality(Consumers)

\* The list implements the bounded FIFO: no message is lost, invented,
\* duplicated or reordered, a push that returned 0 stored its message, and a
\* push fails only when at least MaxLength messages wait.
ImplementsFifo == Fifo!Spec

\* A stored message is handed to a consumer in the end: the semaphore is never
\* left too low for the messages in the list.
StoredIsHandled ==
  \A m \in Msg : (\E i \in DOMAIN list : list[i] = m)
                 ~> (\E c \in Consumers : pc[c] = "handle" /\ hand[c] = m)
=============================================================================
