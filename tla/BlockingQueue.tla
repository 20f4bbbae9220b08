--------------------------- MODULE BlockingQueue ----------------------------
(***************************************************************************)
(* CBlockingQueue of the directory service: a deque under a std::mutex and *)
(* a condition variable.  put unlocks before it notifies; take waits with  *)
(* a predicate, so that a wake-up, spurious or not, is followed by a test. *)
(***************************************************************************)
EXTENDS Naturals, Sequences

CONSTANTS Producers, Consumers,
          Items,        \* each is put once
          NoItem, Nobody,
          MaxSpurious   \* bound: wake-ups without a notification

\* what the theorems about the queue assume of its threads and items
BlockingQueueAssumption ==
  /\ NoItem \notin Items
  /\ Nobody \notin Producers \cup Consumers
  /\ Producers \cap Consumers = {}
  /\ MaxSpurious \in Nat

VARIABLES queue,    \* _queue
          mutex,    \* _mutex: its owner, or Nobody
          ppc, x,   \* per producer: where it is in put, and put's argument
          cpc,      \* per consumer: where it is in take
          got,      \* per consumer: what its last take returned
          unput,    \* the items no producer has put yet
          spurious

vars == <<queue, mutex, ppc, x, cpc, got, unput, spurious>>
producing == <<ppc, x, unput>>
consuming == <<cpc, got, spurious>>

Init ==
  /\ queue = <<>>
  /\ mutex = Nobody
  /\ ppc = [p \in Producers |-> "idle"]
  /\ x = [p \in Producers |-> NoItem]
  /\ cpc = [c \in Consumers |-> "idle"]
  /\ got = [c \in Consumers |-> NoItem]
  /\ unput = Items
  /\ spurious = 0

-----------------------------------------------------------------------------
(* put *)

PutCall(p, i) ==
  /\ ppc[p] = "idle"
  /\ ppc' = [ppc EXCEPT ![p] = "lock"]
  /\ x' = [x EXCEPT ![p] = i]
  /\ unput' = unput \ {i}
  /\ UNCHANGED <<queue, mutex, consuming>>

PutLock(p) ==
  /\ ppc[p] = "lock"
  /\ mutex = Nobody
  /\ mutex' = p
  /\ ppc' = [ppc EXCEPT ![p] = "push"]
  /\ UNCHANGED <<queue, x, unput, consuming>>

PutPush(p) ==
  /\ ppc[p] = "push"
  /\ queue' = Append(queue, x[p])
  /\ ppc' = [ppc EXCEPT ![p] = "unlock"]
  /\ UNCHANGED <<mutex, x, unput, consuming>>

\* the end of the lock guard's block
PutUnlock(p) ==
  /\ ppc[p] = "unlock"
  /\ mutex' = Nobody
  /\ ppc' = [ppc EXCEPT ![p] = "notify"]
  /\ UNCHANGED <<queue, x, unput, consuming>>

\* notify_one wakes one waiting thread, if there is one.
PutNotify(p) ==
  /\ ppc[p] = "notify"
  /\ \/ \E c \in Consumers : cpc[c] = "waiting" /\ cpc' = [cpc EXCEPT ![c] = "woken"]
     \/ (\A c \in Consumers : cpc[c] # "waiting") /\ UNCHANGED cpc
  /\ ppc' = [ppc EXCEPT ![p] = "idle"]
  /\ x' = [x EXCEPT ![p] = NoItem]
  /\ UNCHANGED <<queue, mutex, unput, got, spurious>>

-----------------------------------------------------------------------------
(* take *)

TakeCall(c) ==
  /\ cpc[c] = "idle"
  /\ cpc' = [cpc EXCEPT ![c] = "lock"]
  /\ got' = [got EXCEPT ![c] = NoItem]
  /\ UNCHANGED <<queue, mutex, producing, spurious>>

\* unique_lock's constructor, or the end of a wait
TakeLock(c) ==
  /\ cpc[c] \in {"lock", "woken"}
  /\ mutex = Nobody
  /\ mutex' = c
  /\ cpc' = [cpc EXCEPT ![c] = "test"]
  /\ UNCHANGED <<queue, producing, got, spurious>>

\* wait's predicate; a thread that goes to wait gives the mutex up in the same step
TakeTest(c) ==
  /\ cpc[c] = "test"
  /\ \/ queue # <<>> /\ cpc' = [cpc EXCEPT ![c] = "pop"] /\ UNCHANGED mutex
     \/ queue = <<>> /\ cpc' = [cpc EXCEPT ![c] = "waiting"] /\ mutex' = Nobody
  /\ UNCHANGED <<queue, producing, got, spurious>>

SpuriousWakeUp(c) ==
  /\ cpc[c] = "waiting"
  /\ spurious < MaxSpurious
  /\ cpc' = [cpc EXCEPT ![c] = "woken"]
  /\ spurious' = spurious + 1
  /\ UNCHANGED <<queue, mutex, producing, got>>

\* front and pop_front: undefined on an empty deque
TakePop(c) ==
  /\ cpc[c] = "pop"
  /\ queue # <<>>
  /\ got' = [got EXCEPT ![c] = Head(queue)]
  /\ queue' = Tail(queue)
  /\ cpc' = [cpc EXCEPT ![c] = "unlock"]
  /\ UNCHANGED <<mutex, producing, spurious>>

TakeUnlock(c) ==
  /\ cpc[c] = "unlock"
  /\ mutex' = Nobody
  /\ cpc' = [cpc EXCEPT ![c] = "idle"]
  /\ UNCHANGED <<queue, producing, got, spurious>>

-----------------------------------------------------------------------------

Put(p) == PutLock(p) \/ PutPush(p) \/ PutUnlock(p) \/ PutNotify(p)

Take(c) == TakeLock(c) \/ TakeTest(c) \/ TakePop(c) \/ TakeUnlock(c)

Next ==
  \/ \E p \in Producers : Put(p) \/ \E i \in unput : PutCall(p, i)
  \/ \E c \in Consumers : Take(c) \/ TakeCall(c) \/ SpuriousWakeUp(c)

Spec == Init /\ [][Next]_vars

-----------------------------------------------------------------------------

\* The variables keep their types; a producer inside put has an item.
TypeOK ==
  /\ queue \in Seq(Items)
  /\ mutex \in Producers \cup Consumers \cup {Nobody}
  /\ ppc \in [Producers -> {"idle", "lock", "push", "unlock", "notify"}]
  /\ x \in [Producers -> Items \cup {NoItem}]
  /\ \A p \in Producers : ppc[p] # "idle" => x[p] \in Items
  /\ cpc \in [Consumers -> {"idle", "lock", "test", "waiting", "woken", "pop", "unlock"}]
  /\ got \in [Consumers -> Items \cup {NoItem}]
  /\ unput \subseteq Items
  /\ spurious \in Nat

\* A thread between lock and unlock owns the mutex.
Owned ==
  /\ \A p \in Producers : ppc[p] \in {"push", "unlock"} => mutex = p
  /\ \A c \in Consumers : cpc[c] \in {"test", "pop", "unlock"} => mutex = c

\* take's assert(!_queue.empty()) holds whenever a consumer reaches it,
\* whoever took the item its wake-up was for.
TakeDefined == \A c \in Consumers : cpc[c] = "pop" => queue # <<>>

\* A take holds what it took only once it has taken it.
HandsEmpty == \A c \in Consumers : cpc[c] \notin {"idle", "unlock"} => got[c] = NoItem

\* put and take are those of a FIFO that hands every item out once.
AbstractFifo == INSTANCE Fifo
ImplementsFifo == AbstractFifo!Spec

=============================================================================
