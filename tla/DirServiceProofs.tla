-------------------------- MODULE DirServiceProofs --------------------------
(***************************************************************************)
(* The directory service for any number of connections, bytes and          *)
(* requests: how its threads are shut down; its queue, CBlockingQueue, for *)
(* any threads, items and spurious wake-ups; and the capacity arithmetic   *)
(* of one request's buffer for any block size.                             *)
(***************************************************************************)
EXTENDS DirService, TLAPS

MainAt == {"begin", "created", "initialised", "starting", "started", "join", "deleted"} \cup Ended
SrvAt == {"none", "loop", "wait", "events", "ended"}
DispAt == {"none", "loop", "take", "ended"}
HandlerAt == [on : {"none", "main", "srv", "disp"},
              step : {"none", "server quit", "server join", "dispatcher quit", "dispatcher join"}]

Places ==
  /\ main \in MainAt /\ srv \in SrvAt /\ disp \in DispAt
  /\ handler \in HandlerAt
  /\ joiner \in {"nobody", "main", "handler"}
  /\ quitD \in BOOLEAN

Requests ==
  /\ pending \in [Conns -> 0..MaxBytes]
  /\ queue \in Seq(0..MaxBytes)
  /\ received \in Nat /\ processed \in Nat
  /\ received = processed + Len(queue)

\* the order in which main starts the two threads; a handler that came before
\* it started the server thread holds main up for good
Starting ==
  /\ main \in {"begin", "created", "initialised"} => srv = "none"
  /\ main \in {"starting", "started", "join", "deleted"} => srv # "none"
  /\ srv = "none" => disp = "none"
  /\ srv = "none" => handler.on \in {"none", "main"}
  /\ handler.on = "none" <=> handler.step = "none"

\* the order in which the handler stops them: the server thread is out of its
\* loop, or stopped under the handler, before the dispatcher is told to quit
Stopping ==
  /\ handler.step \in {"dispatcher quit", "dispatcher join"} => Joined("srv", srv)
  /\ quitD => handler.step = "dispatcher join"
  /\ disp = "ended" => quitD

\* The inductive invariant.  NoRequestAfterDispatcher says where the server
\* thread is when the dispatcher has ended, which follows from the order of the
\* handler's steps (Stopping); that a thread not started is taken as joined is
\* harmless because of Starting.
Inv == Places /\ Requests /\ Starting /\ Stopping

LEMMA InitInv == Init => Inv
<1> SUFFICES ASSUME Init
             PROVE  Inv
  OBVIOUS
<1>1. Places
  BY Zenon DEF Init, Places, MainAt, SrvAt, DispAt, HandlerAt
<1>2. Requests
  <2>1. queue \in Seq(0..MaxBytes) /\ Len(queue) = 0
    BY DEF Init
  <2> QED  BY <2>1, DirServiceAssumption DEF Init, Requests
<1>3. Starting /\ Stopping
  BY DEF Init, Starting, Stopping
<1> QED  BY <1>1, <1>2, <1>3 DEF Inv

\* Only the server thread and the dispatcher touch requests.
LEMMA RequestsStay ==
  ASSUME Requests, UNCHANGED <<pending, requests>>
  PROVE  Requests'
  BY DEF Requests, requests

\* Only the three threads and the handler change the rest of the invariant.
LEMMA RestStays ==
  ASSUME Places, Starting, Stopping, UNCHANGED <<main, srv, disp, handler, joiner, quitD>>
  PROVE  Places' /\ Starting' /\ Stopping'
<1>1. Places'
  BY Zenon DEF Places
<1>2. Starting'
  BY Zenon DEF Starting
<1>3. Stopping'
  BY Zenon DEF Stopping, Joined
<1> QED  BY <1>1, <1>2, <1>3, Zenon

\* The steps of the main thread.
LEMMA MainInv ==
  ASSUME Inv, Main
  PROVE  Inv'
<1> USE DEF Inv, MainStep, Free, Running, Ended, shared, net
<1>1. Requests'
  BY RequestsStay DEF Main, Create, InitDirDispatcher, StartServer, StartDispatcher, Join, Delete, Return
<1>2. CASE Create \/ InitDirDispatcher \/ Join \/ Delete \/ Return
  <2>1. /\ UNCHANGED <<srv, disp, handler, quitD>>
        /\ joiner' \in {joiner, "main"}
        /\ main' \in {"created", "initialised", "join", "deleted", "returned"}
    BY <1>2 DEF Create, InitDirDispatcher, Join, Delete, Return
  <2>2. Places'
    <3>1. Places
      BY Zenon
    <3>2. main' \in MainAt
      BY <2>1, Zenon DEF MainAt
    <3> HIDE DEF Inv
    <3> QED  BY <2>1, <3>1, <3>2, Zenon DEF Places
  <2>3. Starting'
    BY <1>2, <2>1, Zenon DEF Create, InitDirDispatcher, Join, Delete, Return, Starting
  <2>4. Stopping'
    BY <2>1, Zenon DEF Stopping, Joined
  <2> QED  BY <1>1, <2>2, <2>3, <2>4
<1>3. CASE StartServer
  <2>1. handler.on = "none" /\ handler.step = "none"
    BY <1>3 DEF StartServer, Starting
  <2> QED  BY <1>1, <1>3, <2>1, Zenon DEF StartServer, Places, MainAt, SrvAt, Starting, Stopping, Joined
<1>4. CASE StartDispatcher
  BY <1>1, <1>4, Zenon DEF StartDispatcher, Places, MainAt, DispAt, Starting, Stopping, Joined
<1> QED  BY <1>2, <1>3, <1>4 DEF Main

\* The steps of the server thread; a request holds bytes the client sent.
LEMMA ServerInv ==
  ASSUME Inv, Server \/ Interrupted \/ AcceptFails
  PROVE  Inv'
<1> USE DEF Inv, Free, Running, Ended, shared
<1>1. CASE SrvLoop \/ EpollWait \/ EventsDone \/ Interrupted \/ AcceptFails
  <2>1. Requests'
    BY <1>1, RequestsStay DEF SrvLoop, EpollWait, EventsDone, Interrupted, AcceptFails, net
  <2>2. UNCHANGED <<main, disp, handler, joiner, quitD>> /\ handler.on # "srv"
    BY <1>1 DEF SrvLoop, EpollWait, EventsDone, Interrupted, AcceptFails
  <2>3. srv \in {"loop", "wait", "events"} /\ srv' \in {"loop", "wait", "events", "ended"}
    BY <1>1 DEF SrvLoop, EpollWait, EventsDone, Interrupted, AcceptFails
  <2>4. Places' /\ Starting' /\ Stopping'
    <3>1. Places /\ Starting /\ Stopping
      BY Zenon
    <3> HIDE DEF Inv
    <3>2. Places'
      <4>1. srv' \in SrvAt
        BY <2>3, Zenon DEF SrvAt
      <4> QED  BY <2>2, <3>1, <4>1, Zenon DEF Places
    <3>3. Starting'
      BY <2>2, <2>3, <3>1, Zenon DEF Starting
    <3>4. Stopping'
      BY <2>2, <2>3, <3>1, Zenon DEF Stopping, Joined
    <3> QED  BY <3>2, <3>3, <3>4, Zenon
  <2> QED  BY <2>1, <2>3, <2>4
<1>2. ASSUME NEW c \in Conns, Accept(c)
      PROVE  Inv'
  <2>1. Requests'
    BY <1>2, RequestsStay DEF Accept
  <2> QED  BY <1>2, <2>1, Zenon DEF Accept, Places, Starting, Stopping, Joined
<1>3. ASSUME NEW c \in Conns, Read(c)
      PROVE  Inv'
  <2>1. Requests'
    <3>1. PICK len \in IF pending[c] = 0 THEN {0} ELSE 1..pending[c] :
            /\ pending' = [pending EXCEPT ![c] = @ - len]
            /\ queue' = Append(queue, len)
      BY <1>3, Zenon DEF Read
    <3>2. pending[c] \in 0..MaxBytes
      BY DEF Requests
    <3>3. len \in 0..MaxBytes /\ pending[c] - len \in 0..MaxBytes
      BY <3>1, <3>2, DirServiceAssumption
    <3>4. queue' \in Seq(0..MaxBytes) /\ Len(queue') = Len(queue) + 1
      BY <3>1, <3>3 DEF Requests
    <3>5. pending' \in [Conns -> 0..MaxBytes]
      BY <3>1, <3>3 DEF Requests
    <3> QED  BY <1>3, <3>4, <3>5 DEF Requests, Read
  <2> QED  BY <1>3, <2>1, Zenon DEF Read, Places, Starting, Stopping, Joined
<1> QED  BY <1>1, <1>2, <1>3 DEF Server

\* The steps of the dispatcher thread.
LEMMA DispatcherInv ==
  ASSUME Inv, Dispatcher
  PROVE  Inv'
<1> USE DEF Inv, Free, Running, Ended, shared, net
<1>1. CASE DispLoop
  <2>1. Requests'
    BY <1>1, RequestsStay DEF DispLoop
  <2> QED  BY <1>1, <2>1, Zenon DEF DispLoop, Places, DispAt, Starting, Stopping, Joined
<1>2. CASE ProcessRequest
  <2>1. Requests'
    <3>1. Tail(queue) \in Seq(0..MaxBytes) /\ Len(Tail(queue)) = Len(queue) - 1
      BY <1>2 DEF ProcessRequest, Requests
    <3> QED  BY <1>2, <3>1 DEF ProcessRequest, Requests
  <2> QED  BY <1>2, <2>1, Zenon DEF ProcessRequest, Places, DispAt, Starting, Stopping, Joined
<1> QED  BY <1>1, <1>2 DEF Dispatcher

\* SIGINT and the steps of its handler.
LEMMA HandlerInv ==
  ASSUME Inv, HandlerStep \/ \E t \in Threads : Interrupt(t)
  PROVE  Inv'
<1> USE DEF Inv, Running, Ended, net
<1>1. CASE HandlerStep
  <2>1. Requests'
    BY <1>1, RequestsStay, Zenon DEF HandlerStep
  <2>2. handler.on = handler'.on /\ handler.on # "none"
    BY <1>1, Zenon DEF HandlerStep, To, Places, HandlerAt, Starting
  <2>3. Places'
    <3>1. /\ main' \in {main, "exited"} /\ UNCHANGED <<srv, disp>>
          /\ joiner' \in {joiner, "handler"}
          /\ quitD' \in {quitD, TRUE}
          /\ \/ handler' = handler
             \/ \E s \in {"server join", "dispatcher quit", "dispatcher join"} :
                  handler' = [handler EXCEPT !.step = s]
      BY <1>1, Zenon DEF HandlerStep, To
    <3>2. Places
      BY Zenon
    <3>3. main' \in MainAt
      BY <3>1, <3>2, Zenon DEF Places, MainAt
    <3> HIDE DEF Inv
    <3>4. handler' \in HandlerAt
      BY <3>1, <3>2, Zenon DEF Places, HandlerAt
    <3>5. quitD' \in BOOLEAN
      BY <3>1, <3>2, Zenon DEF Places
    <3> QED  BY <3>1, <3>2, <3>3, <3>4, <3>5, Zenon DEF Places
  <2>4. Starting'
    BY <1>1, <2>2, Zenon DEF HandlerStep, To, Places, HandlerAt, Starting
  <2>5. Stopping'
    <3>1. UNCHANGED <<srv, disp>>
      BY <1>1, Zenon DEF HandlerStep
    <3>2. CASE handler.step = "server quit" /\ To("server join") /\ quitD' = quitD
      BY <2>2, <3>1, <3>2, Zenon DEF To, Places, HandlerAt, Stopping, Joined
    <3>3. CASE handler.step = "server join" /\ Joined("srv", srv) /\ To("dispatcher quit") /\ quitD' = quitD
      BY <2>2, <3>1, <3>3, Zenon DEF To, Places, HandlerAt, Stopping, Joined
    <3>4. CASE handler.step = "dispatcher quit" /\ To("dispatcher join") /\ quitD' = TRUE
      BY <2>2, <3>1, <3>4, Zenon DEF To, Places, HandlerAt, Stopping, Joined
    <3>5. CASE handler' = handler /\ quitD' = quitD
      BY <2>2, <3>1, <3>5, Zenon DEF Stopping, Joined
    <3> QED  BY <1>1, <3>2, <3>3, <3>4, <3>5, Zenon DEF HandlerStep
  <2> QED  BY <2>1, <2>3, <2>4, <2>5
<1>2. ASSUME NEW t \in Threads, Interrupt(t)
      PROVE  Inv'
  <2>1. Requests'
    BY <1>2, RequestsStay, Zenon DEF Interrupt
  <2>2. t \in {"main", "srv", "disp"} /\ (srv = "none" => t = "main")
    BY DEF Threads, Starting
  <2>3. handler.on = "none" /\ handler.step = "none" /\ ~quitD
    BY <1>2, Zenon DEF Interrupt, Starting, Stopping
  <2>4. CASE main \in {"begin", "created"}
    BY <1>2, <2>1, <2>3, <2>4, Zenon DEF Interrupt, Places, MainAt, HandlerAt, Starting, Stopping, Joined
  <2>5. CASE main \notin {"begin", "created"}
    <3>1. handler' = [on |-> t, step |-> "server quit"] /\ UNCHANGED main
      BY <1>2, <2>5, Zenon DEF Interrupt
    <3> QED  BY <1>2, <2>1, <2>2, <2>3, <3>1, Zenon
                DEF Interrupt, Places, MainAt, HandlerAt, Starting, Stopping, Joined
  <2> QED  BY <2>4, <2>5
<1> QED  BY <1>1, <1>2

\* The two ways the service crashes but for an early SIGINT.
LEMMA CrashInv ==
  ASSUME Inv, UseDeleted \/ \E c \in Conns : ReadFails(c)
  PROVE  Inv'
<1>1. main' = "crashed" /\ UNCHANGED <<srv, disp, shared, net, requests>>
  BY Zenon DEF UseDeleted, ReadFails
<1>2. Requests'
  BY <1>1, RequestsStay, Zenon DEF Inv, net
<1>3. UNCHANGED <<srv, disp, handler, joiner, quitD>>
  BY <1>1, Zenon DEF shared
<1>4. Places'
  BY <1>1, <1>3, Zenon DEF Inv, Places, MainAt, Ended
<1>5. Starting' /\ Stopping'
  BY <1>1, <1>3 DEF Inv, Starting, Stopping, Joined
<1> QED  BY <1>2, <1>4, <1>5, Zenon DEF Inv

\* The clients' steps.
LEMMA ClientInv ==
  ASSUME Inv, NEW c \in Conns, Connect(c) \/ Send(c) \/ Close(c)
  PROVE  Inv'
<1> USE DEF Inv, ClientStep, shared
<1>1. Requests'
  <2>1. CASE Connect(c) \/ Close(c)
    BY <2>1, RequestsStay DEF Connect, Close
  <2>2. CASE Send(c)
    <3>1. pending[c] + 1 \in 0..MaxBytes
      BY <2>2, DirServiceAssumption DEF Send, Requests
    <3>2. pending' \in [Conns -> 0..MaxBytes]
      BY <2>2, <3>1 DEF Send, Requests
    <3> QED  BY <2>2, <3>2 DEF Send, Requests, requests
  <2> QED  BY <2>1, <2>2
<1>2. UNCHANGED <<main, srv, disp, handler, joiner, quitD>>
  BY DEF Connect, Send, Close
<1> QED  BY <1>1, <1>2, RestStays, Zenon

LEMMA NextInv == Inv /\ [Next]_vars => Inv'
<1> SUFFICES ASSUME Inv, [Next]_vars
             PROVE  Inv'
  OBVIOUS
<1>1. CASE UNCHANGED vars
  <2>1. Requests'
    BY <1>1, RequestsStay DEF vars, Inv, requests
  <2>2. UNCHANGED <<main, srv, disp, handler, joiner, quitD>>
    BY <1>1 DEF vars
  <2> QED  BY <2>1, <2>2, RestStays, Zenon DEF Inv
<1> QED  BY <1>1, MainInv, ServerInv, DispatcherInv, HandlerInv, CrashInv, ClientInv DEF Next

\* The invariant holds in every reachable state.
LEMMA SpecInv == Spec => []Inv
  BY InitInv, NextInv, PTL DEF Spec

\* No request is lost, made up or larger than what its client sent, whatever
\* the threads do and however the service is stopped.
THEOREM NoRequestLost == Spec => []TypeOK
<1>1. ASSUME Inv
      PROVE  TypeOK
  <2>1. \A c \in Conns : pending[c] \in 0..MaxBytes
    BY <1>1 DEF Inv, Requests
  <2>2. \A i \in DOMAIN queue : queue[i] \in 0..MaxBytes
    <3> DEFINE Sizes == 0..MaxBytes
    <3>1. queue \in Seq(Sizes)
      BY <1>1 DEF Inv, Requests
    <3>2. \A i \in DOMAIN queue : queue[i] \in Sizes
      <4> HIDE DEF Sizes
      <4> QED  BY <3>1
    <3> QED  BY <3>2
  <2>3. received = processed + Len(queue)
    BY <1>1 DEF Inv, Requests
  <2> QED  BY <1>1, <2>1, <2>2, <2>3, Zenon DEF Inv, Places, MainAt, SrvAt, DispAt, HandlerAt, TypeOK
<1> QED  BY <1>1, SpecInv, PTL

\* Only the server thread's Read makes a request.
LEMMA OnlyReadReceives ==
  ASSUME Next, received' # received
  PROVE  \E c \in Conns : Read(c)
<1> USE DEF shared, requests, net
<1>1. CASE Main
  BY <1>1 DEF Main, Create, InitDirDispatcher, StartServer, StartDispatcher, Join, Delete, Return
<1>2. CASE Server
  BY <1>2 DEF Server, SrvLoop, EpollWait, EventsDone, Accept
<1>3. CASE Dispatcher \/ HandlerStep \/ Interrupted \/ AcceptFails \/ UseDeleted
  BY <1>3, Zenon DEF Dispatcher, DispLoop, ProcessRequest, HandlerStep, Interrupted, AcceptFails, UseDeleted
<1>4. CASE \E t \in Threads : Interrupt(t)
  BY <1>4, Zenon DEF Interrupt
<1>5. CASE \E c \in Conns : ReadFails(c) \/ Connect(c) \/ Send(c) \/ Close(c)
  BY <1>5 DEF ReadFails, Connect, Send, Close, ClientStep
<1> QED  BY <1>1, <1>2, <1>3, <1>4, <1>5 DEF Next

\* Once the dispatcher has ended no request is put any more, on whichever
\* thread the handler that stopped it runs.
THEOREM NothingReceivedUnserved == Spec => NoRequestAfterDispatcher
<1>1. Inv /\ [Next]_vars => [received' # received => disp # "ended"]_vars
  <2> SUFFICES ASSUME Inv, Next, received' # received, disp = "ended"
               PROVE  FALSE
    BY DEF vars
  <2>1. Free("srv") /\ srv = "events"
    BY OnlyReadReceives DEF Read
  <2>2. Joined("srv", srv)
    BY Zenon DEF Inv, Stopping
  <2> QED  BY <2>1, <2>2 DEF Free, Joined
<1> QED  BY <1>1, SpecInv, PTL DEF Spec, NoRequestAfterDispatcher

-----------------------------------------------------------------------------
(* The queue: BlockingQueue, with a deque of its own *)

CONSTANTS Producers, Consumers, Items, NoItem, Nobody, MaxSpurious

VARIABLES deque, mutex, ppc, arg, cpc, got, unput, spurious

Queue == INSTANCE BlockingQueue WITH queue <- deque, x <- arg

\* The inductive invariant.  TakeDefined alone is not inductive: it needs that
\* whoever pops owns the mutex (Owned); Fifo's Take needs HandsEmpty.
QueueInv == Queue!TypeOK /\ Queue!Owned /\ Queue!TakeDefined /\ Queue!HandsEmpty

LEMMA QueueInit ==
  ASSUME Queue!BlockingQueueAssumption, Queue!Init
  PROVE  QueueInv
  BY DEF Queue!BlockingQueueAssumption, Queue!Init, QueueInv, Queue!TypeOK, Queue!Owned, Queue!TakeDefined, Queue!HandsEmpty

\* put's steps.
LEMMA QueuePut ==
  ASSUME Queue!BlockingQueueAssumption, QueueInv, NEW p \in Producers, Queue!Put(p)
  PROVE  QueueInv'
<1> USE DEF Queue!BlockingQueueAssumption, QueueInv, Queue!consuming, Queue!producing
<1>1. CASE Queue!PutLock(p)
  <2>1. Queue!TypeOK' BY <1>1 DEF Queue!PutLock, Queue!TypeOK
  <2>2. Queue!Owned' BY <1>1 DEF Queue!PutLock, Queue!TypeOK, Queue!Owned
  <2>3. Queue!TakeDefined' BY <1>1 DEF Queue!PutLock, Queue!TakeDefined
  <2>4. Queue!HandsEmpty' BY <1>1 DEF Queue!PutLock, Queue!HandsEmpty
  <2> QED BY <2>1, <2>2, <2>3, <2>4
<1>2. CASE Queue!PutPush(p)
  <2>1. arg[p] \in Items BY <1>2 DEF Queue!PutPush, Queue!TypeOK
  <2>2. Queue!TypeOK' BY <1>2, <2>1 DEF Queue!PutPush, Queue!TypeOK
  <2>3. Queue!Owned' BY <1>2 DEF Queue!PutPush, Queue!TypeOK, Queue!Owned
  <2>4. Queue!TakeDefined'
    <3>1. deque' # <<>> BY <1>2, <2>1 DEF Queue!PutPush, Queue!TypeOK
    <3> QED BY <3>1 DEF Queue!TakeDefined
  <2>5. Queue!HandsEmpty' BY <1>2 DEF Queue!PutPush, Queue!HandsEmpty
  <2> QED BY <2>2, <2>3, <2>4, <2>5
<1>3. CASE Queue!PutUnlock(p)
  <2>1. Queue!TypeOK' BY <1>3 DEF Queue!PutUnlock, Queue!TypeOK
  <2>2. Queue!Owned' BY <1>3 DEF Queue!PutUnlock, Queue!TypeOK, Queue!Owned
  <2>3. Queue!TakeDefined' BY <1>3 DEF Queue!PutUnlock, Queue!TakeDefined
  <2>4. Queue!HandsEmpty' BY <1>3 DEF Queue!PutUnlock, Queue!HandsEmpty
  <2> QED BY <2>1, <2>2, <2>3, <2>4
<1>4. CASE Queue!PutNotify(p)
  <2>1. Queue!TypeOK' BY <1>4 DEF Queue!PutNotify, Queue!TypeOK
  <2>2. Queue!Owned' BY <1>4 DEF Queue!PutNotify, Queue!TypeOK, Queue!Owned
  <2>3. Queue!TakeDefined' BY <1>4 DEF Queue!PutNotify, Queue!TypeOK, Queue!TakeDefined
  <2>4. Queue!HandsEmpty' BY <1>4 DEF Queue!PutNotify, Queue!TypeOK, Queue!HandsEmpty
  <2> QED BY <2>1, <2>2, <2>3, <2>4
<1> QED BY <1>1, <1>2, <1>3, <1>4 DEF Queue!Put

\* take's steps, a wake-up included.
LEMMA QueueTake ==
  ASSUME Queue!BlockingQueueAssumption, QueueInv, NEW c \in Consumers,
         Queue!Take(c) \/ Queue!TakeCall(c) \/ Queue!SpuriousWakeUp(c)
  PROVE  QueueInv'
<1> USE DEF Queue!BlockingQueueAssumption, QueueInv, Queue!consuming, Queue!producing
<1>1. CASE Queue!TakeCall(c)
  <2>1. Queue!TypeOK' BY <1>1 DEF Queue!TakeCall, Queue!TypeOK
  <2>2. Queue!Owned' BY <1>1 DEF Queue!TakeCall, Queue!TypeOK, Queue!Owned
  <2>3. Queue!TakeDefined' BY <1>1 DEF Queue!TakeCall, Queue!TypeOK, Queue!TakeDefined
  <2>4. Queue!HandsEmpty' BY <1>1 DEF Queue!TakeCall, Queue!TypeOK, Queue!HandsEmpty
  <2> QED BY <2>1, <2>2, <2>3, <2>4
<1>2. CASE Queue!TakeLock(c)
  <2>1. Queue!TypeOK' BY <1>2 DEF Queue!TakeLock, Queue!TypeOK
  <2>2. Queue!Owned' BY <1>2 DEF Queue!TakeLock, Queue!TypeOK, Queue!Owned
  <2>3. Queue!TakeDefined' BY <1>2 DEF Queue!TakeLock, Queue!TypeOK, Queue!TakeDefined
  <2>4. Queue!HandsEmpty' BY <1>2 DEF Queue!TakeLock, Queue!TypeOK, Queue!HandsEmpty
  <2> QED BY <2>1, <2>2, <2>3, <2>4
<1>3. CASE Queue!TakeTest(c)
  <2>1. Queue!TypeOK' BY <1>3 DEF Queue!TakeTest, Queue!TypeOK
  <2>2. Queue!Owned' BY <1>3 DEF Queue!TakeTest, Queue!TypeOK, Queue!Owned
  <2>3. Queue!TakeDefined' BY <1>3 DEF Queue!TakeTest, Queue!TypeOK, Queue!TakeDefined
  <2>4. Queue!HandsEmpty' BY <1>3 DEF Queue!TakeTest, Queue!TypeOK, Queue!HandsEmpty
  <2> QED BY <2>1, <2>2, <2>3, <2>4
<1>4. CASE Queue!SpuriousWakeUp(c)
  <2>1. Queue!TypeOK' BY <1>4 DEF Queue!SpuriousWakeUp, Queue!TypeOK
  <2>2. Queue!Owned' BY <1>4 DEF Queue!SpuriousWakeUp, Queue!TypeOK, Queue!Owned
  <2>3. Queue!TakeDefined' BY <1>4 DEF Queue!SpuriousWakeUp, Queue!TypeOK, Queue!TakeDefined
  <2>4. Queue!HandsEmpty' BY <1>4 DEF Queue!SpuriousWakeUp, Queue!TypeOK, Queue!HandsEmpty
  <2> QED BY <2>1, <2>2, <2>3, <2>4
<1>5. CASE Queue!TakePop(c)
  <2>1. Head(deque) \in Items /\ Tail(deque) \in Seq(Items) BY <1>5 DEF Queue!TakePop, Queue!TypeOK
  <2>2. Queue!TypeOK' BY <1>5, <2>1 DEF Queue!TakePop, Queue!TypeOK
  <2>3. Queue!Owned' BY <1>5 DEF Queue!TakePop, Queue!TypeOK, Queue!Owned
  <2>4. Queue!TakeDefined'
    \* no other consumer can be about to pop: c owns the mutex
    <3>1. mutex = c BY <1>5 DEF Queue!TakePop, Queue!Owned
    <3>2. \A d \in Consumers : d # c => cpc[d] # "pop" BY <3>1 DEF Queue!Owned
    <3>3. \A d \in Consumers : cpc'[d] # "pop" BY <1>5, <3>2 DEF Queue!TakePop, Queue!TypeOK
    <3> QED BY <3>3 DEF Queue!TakeDefined
  <2>5. Queue!HandsEmpty' BY <1>5 DEF Queue!TakePop, Queue!TypeOK, Queue!HandsEmpty
  <2> QED BY <2>2, <2>3, <2>4, <2>5
<1>6. CASE Queue!TakeUnlock(c)
  <2>1. Queue!TypeOK' BY <1>6 DEF Queue!TakeUnlock, Queue!TypeOK
  <2>2. Queue!Owned' BY <1>6 DEF Queue!TakeUnlock, Queue!TypeOK, Queue!Owned
  <2>3. Queue!TakeDefined' BY <1>6 DEF Queue!TakeUnlock, Queue!TypeOK, Queue!TakeDefined
  <2>4. Queue!HandsEmpty' BY <1>6 DEF Queue!TakeUnlock, Queue!TypeOK, Queue!HandsEmpty
  <2> QED BY <2>1, <2>2, <2>3, <2>4
<1> QED BY <1>1, <1>2, <1>3, <1>4, <1>5, <1>6 DEF Queue!Take

\* A producer's call.
LEMMA QueuePutCall ==
  ASSUME Queue!BlockingQueueAssumption, QueueInv, NEW p \in Producers, NEW i \in unput, Queue!PutCall(p, i)
  PROVE  QueueInv'
<1> USE DEF Queue!BlockingQueueAssumption, QueueInv, Queue!consuming
<1>1. i \in Items BY DEF Queue!TypeOK
<1>2. Queue!TypeOK' BY <1>1 DEF Queue!PutCall, Queue!TypeOK
<1>3. Queue!Owned' BY DEF Queue!PutCall, Queue!TypeOK, Queue!Owned
<1>4. Queue!TakeDefined' BY DEF Queue!PutCall, Queue!TakeDefined
<1>5. Queue!HandsEmpty' BY DEF Queue!PutCall, Queue!HandsEmpty
<1> QED BY <1>2, <1>3, <1>4, <1>5

LEMMA QueueNext ==
  ASSUME Queue!BlockingQueueAssumption, QueueInv, [Queue!Next]_(Queue!vars)
  PROVE  QueueInv'
<1>1. CASE UNCHANGED Queue!vars
  BY <1>1 DEF Queue!vars, QueueInv, Queue!TypeOK, Queue!Owned, Queue!TakeDefined, Queue!HandsEmpty
<1>2. CASE Queue!Next
  BY <1>2, QueuePut, QueuePutCall, QueueTake DEF Queue!Next
<1> QED BY <1>1, <1>2

\* The invariant holds in every reachable state.
LEMMA QueueSpec ==
  ASSUME Queue!BlockingQueueAssumption
  PROVE  Queue!Spec => []QueueInv
<1>1. Queue!Init => QueueInv BY QueueInit
<1>2. QueueInv /\ [Queue!Next]_(Queue!vars) => QueueInv' BY QueueNext
<1> QED BY <1>1, <1>2, PTL DEF Queue!Spec

\* take's assert(!_queue.empty()) never fails, however many threads share the
\* deque and however often a wait ends without a notification.
THEOREM TakeIsDefined ==
  ASSUME Queue!BlockingQueueAssumption
  PROVE  Queue!Spec => []Queue!TakeDefined
<1>1. QueueInv => Queue!TakeDefined BY DEF QueueInv
<1>2. Queue!Spec => []QueueInv BY QueueSpec
<1> QED BY <1>1, <1>2, PTL

-----------------------------------------------------------------------------

\* Each step is one of Fifo's or leaves its variables alone.
LEMMA FifoStep ==
  ASSUME QueueInv, [Queue!Next]_(Queue!vars)
  PROVE  [Queue!AbstractFifo!Next]_<<deque, got>>
<1> USE DEF Queue!consuming, Queue!producing
<1>1. ASSUME NEW p \in Producers, Queue!Put(p) PROVE [Queue!AbstractFifo!Next]_<<deque, got>>
  <2>1. CASE Queue!PutPush(p)
    <3>1. arg[p] \in Items BY <2>1 DEF Queue!PutPush, QueueInv, Queue!TypeOK
    <3>2. Queue!AbstractFifo!Put(arg[p]) BY <2>1 DEF Queue!PutPush, Queue!AbstractFifo!Put
    <3> QED BY <3>1, <3>2 DEF Queue!AbstractFifo!Next
  <2>2. CASE Queue!PutLock(p) \/ Queue!PutUnlock(p) \/ Queue!PutNotify(p)
    BY <2>2 DEF Queue!PutLock, Queue!PutUnlock, Queue!PutNotify
  <2> QED BY <1>1, <2>1, <2>2 DEF Queue!Put
<1>2. ASSUME NEW p \in Producers, NEW i \in unput, Queue!PutCall(p, i)
      PROVE  [Queue!AbstractFifo!Next]_<<deque, got>>
  BY <1>2 DEF Queue!PutCall
<1>3. ASSUME NEW c \in Consumers, Queue!Take(c) PROVE [Queue!AbstractFifo!Next]_<<deque, got>>
  <2>1. CASE Queue!TakePop(c)
    <3>1. got[c] = NoItem BY <2>1 DEF Queue!TakePop, QueueInv, Queue!HandsEmpty
    <3>2. Queue!AbstractFifo!Take(c) BY <2>1, <3>1 DEF Queue!TakePop, Queue!AbstractFifo!Take
    <3> QED BY <3>2 DEF Queue!AbstractFifo!Next
  <2>2. CASE Queue!TakeLock(c) \/ Queue!TakeTest(c) \/ Queue!TakeUnlock(c)
    BY <2>2 DEF Queue!TakeLock, Queue!TakeTest, Queue!TakeUnlock
  <2> QED BY <1>3, <2>1, <2>2 DEF Queue!Take
<1>4. ASSUME NEW c \in Consumers, Queue!TakeCall(c) PROVE [Queue!AbstractFifo!Next]_<<deque, got>>
  <2>1. CASE got[c] = NoItem
    <3>1. got' = got BY <1>4, <2>1 DEF Queue!TakeCall, QueueInv, Queue!TypeOK
    <3> QED BY <1>4, <3>1 DEF Queue!TakeCall
  <2>2. CASE got[c] # NoItem
    <3>1. Queue!AbstractFifo!Finish(c) BY <1>4, <2>2 DEF Queue!TakeCall, Queue!AbstractFifo!Finish
    <3> QED BY <3>1 DEF Queue!AbstractFifo!Next
  <2> QED BY <2>1, <2>2
<1>5. ASSUME NEW c \in Consumers, Queue!SpuriousWakeUp(c) PROVE [Queue!AbstractFifo!Next]_<<deque, got>>
  BY <1>5 DEF Queue!SpuriousWakeUp
<1>6. CASE UNCHANGED Queue!vars
  BY <1>6 DEF Queue!vars
<1> QED BY <1>1, <1>2, <1>3, <1>4, <1>5, <1>6 DEF Queue!Next

\* The mutex and the condition variable make put and take those of a FIFO.
THEOREM QueueImplementsFifo ==
  ASSUME Queue!BlockingQueueAssumption
  PROVE  Queue!Spec => Queue!ImplementsFifo
<1>1. Queue!Init => Queue!AbstractFifo!Init BY DEF Queue!Init, Queue!AbstractFifo!Init
<1>2. QueueInv /\ [Queue!Next]_(Queue!vars) => [Queue!AbstractFifo!Next]_<<deque, got>> BY FifoStep
<1>3. Queue!Spec => []QueueInv BY QueueSpec
<1> QED BY <1>1, <1>2, <1>3, PTL DEF Queue!Spec, Queue!ImplementsFifo, Queue!AbstractFifo!Spec

-----------------------------------------------------------------------------
(* One request: ServerRequest *)

CONSTANTS BUFFER_BLOCK, MaxLength

VARIABLES BufferCap, BuffernLength

Request == INSTANCE ServerRequest

\* Rounding down to blocks loses less than a block and no other bit.
LEMMA MaskedBound ==
  ASSUME Request!ServerRequestAssumption, NEW n \in Nat, n < BUFFER_BLOCK * BUFFER_BLOCK
  PROVE  Request!Masked(n) \in Nat /\ Request!Masked(n) > n - BUFFER_BLOCK /\ Request!Masked(n) <= n
<1> DEFINE low == n - (n % BUFFER_BLOCK)
           square == BUFFER_BLOCK * BUFFER_BLOCK
<1>1. BUFFER_BLOCK \in Nat \ {0} BY DEF Request!ServerRequestAssumption
<1>2. n % BUFFER_BLOCK \in 0..(BUFFER_BLOCK - 1) BY <1>1
<1>3. n % BUFFER_BLOCK <= n BY <1>1
<1>4. low \in Nat /\ low > n - BUFFER_BLOCK /\ low <= n BY <1>1, <1>2, <1>3
<1>5. square \in Nat \ {0} BY <1>1
<1>6. low < square BY <1>4, <1>5
<1>7. low \div square = 0
  <2> HIDE DEF low, square
  <2> QED BY <1>4, <1>5, <1>6
<1>8. Request!Masked(n) = low BY <1>7 DEF Request!Masked
<1> QED BY <1>4, <1>8

RequestInv == Request!TypeOK /\ Request!Fits

\* A call keeps the bytes within the buffer and never makes it smaller.
LEMMA RequestStep ==
  ASSUME Request!ServerRequestAssumption, RequestInv, NEW length \in 0..MaxLength, Request!InputBuffer(length)
  PROVE  RequestInv' /\ BufferCap' >= BufferCap
<1> DEFINE cap == IF BufferCap = 0 THEN BUFFER_BLOCK ELSE BufferCap
           total == BuffernLength + length
<1> USE DEF Request!ServerRequestAssumption
<1>1. /\ BufferCap \in Nat /\ BuffernLength \in Nat
      /\ total \in Nat /\ total <= MaxLength
      /\ BufferCap' = (IF total >= cap THEN Request!Masked(total + BUFFER_BLOCK) ELSE cap)
      /\ BuffernLength' = total
  BY DEF RequestInv, Request!TypeOK, Request!InputBuffer
<1>2. cap \in Nat /\ cap >= BufferCap /\ cap > 0 BY <1>1
<1>3. CASE total >= cap
  <2>1. BufferCap' = Request!Masked(total + BUFFER_BLOCK) BY <1>1, <1>3
  <2>2. total + BUFFER_BLOCK \in Nat /\ total + BUFFER_BLOCK < BUFFER_BLOCK * BUFFER_BLOCK
    BY <1>1
  <2>3. BufferCap' \in Nat /\ BufferCap' > total BY <1>1, <2>1, <2>2, MaskedBound
  <2>4. BufferCap' >= BufferCap BY <1>1, <1>2, <1>3, <2>3
  <2> QED BY <1>1, <2>3, <2>4 DEF RequestInv, Request!TypeOK, Request!Fits
<1>4. CASE ~(total >= cap)
  <2>1. BufferCap' = cap BY <1>1, <1>4
  <2> QED BY <1>1, <1>2, <1>4, <2>1 DEF RequestInv, Request!TypeOK, Request!Fits
<1> QED BY <1>3, <1>4

LEMMA RequestNext ==
  ASSUME Request!ServerRequestAssumption, RequestInv, [Request!Next]_(Request!vars)
  PROVE  RequestInv'
<1>1. CASE UNCHANGED Request!vars BY <1>1 DEF Request!vars, RequestInv, Request!TypeOK, Request!Fits
<1>2. CASE Request!Next BY <1>2, RequestStep DEF Request!Next
<1> QED BY <1>1, <1>2

LEMMA RequestSpec ==
  ASSUME Request!ServerRequestAssumption
  PROVE  Request!Spec => []RequestInv
<1>1. Request!Init => RequestInv BY DEF Request!ServerRequestAssumption, Request!Init, RequestInv, Request!TypeOK, Request!Fits
<1>2. RequestInv /\ [Request!Next]_(Request!vars) => RequestInv' BY RequestNext
<1> QED BY <1>1, <1>2, PTL DEF Request!Spec

\* Whatever sizes the reads of a request have, its bytes fit into its buffer.
THEOREM RequestFits ==
  ASSUME Request!ServerRequestAssumption
  PROVE  Request!Spec => []Request!Fits
<1>1. RequestInv => Request!Fits BY DEF RequestInv
<1>2. Request!Spec => []RequestInv BY RequestSpec
<1> QED BY <1>1, <1>2, PTL
=============================================================================
