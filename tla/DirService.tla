----------------------------- MODULE DirService -----------------------------
(***************************************************************************)
(* The directory service (src/dfs): the main thread starts a server thread *)
(* and a dispatcher thread and joins the dispatcher; the server thread     *)
(* turns what epoll reports into requests on the queue, the dispatcher     *)
(* takes and processes them.  The queue is Fifo, which BlockingQueue       *)
(* implements.  SIGINT runs its handler on any one of the threads, which   *)
(* stops where it is: the handler shuts the service down and exits.  One   *)
(* SIGINT comes at most.                                                   *)
(***************************************************************************)
EXTENDS Naturals, Sequences

CONSTANTS Conns,        \* the connections clients make
          MaxBytes,     \* bound: bytes a client sends
          MaxRequests   \* bound: requests the server thread makes

ASSUME DirServiceAssumption == MaxBytes \in Nat /\ MaxRequests \in Nat

VARIABLES main, srv, disp,   \* where each thread is
          handler,           \* the SIGINT handler: its thread and its step
          listening,         \* down: no epoll set, deaf: without the server's socket, up
          joiner,            \* who is in pthread_join of the dispatcher
          quitS, quitD,      \* the quit flags of the server and the dispatcher
          batch,             \* the events of the last epoll_wait not yet handled
          conn,              \* per connection: none, knocking (not accepted), open,
                             \* unwatched (not in the epoll set)
          pending, closed,   \* per connection: bytes to read; closed by the client
          reports,           \* per connection: events handled since AddFd
          queue,             \* requests, each the number of bytes it holds
          received, processed

vars == <<main, srv, disp, handler, listening, joiner, quitS, quitD, batch, conn, pending,
          closed, reports, queue, received, processed>>
net == <<conn, pending, closed>>
shared == <<handler, listening, joiner, quitS, quitD>>
requests == <<queue, received, processed>>

Ended == {"returned", "exited", "crashed"}
Running == main \notin Ended
Free(t) == Running /\ handler.on # t
Listen == "listen"

Init ==
  /\ main = "begin" /\ srv = "none" /\ disp = "none"
  /\ handler = [on |-> "none", step |-> "none"]
  /\ listening = "down" /\ joiner = "nobody"
  /\ quitS = FALSE /\ quitD = FALSE
  /\ batch = {}
  /\ conn = [c \in Conns |-> "none"]
  /\ pending = [c \in Conns |-> 0]
  /\ closed = [c \in Conns |-> FALSE]
  /\ reports = [c \in Conns |-> 0]
  /\ queue = <<>> /\ received = 0 /\ processed = 0

-----------------------------------------------------------------------------
(* the main thread *)

MainStep(from, to) == Free("main") /\ main = from /\ main' = to

Create ==
  /\ MainStep("begin", "created")
  /\ UNCHANGED <<srv, disp, shared, batch, net, reports, requests>>

\* InitServer makes the socket and the epoll set, or fails on the way
InitServer == listening' \in {"down", "deaf", "up"}

\* main does not look at the result of InitDirDispatcher
InitDirDispatcher ==
  /\ MainStep("created", "initialised")
  /\ InitServer
  /\ UNCHANGED <<srv, disp, handler, joiner, quitS, quitD, batch, net, reports, requests>>

StartServer ==
  /\ MainStep("initialised", "starting")
  /\ srv' = "loop"
  /\ UNCHANGED <<disp, shared, batch, net, reports, requests>>

StartDispatcher ==
  /\ MainStep("starting", "started")
  /\ disp' = "loop"
  /\ UNCHANGED <<srv, shared, batch, net, reports, requests>>

\* join: the first of main and the handler to call pthread_join waits in it
Join ==
  /\ MainStep("started", "join")
  /\ joiner = "nobody" /\ joiner' = "main"
  /\ UNCHANGED <<srv, disp, handler, listening, quitS, quitD, batch, net, reports, requests>>

\* join() returned, at once with EINVAL when the handler waits for the thread:
\* delete dirDisp, with the server and the queue in it
Delete ==
  /\ \/ MainStep("join", "deleted") /\ disp = "ended"
     \/ MainStep("started", "deleted") /\ joiner = "handler"
  /\ UNCHANGED <<srv, disp, shared, batch, net, reports, requests>>

Return ==
  /\ MainStep("deleted", "returned")
  /\ UNCHANGED <<srv, disp, shared, batch, net, reports, requests>>

Main == Create \/ InitDirDispatcher \/ StartServer \/ StartDispatcher \/ Join \/ Delete \/ Return

-----------------------------------------------------------------------------
(* the server thread *)

Ready ==
  { c \in Conns : conn[c] = "open" /\ (pending[c] > 0 \/ closed[c]) }
    \cup (IF listening = "up" /\ \E c \in Conns : conn[c] = "knocking" THEN {Listen} ELSE {})

SrvLoop ==
  /\ Free("srv") /\ srv = "loop"
  /\ srv' = IF quitS THEN "ended" ELSE "wait"
  /\ UNCHANGED <<main, disp, shared, batch, net, reports, requests>>

\* epoll_wait without a timeout; without an epoll set it fails at once
EpollWait ==
  /\ Free("srv") /\ srv = "wait"
  /\ \/ listening # "down" /\ Ready # {} /\ batch' = Ready /\ srv' = "events"
     \/ listening = "down" /\ srv' = "loop" /\ UNCHANGED batch
  /\ UNCHANGED <<main, disp, shared, net, reports, requests>>

\* another signal's handler ran on the thread: epoll_wait fails with EINTR
Interrupted ==
  /\ Free("srv") /\ srv = "wait"
  /\ srv' = "loop"
  /\ UNCHANGED <<main, disp, shared, batch, net, reports, requests>>

\* what AddFd returns is not looked at
Accept(c) ==
  /\ Free("srv") /\ srv = "events"
  /\ Listen \in batch
  /\ conn[c] = "knocking"
  /\ \E watched \in {"open", "unwatched"} : conn' = [conn EXCEPT ![c] = watched]
  /\ batch' = batch \ {Listen}
  /\ UNCHANGED <<main, srv, disp, shared, pending, closed, reports, requests>>

\* ProcessEvent returns, without the other events: epoll reports them again
AcceptFails ==
  /\ Free("srv") /\ srv = "events"
  /\ Listen \in batch
  /\ batch' = {}
  /\ srv' = "loop"
  /\ UNCHANGED <<main, disp, shared, net, reports, requests>>

\* a connection with nothing to read was closed: recv returns 0
Read(c) ==
  /\ Free("srv") /\ srv = "events"
  /\ c \in batch
  /\ received < MaxRequests
  /\ \E len \in IF pending[c] = 0 THEN {0} ELSE 1..pending[c] :
       /\ pending' = [pending EXCEPT ![c] = @ - len]
       /\ queue' = Append(queue, len)
  /\ received' = received + 1
  /\ reports' = [reports EXCEPT ![c] = @ + 1]
  /\ batch' = batch \ {c}
  /\ UNCHANGED <<main, srv, disp, shared, conn, closed, processed>>

\* The client reset the connection: recv returns -1, which InputBuffer gives to
\* memcpy as a size.
ReadFails(c) ==
  /\ Free("srv") /\ srv = "events"
  /\ c \in batch /\ closed[c]
  /\ main' = "crashed"
  /\ UNCHANGED <<srv, disp, shared, batch, net, reports, requests>>

EventsDone ==
  /\ Free("srv") /\ srv = "events"
  /\ batch = {}
  /\ srv' = "loop"
  /\ UNCHANGED <<main, disp, shared, batch, net, reports, requests>>

Server == SrvLoop \/ EpollWait \/ EventsDone \/ \E c \in Conns : Accept(c) \/ Read(c)

-----------------------------------------------------------------------------
(* the dispatcher thread *)

DispLoop ==
  /\ Free("disp") /\ disp = "loop"
  /\ disp' = IF quitD THEN "ended" ELSE "take"
  /\ UNCHANGED <<main, srv, shared, batch, net, reports, requests>>

\* seeded fault: take hands out the newest request and drops the others
ProcessRequest_Drops ==
  /\ Free("disp") /\ disp = "take"
  /\ queue # <<>>
  /\ queue' = <<>>
  /\ processed' = processed + 1
  /\ disp' = "loop"
  /\ UNCHANGED <<main, srv, shared, batch, net, reports, received>>

\* seeded fault: take wakes up for a second request only
ProcessRequest_Pairs ==
  /\ Free("disp") /\ disp = "take"
  /\ Len(queue) > 1
  /\ queue' = Tail(queue)
  /\ processed' = processed + 1
  /\ disp' = "loop"
  /\ UNCHANGED <<main, srv, shared, batch, net, reports, received>>

\* take, then ProcessRequest, which deletes the request
ProcessRequest ==
  /\ Free("disp") /\ disp = "take"
  /\ queue # <<>>
  /\ queue' = Tail(queue)
  /\ processed' = processed + 1
  /\ disp' = "loop"
  /\ UNCHANGED <<main, srv, shared, batch, net, reports, received>>

Dispatcher == DispLoop \/ ProcessRequest

-----------------------------------------------------------------------------
(* SIGINT: handle_signal, exit_nicely and the two shutdown functions *)

Threads == {"main"} \cup (IF srv \in {"none", "ended"} THEN {} ELSE {"srv"})
                    \cup (IF disp \in {"none", "ended"} THEN {} ELSE {"disp"})

\* A null dispatcher is not shut down; a null server is followed all the same.
Interrupt(t) ==
  /\ Running /\ handler.on = "none"
  /\ CASE main = "begin" -> main' = "exited" /\ UNCHANGED handler
       [] main = "created" -> main' = "crashed" /\ UNCHANGED handler
       [] OTHER -> handler' = [on |-> t, step |-> "server quit"] /\ UNCHANGED main
  /\ UNCHANGED <<srv, disp, listening, joiner, quitS, quitD, batch, net, reports, requests>>

To(step) == handler' = [handler EXCEPT !.step = step]

\* pthread_join of oneself fails at once, and a thread not started is not joined.
Joined(t, place) == handler.on = t \/ place \in {"none", "ended"}

\* seeded fault: the dispatcher is stopped before the server thread
HandlerStep_Swapped ==
  /\ Running
  /\ \/ /\ handler.step = "server quit" /\ To("server join")
        /\ quitD' = TRUE /\ UNCHANGED <<main, quitS>>
     \/ /\ handler.step = "server join" /\ (Joined("disp", disp) \/ joiner = "main")
        /\ To("dispatcher quit") /\ UNCHANGED <<main, quitS, quitD>>
     \/ /\ handler.step = "dispatcher quit" /\ To("dispatcher join")
        /\ quitS' = TRUE /\ UNCHANGED <<main, quitD>>
     \/ /\ handler.step = "dispatcher join" /\ Joined("srv", srv)
        /\ main' = "exited" /\ UNCHANGED <<handler, quitS, quitD>>
  /\ UNCHANGED <<srv, disp, listening, joiner, batch, net, reports, requests>>

\* seeded fault: the dispatcher is waited for by looking at its threadStatus
HandlerStep_Polls ==
  /\ Running
  /\ \/ /\ handler.step = "server quit" /\ To("server join")
        /\ quitS' = TRUE /\ UNCHANGED <<main, quitD>>
     \/ /\ handler.step = "server join" /\ Joined("srv", srv)
        /\ To("dispatcher quit") /\ UNCHANGED <<main, quitS, quitD>>
     \/ /\ handler.step = "dispatcher quit" /\ To("dispatcher join")
        /\ quitD' = TRUE /\ UNCHANGED <<main, quitS>>
     \/ /\ handler.step = "dispatcher join" /\ Joined("disp", disp)
        /\ main' = "exited" /\ UNCHANGED <<handler, quitS, quitD>>
  /\ UNCHANGED <<srv, disp, listening, joiner, batch, net, reports, requests>>

\* shutdown of the server, then of the dispatcher, and exit; pthread_join of a
\* thread main waits for fails at once with EINVAL
HandlerStep ==
  /\ Running
  /\ \/ /\ handler.step = "server quit" /\ To("server join")
        /\ quitS' = TRUE /\ UNCHANGED <<main, joiner, quitD>>
     \/ /\ handler.step = "server join" /\ Joined("srv", srv)
        /\ To("dispatcher quit") /\ UNCHANGED <<main, joiner, quitS, quitD>>
     \/ /\ handler.step = "dispatcher quit" /\ To("dispatcher join")
        /\ quitD' = TRUE /\ UNCHANGED <<main, joiner, quitS>>
     \/ /\ handler.step = "dispatcher join" /\ ~Joined("disp", disp) /\ joiner = "nobody"
        /\ joiner' = "handler" /\ UNCHANGED <<main, handler, quitS, quitD>>
     \/ /\ handler.step = "dispatcher join" /\ (Joined("disp", disp) \/ joiner = "main")
        /\ main' = "exited" /\ UNCHANGED <<handler, joiner, quitS, quitD>>
  /\ UNCHANGED <<srv, disp, listening, batch, net, reports, requests>>

\* the dispatcher's thread is in run, or the handler is about to join it
InUse ==
  \/ handler.on # "disp" /\ disp \in {"loop", "take"}
  \/ handler.step = "dispatcher join" /\ joiner # "handler"

\* what follows a deleted dispatcher goes on as before, or crashes
UseDeleted ==
  /\ Running /\ main = "deleted"
  /\ InUse
  /\ main' = "crashed"
  /\ UNCHANGED <<srv, disp, shared, batch, net, reports, requests>>

-----------------------------------------------------------------------------
(* the clients, on the other side of the sockets *)

ClientStep == Running /\ UNCHANGED <<main, srv, disp, shared, batch, reports, requests>>

Connect(c) ==
  /\ listening # "down" /\ conn[c] = "none"
  /\ conn' = [conn EXCEPT ![c] = "knocking"]
  /\ UNCHANGED <<pending, closed>>
  /\ ClientStep

Send(c) ==
  /\ conn[c] # "none" /\ ~closed[c] /\ pending[c] < MaxBytes
  /\ pending' = [pending EXCEPT ![c] = @ + 1]
  /\ UNCHANGED <<conn, closed>>
  /\ ClientStep

Close(c) ==
  /\ conn[c] # "none" /\ ~closed[c]
  /\ closed' = [closed EXCEPT ![c] = TRUE]
  /\ UNCHANGED <<conn, pending>>
  /\ ClientStep

-----------------------------------------------------------------------------

Next ==
  \/ Main \/ Server \/ Interrupted \/ AcceptFails \/ Dispatcher \/ HandlerStep \/ UseDeleted
  \/ \E t \in Threads : Interrupt(t)
  \/ \E c \in Conns : ReadFails(c) \/ Connect(c) \/ Send(c) \/ Close(c)

Spec == Init /\ [][Next]_vars

\* The threads are scheduled; clients and signals owe nothing.
Fairness ==
  /\ WF_vars(Main) /\ WF_vars(Server) /\ WF_vars(Dispatcher) /\ WF_vars(HandlerStep)

FairSpec == Spec /\ Fairness

-----------------------------------------------------------------------------

\* The variables keep their types, and no request is lost or made up: those
\* received are the ones processed and the ones in the queue.
TypeOK ==
  /\ main \in {"begin", "created", "initialised", "starting", "started", "join", "deleted"} \cup Ended
  /\ srv \in {"none", "loop", "wait", "events", "ended"}
  /\ disp \in {"none", "loop", "take", "ended"}
  /\ joiner \in {"nobody", "main", "handler"}
  /\ \A c \in Conns : pending[c] \in 0..MaxBytes
  /\ \A i \in DOMAIN queue : queue[i] \in 0..MaxBytes
  /\ received = processed + Len(queue)

\* Shutdown stops the server before the dispatcher: once the dispatcher has
\* ended, on whichever thread the handler runs, no request is put any more.
NoRequestAfterDispatcher == [][received' # received => disp # "ended"]_vars

\* A received request is processed, unless SIGINT came.
EveryRequestProcessed ==
  \A n \in 1..MaxRequests :
    (received >= n) ~> (processed >= n \/ handler.on # "none" \/ main \in Ended)

\* A SIGINT the server thread gets ends the process, although that thread, the
\* dispatcher and main then wait for each other: whichever of the handler and
\* main calls pthread_join second does not wait.
ExitsFromServerThread == (handler.on = "srv") ~> (main \in Ended)

\* dir.cpp:102, "Caught SIGINT, exiting now".
ExitsOnInterrupt == (handler.on # "none") ~> (main \in Ended)

\* CRPCNIOSocketServer.cpp:102, a connection is added "default edgetrrige and
\* oneshot": nothing re-arms it, so it is reported once.
ReportedOnce == \A c \in Conns : reports[c] <= 1

\* CDIRRequestDispatcher.cpp:31, main deletes the dispatcher, its server and its
\* queue when no thread uses them any more.
DeletedUnused == main = "deleted" => ~InUse
=============================================================================
