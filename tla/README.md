# hatch: TLA+ models and proofs

The repository collects several programs.  The largest that is its own work is
**hatchNet** (`src/hatchNet-V100R001C01`), a chat program for Windows over UDP:
one binary, built as server or client by `SERVICES_TYPE`.  It is modelled from
its critical sections up to a server with several clients.  Beside it are models
of the **dfs directory service** (`src/dfs/cplusplus/src/dir`) and of the **safe
write** of the file manager (`src/hatch/file_mng`).  What is left out is under
*Not modelled*.

## How hatchNet works

`main` (hatchStart.cpp) initialises the application and calls
`CHatchApp::hatchMain` (hatchWinApp.cpp), which pushes three runners (four in a
client) into a **thread pool** of four workers:

| runner | loop | waits for, in this order |
|---|---|---|
| recv | `hatchPacketRecvProc` | end event (polled), then `select` with a timeout |
| send | `hatchPacketSendProc` | send list, end event |
| packet | `hatchPacketProc` | receive list, temp list, end event |
| text (client) | `hatchTextProc` | `m_eventStartText`, then `cin` |

Between them are three **message lists** (receive, send, temp), each a
`std::queue` with a critical section and a counting semaphore.  The packet
runner calls the **protocol** handlers, which work on the **user list** and push
messages on the send list.  A client logs in (`Login`), is told the result, and
the server sends an `Update` about the new user to everybody.  Older clients add
the user and answer with a `BackSyn`, from which the new one learns of them.  At
`close` a client sends `Logout` and sets the end event.  `hatchMain` waits for
this event, ends the pool and waits for its threads.

## The other programs

* **Directory service.** `main` makes a dispatcher with a blocking queue and an
  epoll server, starts a thread for each and joins the dispatcher.  The server
  reads from the connections and puts a request per read; the dispatcher takes
  and deletes them.  SIGINT runs `shutdown` on any thread.
* **File manager.** `safe_write_file` replaces a file by way of `fn.tmp`, fsync,
  rename and an fsync of the directory.

## Modules

| module | models | role |
|---|---|---|
| `MsgList` | `CHatchMsgList` on one list | one action per call on the lock, the semaphore or the queue |
| `BoundedFifo` | what a list promises | abstract specification of `MsgList` |
| `MsgListProofs` | | proofs about `MsgList` |
| `ThreadPool` | `CHatchThreadSimplePool`, `hatchThreadProc` | creation, push, release, wait, pop, run, end |
| `TaskPool` | what the pool promises | abstract specification of `ThreadPool` |
| `ThreadPoolProofs` | | proofs about `ThreadPool` |
| `Protocol` | handlers, dispatch, user list, requests | operators: list and message to new list, messages out, events set |
| `HatchApp` | one process: `hatchMain`, four runners, lists, events | composes `TaskPool`, bounded lists and `Protocol` |
| `HatchAppProofs` | | proofs about `HatchApp` |
| `Chat` | a server and its clients over UDP | composes `Protocol` with channels |
| `Registry` | what login and logout promise | abstract specification of `Chat` |
| `ChatProofs` | | proofs about `Chat` and the register it implements |
| `UserList` | `CHatchUserList` under three threads of a client | one action per call on the critical section or the vector |
| `UserListProofs` | | proofs about `UserList` |
| `Startup` | `main`, `hatchInitialize`, `hatchFactory`, `hatchBind`, `hatchDetroy` | processes that start on one host |
| `StartupProofs` | | proofs about `Startup` |
| `BlockingQueue` | `CBlockingQueue` | one action per call on the mutex, the condition variable or the deque |
| `Fifo` | what the queue promises | abstract specification of `BlockingQueue` |
| `DirService` | `main`, server, dispatcher, SIGINT handler, clients | composes the threads with an atomic queue |
| `ServerRequest` | `CServerRequest::InputBuffer` | growth of the buffer |
| `DirServiceProofs` | | proofs about `DirService`, `BlockingQueue` and `ServerRequest` |
| `SafeFile`, `SafeFileProofs` | `safe_write_file` on a file system that crashes | protocol of calls, and its proofs |
| `MC...` | | instances for TLC |

How state and actions correspond to the code:

* **MsgList.** `owner` is the critical section, `count` the semaphore, `list` the
  queue, `pc` and `hand` the threads.  A push is EnterPush, Release, Push,
  LeavePush; a pop is WaitSemaphore, EnterPop, Pop, LeavePop, Handle.
  `front()` of an empty queue gives the value `Undefined`.
* **ThreadPool.** `m_listRunner` is touched only inside the pool's critical
  section, which covers nothing else that is shared, so a section is one step.
  The release of the semaphore in `hatchPush` comes after the section and is a
  step of its own.  The end event is first in the array a worker waits on, so it
  wins over the semaphore.  A failing `CreateThread` ends `hatchInitialize` and
  with it the process.
* **Protocol.** A message has a type, a peer, a name and a user address.
  `m_msgFromAddr` is the sender of a received message and the receiver of a sent
  one, and so is the peer.  The handlers that answer with the message itself
  (the login reply, the `Update` answer, `BackSyn`) do so here too.
  `hatchMsgUpdateUp` copies its body four bytes too early, so its message has no
  known type when it arrives: the model sends type `garbled`.
* **HatchApp.** A push on a list, or a wait with its pop, is one step, as
  `MsgList` implements `BoundedFifo`; a claimed message counts as popped.  A
  handler changes the list of users in one step, and the messages it sends are
  pushed one by one (`pending`), because the sender runs between two pushes.  A
  full list drops the message; if that is the reply to a login, the login is
  undone.  The text runner reads the client's own name once, when the start event
  has come (`sOwnerName`); if its wait fails it logs out and ends the services.
* **Chat.** A process handles one message at a time, so a delivery is one step.
  The lists of two processes and the network between them are one channel.
  Unordered channels deliver in any order or not at all; a message that stays in
  one is a lost message, and a client that takes no further step is a killed one.
  What is on its way to a client when it exits, or sent to it later, is lost.
  Texts between clients change no state except for hidden users, which no code
  creates, and are left out here (`HatchApp` has them).
* **Registry.** What is on its way to the server or back is a set of clients, and
  the server's list a set of entries.  `Chat` maps to it by the messages that are
  in its channels.
* **UserList.** `list` is the vector; an iterator is a position and the buffer it
  points into, and `PushBack` may move the vector to a new one.  A section left
  by a thread that does not hold it is undefined on Windows: `LeaveOutcomes` lets
  it change nothing, free another thread's section, or break a free one so that
  nobody enters it again.  The packet runner's handlers are the sequences of
  calls that `Protocol` treats as one step; `HandlerIsAtomic` says that they may
  be, as long as the main thread does not rename the client meanwhile.
* **Startup.** `bound` says who holds each port, other programs included; `users`
  is the ports in the user list, `objects` what exists.  Each step may fail.
  `hatchInitialize` looks at the results of the log, the pool and the services;
  that a semaphore or event of `hatchInitializeGlobalVar` or a service of
  `hatchFactory` was not made goes unnoticed.  `front()` of the service list is
  then undefined: it gives anything or crashes.
* **BlockingQueue.** `notify_one` wakes any one waiting consumer or none if nobody
  waits, and a consumer may wake without it.  `take` tests the deque again.
* **DirService.** The queue is atomic, which `QueueImplementsFifo` justifies.  A
  signal handler stops the thread it runs on.  `epoll_wait` is level-triggered.
  `pthread_join` of a thread another one waits for fails at once (`joiner` is who
  came first), and nobody looks at its result.  `InitServer`, `accept`, `AddFd` and
  `recv` may fail; a failed `recv` gives `InputBuffer` a length of -1 and crashes.
  What a thread does with the deleted dispatcher goes on or crashes.
* **SafeFile.** The directory is two names; `dirs` is the set of directories a
  crash may leave, and of a file not fsynced any prefix may be left.  `tmp` is
  opened with `O_TRUNC`.  `since` is a history variable: the value last reported
  as written and those given to later calls.

## Runs

| run | checks | shows |
|---|---|---|
| `msglist` | `TypeOK`, `ListInvariant`, `PopDefined`, `LengthBounded`, `ImplementsFifo`, `StoredIsHandled` | units and messages stay in step, so nobody pops an empty queue although nobody checks; nothing lost, doubled or reordered; a stored message is handled |
| `threadpool` | `PoolInvariant`, `PopFindsRunner`, `ImplementsTaskPool`, `PushedIsStarted`, `EndReturns` | a worker that was woken finds a runner; every runner is in one place, and is started unless all workers stay busy; the end returns unless a runner never does |
| `app_client` | `TypeOK`, `LogoutIsSent`, `TextRunnerInScope`, `CloseExits`, `SignalledTasksEnd` | "close" ends the process and its Logout leaves it first |
| `app_server` | `ListedIsAnswered`, `SignalledTasksEnd` | a listed user has been answered, full lists included; the end event ends the tasks |
| `app_leftover` | `SignalledTasksEnd`, violated | see below |
| `chat_unordered` | `TypeOK`, `ChattingIsListed`, `UniqueNames`, `ImplementsRegistry` | over a network that loses and reorders, a client that chats is in the server's list, alone under its name |
| `chat_ordered` | `StaysLoggedIn`, `MutualKnowledge` | over an ordered network nobody is thrown back, and users get to know each other |
| `chat_reuse` | `OldSynchronizedToNew`, violated | see below |
| `userlist` | `TypeOK`, `RunnerIteratorFresh`, `HandlerIsAtomic` | the packet runner's iterators stay valid and its handlers are atomic unless the client is renamed meanwhile, even with a section left twice |
| `startup` | `RunsBound`, `StartedIsComplete`, `SearchEnds` | runners start only after the steps whose result `hatchInitialize` looks at; a process with a service holds the port it tells the others; the search ends |
| `dir_service` | `TypeOK`, `NoRequestAfterDispatcher`, `EveryRequestProcessed`, `ExitsFromServerThread` | requests are processed, none is put after the dispatcher ended, and a SIGINT on the server thread ends the process |
| `safe_file` | `TypeOK`, `WholeValues`, `WrittenIsDurable`, `NothingOlderReturns` | the file holds a whole value after any crash, a written one stays, and none older than it comes back |

The two violated runs show disagreements between the code and its comments.

* **A leftover Logout.**  hatchGlobal.h:26 says that the tasks of the pool end
  when the end event is signalled.  A client started at the address of one that
  has just closed (the port is fixed) can get the answer to that one's `Logout`.
  If its user has typed the same name, `hatchMsgLogout` sets the end event while
  the text task waits for `m_eventStartText` or for `cin`.  The text task does
  not look at the event, so it goes on and `hatchEnd` waits for it.
* **A name used twice.**  hatchCommonFile.h:104 and hatchProtocol.cpp:454 say
  that BackSyn synchronises old users to the new one.  A `BackSyn` comes from the
  user, its `Logout` from the server, so the `BackSyn` may come last and adds a
  user that is gone.  When the name is used again, the client has an entry under
  it, adds nothing and sends no `BackSyn`.  `MutualKnowledge` is the same
  property for names nobody else has used, and holds.

### Known not to hold

Some properties are defined in the modules, each with a comment, and are in no
run because the code does not have them.  Adding one to the module's `.cfg`, as an
INVARIANT (`ExitsOnInterrupt` as a PROPERTY), gives the counterexample.

* `IteratorsFresh`, `SectionExcludes` (`UserList`): `hatchLocateUser` returns an
  iterator after it left the section, and the main and text threads follow it
  there; `hatchIsUserInList` leaves the section twice when it finds the user, and
  may free another thread's.  hatchGlobal.h:30 declares the section as the list's
  synchronisation variable.
* `OwnIsSecond` (`UserList`): a Logout is compared with the client's old name
  while the main thread sets the name just typed; the entry taken out can then be
  the client's own, which hatchServices.cpp:85 keeps second.
* `FirstUserIsServer` (`Startup`): the server moves to the next port when its own
  is taken, and the first user of every client (hatchServices.cpp:36) does not.
* `LogDestroyedLast` (`Startup`): the log is deleted while objects of
  `hatchFactory` remain (hatchWinApp.cpp:158).
* `ExitsOnInterrupt` (`DirService`): the SIGINT handler joins threads that wait
  without an end, after dir.cpp:102 has logged "exiting now".
* `DeletedUnused` (`DirService`): while the handler waits for the dispatcher,
  main's own join fails, and main deletes what the threads still use.
* `ReportedOnce` (`DirService`): connections are level-triggered and stay armed,
  while CRPCNIOSocketServer.cpp:102 says edge-triggered and one shot.
* `UnchangedIsCorrect` (`SafeFile`): a file longer than the buffer it is compared
  in passes for its own beginning, so a call answers "yes" (hat_add_file.cpp:32,36)
  and leaves another value.

### Bounds

* MsgList: 3 producers and 2 consumers (hatchNet has at most three threads that
  push on one list and one that pops), 2 messages, maximal length 2: full and
  empty lists, refused pushes and two claims at once all happen.
* ThreadPool: 3 workers for 4 runners, so that a runner waits for a worker.
  `MaxCount` is the number of runners; `SEMAPHORE_MAX_COUNT` is far larger.
* HatchApp: lists of length 1 (`MaxLength`), so that each is full at once;
  3 messages delivered (`MaxArrivals`), 2 in `app_leftover`; one word typed
  before "close" (`MaxLines`).  A client gets its grant, its own and another's
  `Update`, a `BackSyn`, texts and Logouts, as `MCHatchApp` lists them.
* Chat: 3 clients, each started once, with 2 names (so that one is used twice)
  or 3.  With two clients the reuse of a name could not happen beside a third
  client that sees it.  Names and addresses are symmetric.
* UserList: 3 messages of any type (`MaxMessages`) and 2 names: a push moves the
  vector while another thread has an iterator, and a user found is then removed.
* Startup: one server and one client on one host, 3 ports from the server's start
  to `MaxPort`, any of them held by others; 2 tries per log file (`tryCount`).
* DirService: 2 connections, 1 unread byte each (`MaxBytes`), 2 requests
  (`MaxRequests`): the queue holds several, and one SIGINT comes at any point.
* SafeFile: 3 calls, 2 crashes, values of 0, 1, 2 and 3 bytes with an `oldval` of 2
  (80 in the code): shorter than the buffer, filling it and longer.

Deadlock is checked for MsgList and ThreadPool.  The others may stop: the process
ends, all clients are gone, a bound is reached, or, in DirService, everybody waits
for the next client.

### Fairness

* A thread that can go on does.  MsgList needs strong fairness of `EnterPop`: a
  consumer that keeps finding the critical section free in between gets it in
  the end (the Windows critical section does not starve a waiter for ever).
* ThreadPool assumes nothing of the runners: `EndReturns` allows one that never
  returns.
* HatchApp: `select` returns at its timeout at the latest; the pool starts its
  runners while it is not ended (that is ThreadPool's `PushedIsStarted`).
  Nothing makes a user type, a peer send or the operator press a key.
* Chat's properties are invariants and need none.
* DirService: main, server, dispatcher and handler go on when they can.  Nothing
  makes a client send, a signal come or a call fail.
* Startup: a process goes on; no call has to fail, and no other program has to
  free its port.

## Proofs

TLC checks the instances above; the following hold for all values of the
constants that meet the ASSUMEs of the modules or the theorems' hypotheses.

* **MsgList** (`MsgListProofs`): `ListInvariantHolds`, `ListTypesHold`,
  `PopIsDefined`, `LengthIsBounded`, `ListImplementsFifo`.  Assumed: producers and
  consumers are disjoint, consumers finite, the maximal length is positive.  That
  nobody pops an empty queue is not inductive.  The invariant is that units waiting
  plus units taken equal messages plus the one a producer is about to store
  (`UnitsMatchMessages`), which in turn needs the exclusion of the critical
  section (`Exclusive`) and what each thread holds (`HandsMatch`).  A consumer
  inside the section has a unit, nobody is about to store, so there is a message.
  The refinement follows step by step: Push and a refused Release are the FIFO's
  put, Pop is its get, all other steps stutter.
* **ThreadPool** (`ThreadPoolProofs`): `PoolInvariantHolds`,
  `WokenWorkerFindsRunner`, `PoolImplementsTaskPool`.  Assumed: workers and
  runners are finite, and there are no more runners than the semaphore's maximum.
  `PoolInvariant` says that units, taken units and the pending release equal the
  runners of the list (`UnitsMatchRunners`), that the maximum is out of reach
  (`ListFits`), that each pushed runner is in one place (`RunnersPlaced`) and what
  the phases of the main thread imply (`PhasesMatch`).  The refinement maps a
  runner to new, queued, running or done; `PopTakesHead` and `PushAddsRunner` say
  what happens to the list.
* **Chat** (`ChatProofs`): `ListsKeepShape`, `RegisterIsConsistent`,
  `ChattingStaysListed`, `NamesAreUnique` and `ChatImplementsRegistry`, for any
  finite set of clients, any names, any number of messages on their way and any
  loss and order; `ChattingStaysLoggedIn`, for channels that keep the order.
  Assumed: nobody is called "server", "error" or "client_init" (the server refuses
  the first; the other two are marks of the protocol that a user who types them
  would be mistaken for).  That names are unique is not inductive: a Logout must not
  take out another's entry.  The invariant `Inv` has three parts.  `Lists` says that
  the server's list has each name once and a client is second in its own.  `Wire`
  says that at most one request of a client and at most one reply are on their way,
  and which kinds of messages a channel holds.  `Register` is the invariant of
  Registry under the refinement mapping: where the Login, the reply and the Logout
  of each client can be and when it is listed.  Each step of `Chat` is shown to be
  one of Registry or to stutter, and each step of Registry to keep `Register`.  The
  lemmas say what one handler does to the list and what it sends; what a channel
  gets of it (`Addressed`, a recursive function) is established at the least place
  where it could fail.  `ChattingStaysLoggedIn` needs `Ordering` besides: the
  client's own Update comes right after the reply to its Login, and nobody logs out
  under its name while it chats.
* **HatchApp** (`HatchAppProofs`): `ListsBounded`, `CloseSendsLogout`,
  `TextRunnerStaysInScope`, `NobodyUntold`, for any length of the lists and any
  messages and names.  Assumed: no Logout of a user called "server" reaches a client
  (the server refuses such a login); for the second and third theorem, no answers to
  an earlier process at the address arrive (`~Leftovers`; `app_leftover` shows what
  happens otherwise).  `Ordered` follows a client from its Login request to the text
  runner and from its Logout request to the end event: the text runner reads only
  after a Login was answered, and only an answer to a Logout it sent, or its own
  end, ends the process.  `Answered` says that only the last user of a server may still
  wait for a reply, which is then the next message to be pushed; so the login that
  is undone when the push fails is that user's.
* **UserList** (`UserListProofs`): `ListKeepsTypes`, `RunnerFollowsFresh`,
  `HandlersAreAtomic`, for any names and messages and whatever leaving a section
  twice does: the exclusion of the section is not used.  The third is about handlers
  during which the main thread does not rename the client; one that it overtakes may
  mix both names (`OwnIsSecond`).  Assumed: nobody is called "server" or
  "client_init".  The argument is that the packet runner alone changes
  the length of the list, the main thread renames the second entry once, and the text
  runner reads.  `Control` says which call of which handler is at which step;
  `Place` that what was found is still there; `Third` that a Logout takes out an entry
  only when there are three; `Undisturbed` that, while nobody renames the
  client, the list is what it was or what the handler of `Protocol` makes of it.  The
  invariant holds them together: that the list keeps its shape needs `Third`, which
  needs what the handler found out before.
* **Startup** (`StartupProofs`): `RunningIsBound`, for processes that have a service,
  and `RunningIsComplete`, for any processes, ports and tries.  Assumed: a process is
  server or client, and the client's start value for its port is not one that it
  searches.  Processes meet in `bound` only, so the invariant says of each process
  which logs are open, which objects exist, which port it holds and what its own
  entry says at each stage.
* **DirService** (`DirServiceProofs`): `NoRequestLost`, `NothingReceivedUnserved`, for
  any connections, bytes and requests.  The latter says where the server thread is
  when the dispatcher has ended.  This follows from the order of the handler's steps
  (`Stopping`); that a thread not started counts as joined is harmless because of the
  order in which main starts them (`Starting`).
* **BlockingQueue** (`DirServiceProofs`, through the instance `Queue`):
  `TakeIsDefined`, `QueueImplementsFifo`.  Assumed: producers and consumers are
  disjoint.  The invariant adds that whoever is between locking and unlocking owns
  the mutex (`Owned`) and what a thread holds (`HandsEmpty`).  The push is the FIFO's
  put, the pop its get.
* **ServerRequest** (`DirServiceProofs`, through the instance `Request`):
  `RequestFits`.  Assumed: the longest request and one block stay below the block
  squared.  The server appends at most 8024 bytes to a request, once, with a block
  of 1024.
* **SafeFile** (`SafeFileProofs`): `TypesHold`, `FileIsWhole`, `WrittenStays`,
  `OlderStaysGone`, for any values, calls and crashes.  The invariant says that every
  directory a crash may leave names a file that is whole, fsynced, not `tmp` and of a
  value in `since` (`FilesSafe`), that a file the call has yet to make is in none of
  them (`Fresh`), how far `tmp` is written (`Progress`), and that after a write only
  one directory may be left (`Durable`).

TLC finds each of these invariants true on a small instance: the one of the
component's run, for the queue two producers, two consumers and two items, and for
a request a block of 8 and up to 55 bytes.  The lemmas about user lists stand in
each module that needs them, with the entries of that module.

Only model-checked:

* liveness (`StoredIsHandled`, `PushedIsStarted`, `EndReturns`, `CloseExits`,
  `SignalledTasksEnd`, `EveryRequestProcessed`, `ExitsFromServerThread`,
  `SearchEnds`), which needs fairness and ENABLED, beyond the prover;
* `MutualKnowledge`, which relates the lists of two clients, the three channels
  between them and the server, and every name used before: its invariant has to say
  for each pair where the Update or the BackSyn is that one has not handled yet.

Only proved, without a run: Registry's own invariants (TLC checks that Chat
implements it), BlockingQueue and ServerRequest.  The assumptions of the last two
are hypotheses of their theorems.  That every item of the queue is taken in the
end is therefore not shown.

## Not modelled

Every part of the repository and its status is in `PROJECT.json`, with the
hazards at their lines.

hatchNet:

* the life of message buffers (who deletes them) and the layout of packets apart
  from `hatchMsgUpdateUp`; running out of memory;
* duplicated UDP datagrams; status messages and the LMT protocol, which the
  dispatch drops;
* code without callers: `CHatchTimerQueue`, `hatchPushReadMsgGroup`,
  `hatchPushTempMsgGroup`, the TCP wrappers, `CHatchServerRecvRunner`,
  `CHatchServerSendRunner`; the lines of the log, `CHatchList` and the empty
  classes.

The other programs:

* dfs: a thread that cannot be made, a second SIGINT, other signals except that one
  interrupts `epoll_wait`;
* file manager: the copy into an archive, `hat_update_file_header` and the listing
  of directories;
* packageFile, the heap sorts and the small tools: sequential programs;
* `inter_tcp` and the hat_mn watchdog.

The vendored trees (PostgreSQL, BenchmarkSQL, SQLite, lex output) are not this
project's code and are by far the most of its lines.

## Plan

1. Buffers: each message buffer has one owner, is deleted once and not read
   afterwards, over the lists and handlers.
2. Chat with duplicated datagrams and restarted clients.
3. `inter_tcp`: transfer loops over partial reads and writes; the hat_mn watchdog.
4. A proof of `MutualKnowledge`.
