------------------------------ MODULE Startup -------------------------------
(***************************************************************************)
(* hatchNet processes of one host from main (hatchStart.cpp) to their      *)
(* runners and, at the end, through hatchDetroy: the three log files and   *)
(* the retries of their creation, the steps of hatchInitialize and their   *)
(* failures, and hatchFactory with the port search of hatchBind.  The      *)
(* processes meet in the ports of the host, which other programs hold too. *)
(* What the runners do is HatchApp's subject; here they run.               *)
(***************************************************************************)
EXTENDS Integers, Sequences

CONSTANTS Servers, Clients,    \* processes built with SERVICES_TYPE 0 and 1
          SERVER_PORT_START,   \* where both search, by SERVICES_PORT
          CLIENT_PORT_START,   \* what hatchInitClient puts in the own entry
          MaxPort,             \* 65535
          tryCount             \* 10 tries to open a log file

Procs == Servers \cup Clients
Ports == SERVER_PORT_START..MaxPort

Free == "free"
Other == "other program"

ASSUME StartupAssumption ==
  /\ Servers \cap Clients = {} /\ {Free, Other} \cap Procs = {}
  /\ SERVER_PORT_START \in Nat /\ MaxPort \in Nat /\ SERVER_PORT_START <= MaxPort
  /\ CLIENT_PORT_START \in Nat \ Ports
  /\ tryCount \in Nat \ {0}

LogFiles == <<"RUN_LOG", "DEVICE_LOG", "MEMORY_LOG">>

VARIABLES bound,     \* who holds a port of the host
          pc,
          file,      \* hatchCreateLogFile: the log file it is at
          temp,      \* hatchCreateNewLogFile: tries left
          retCode,   \* hatchCreateLogFile: the least of its results
          opened,    \* log files that are open
          objects,   \* what exists of the objects hatchInitialize and hatchMain make
          users,     \* g_vectUserList: the ports of its entries
          port,      \* m_ownerAddress.sin_port
          services   \* g_frmServicesList: the sin_port of its entry

log == <<file, temp, retCode, opened>>
process == <<pc, log, objects, users, port, services>>
vars == <<bound, process>>

Init ==
  /\ bound \in [Ports -> {Free, Other}]
  /\ pc = [p \in Procs |-> "log"]
  /\ file = [p \in Procs |-> 1]
  /\ temp = [p \in Procs |-> tryCount]
  /\ retCode = [p \in Procs |-> 0]
  /\ opened = [p \in Procs |-> {}]
  /\ objects = [p \in Procs |-> {"log"}]
  /\ users = [p \in Procs |-> <<>>]
  /\ port = [p \in Procs |-> SERVER_PORT_START]
  /\ services = [p \in Procs |-> <<>>]

Goto(p, from, to) == pc[p] = from /\ pc' = [pc EXCEPT ![p] = to]
Make(p, new) == objects' = [objects EXCEPT ![p] = @ \cup new]

-----------------------------------------------------------------------------
(* hatchInitializeLog *)

\* seeded fault: only the last file's result is returned
LogResult_Last(p, ret) == ret

LogResult(p, ret) == IF ret < retCode[p] THEN ret ELSE retCode[p]

\* hatchCreateNewLogFile returns ret for this file
LogFileDone(p, ret) ==
  /\ retCode' = [retCode EXCEPT ![p] = LogResult(p, ret)]
  /\ temp' = [temp EXCEPT ![p] = tryCount]
  /\ IF file[p] < Len(LogFiles)
     THEN file' = [file EXCEPT ![p] = @ + 1] /\ UNCHANGED pc
     ELSE /\ Goto(p, "log", IF retCode'[p] = 0 THEN "globals" ELSE "error")
          /\ UNCHANGED file

\* a file that opens at the last try counts as a failure: temp is 0
LogOpens(p) ==
  /\ pc[p] = "log"
  /\ opened' = [opened EXCEPT ![p] = @ \cup {LogFiles[file[p]]}]
  /\ LogFileDone(p, IF temp[p] - 1 > 0 THEN 0 ELSE -1)
  /\ UNCHANGED <<bound, objects, users, port, services>>

LogOpenFails(p) ==
  /\ pc[p] = "log"
  /\ IF temp[p] > 1
     THEN temp' = [temp EXCEPT ![p] = @ - 1] /\ UNCHANGED <<pc, file, retCode>>
     ELSE LogFileDone(p, -1)
  /\ UNCHANGED <<bound, opened, objects, users, port, services>>

-----------------------------------------------------------------------------
(* the other steps of hatchInitialize *)

\* its result is 0 whatever the calls that make the lists' semaphores and the
\* runners' event return
hatchInitializeGlobalVar(p) ==
  /\ Goto(p, "globals", "pool")
  /\ \E made \in {{"sync"}, {}} : Make(p, made)
  /\ UNCHANGED <<bound, log, users, port, services>>

hatchInitializeThreadPool(p) ==
  /\ Goto(p, "pool", "services")
  /\ Make(p, {"pool", "net"})     \* and hatchInitializeNetLayer, which does not fail
  /\ UNCHANGED <<bound, log, users, port, services>>

ThreadPoolFails(p) ==
  /\ Goto(p, "pool", "error")
  /\ Make(p, {"pool"})
  /\ UNCHANGED <<bound, log, users, port, services>>

\* the server's entry, and in a client its own; the result of m_eventStartText's
\* hatchCreateEvent is not looked at
hatchInitializeServices(p) ==
  /\ Goto(p, "services", "socket")
  /\ Make(p, {"services"})
  /\ users' = [users EXCEPT ![p] = <<SERVER_PORT_START>> \o
                 (IF p \in Clients THEN <<CLIENT_PORT_START>> ELSE <<>>)]
  /\ UNCHANGED <<bound, log, port, services>>

-----------------------------------------------------------------------------
(* hatchMain: hatchFactory, whose result it does not look at *)

hatchCreateSocket(p) ==
  /\ Goto(p, "socket", "bind")
  /\ Make(p, {"frm", "baseNet"})
  /\ UNCHANGED <<bound, log, users, port, services>>

SocketFails(p) ==
  /\ Goto(p, "socket", "owner")
  /\ Make(p, {"frm", "baseNet"})
  /\ UNCHANGED <<bound, log, users, port, services>>

\* bind succeeds: the rest of hatchCreateNetServices, and hatchAddServiceList
Bound(p) ==
  /\ bound[port[p]] = Free
  /\ bound' = [bound EXCEPT ![port[p]] = p]
  /\ Goto(p, "bind", "owner")
  /\ Make(p, {"netLayer"})
  /\ services' = [services EXCEPT ![p] = <<port[p]>>]
  /\ UNCHANGED <<log, users, port>>

\* seeded fault: the next port is not tried, the same one is
NextPort_Same(p) ==
  /\ pc[p] = "bind" /\ bound[port[p]] # Free /\ port[p] < MaxPort
  /\ UNCHANGED vars

\* WSAEADDRINUSE
NextPort(p) ==
  /\ pc[p] = "bind" /\ bound[port[p]] # Free /\ port[p] < MaxPort
  /\ port' = [port EXCEPT ![p] = @ + 1]
  /\ UNCHANGED <<bound, pc, log, objects, users, services>>

\* no port is left
LastPort(p) ==
  /\ bound[port[p]] # Free /\ port[p] = MaxPort
  /\ Goto(p, "bind", "owner")
  /\ UNCHANGED <<bound, log, objects, users, port, services>>

\* any other error of bind
BindFails(p) ==
  /\ Goto(p, "bind", "owner")
  /\ UNCHANGED <<bound, log, objects, users, port, services>>

\* the service hatchMain takes its port from; front() of an empty list may be
\* anything
FrontPorts(p) == IF services[p] = <<>> THEN 0..MaxPort ELSE {services[p][1]}

\* seeded fault: the own entry gets the port the search began with
hatchSetOwnerAddr_Initial(p) ==
  /\ Goto(p, "owner", "running")
  /\ users' = IF p \in Clients THEN [users EXCEPT ![p][2] = SERVER_PORT_START] ELSE users
  /\ UNCHANGED <<bound, log, objects, port, services>>

\* a client's own entry gets the address of the service; then the runners are
\* made for the service's layer and pushed
hatchSetOwnerAddr(p) ==
  /\ Goto(p, "owner", "running")
  /\ \E n \in FrontPorts(p) :
       users' = IF p \in Clients THEN [users EXCEPT ![p][2] = n] ELSE users
  /\ UNCHANGED <<bound, log, objects, port, services>>

\* the other outcome of front() of an empty list
FrontCrashes(p) ==
  /\ services[p] = <<>>
  /\ Goto(p, "owner", "crashed")
  /\ UNCHANGED <<bound, log, objects, users, port, services>>

hatchMainReturns(p) ==
  /\ Goto(p, "running", "destroy")
  /\ UNCHANGED <<bound, log, objects, users, port, services>>

-----------------------------------------------------------------------------
(* hatchDetroy, and the end of the process, when the system frees its port *)

\* net manager, thread pool, services with the user list, and last the log
hatchDetroy(p) ==
  /\ Goto(p, "destroy", "done")
  /\ objects' = [objects EXCEPT ![p] = @ \ {"net", "pool", "services", "log"}]
  /\ users' = [users EXCEPT ![p] = <<>>]
  /\ opened' = [opened EXCEPT ![p] = {}]
  /\ UNCHANGED <<bound, file, temp, retCode, port, services>>

Exit(p) ==
  /\ pc[p] \in {"error", "crashed", "done"}
  /\ pc' = [pc EXCEPT ![p] = "exited"]
  /\ bound' = [n \in Ports |-> IF bound[n] = p THEN Free ELSE bound[n]]
  /\ UNCHANGED <<log, objects, users, port, services>>

\* another program ends
OtherLeaves(n) ==
  /\ bound[n] = Other
  /\ bound' = [bound EXCEPT ![n] = Free]
  /\ UNCHANGED process

Step(p) ==
  \/ LogOpens(p)
  \/ hatchInitializeGlobalVar(p) \/ hatchInitializeThreadPool(p) \/ hatchInitializeServices(p)
  \/ hatchCreateSocket(p) \/ Bound(p) \/ NextPort(p) \/ LastPort(p)
  \/ hatchSetOwnerAddr(p)
  \/ hatchDetroy(p) \/ Exit(p)

Fails(p) == LogOpenFails(p) \/ ThreadPoolFails(p) \/ SocketFails(p) \/ BindFails(p) \/ FrontCrashes(p)

Next ==
  \/ \E p \in Procs : Step(p) \/ Fails(p) \/ hatchMainReturns(p)
  \/ \E n \in Ports : OtherLeaves(n)

Spec == Init /\ [][Next]_vars

\* a process that can go on does; nothing makes a call fail, hatchMain return or
\* another program end
FairSpec == Spec /\ \A p \in Procs : WF_vars(Step(p))

-----------------------------------------------------------------------------

\* When the runners of a process run that made a network service, the port in
\* its service list is one it holds and nobody else does, and a client's own
\* entry, which it sends to the others, names that port, however many ports
\* hatchBind had to try.
RunsBound ==
  \A p \in Procs : pc[p] = "running" /\ services[p] # <<>> =>
    /\ \E n \in Ports : bound[n] = p /\ services[p] = <<n>>
    /\ p \in Clients => users[p][2] = services[p][1]

\* No runner is pushed unless the steps hatchInitialize can see failing succeeded,
\* all three log files and their tries included; what hatchInitializeGlobalVar
\* and hatchFactory could not make, nobody looks at.
StartedIsComplete ==
  \A p \in Procs : pc[p] = "running" =>
    /\ \A i \in 1..Len(LogFiles) : LogFiles[i] \in opened[p]
    /\ {"log", "pool", "net", "services"} \subseteq objects[p]

\* The port search of hatchBind ends, although ports are taken and freed by the
\* other processes while it goes on.
SearchEnds == \A p \in Procs : pc[p] = "bind" ~> pc[p] # "bind"

\* "the first user is the server's information" (hatchServices.cpp:36): the
\* entry a client sends its Login to is the port the server has.
FirstUserIsServer ==
  \A c \in Clients, s \in Servers :
    (pc[c] = "running" /\ pc[s] = "running" /\ services[s] # <<>>) => users[c][1] = services[s][1]

\* "other object must be destroy above" (hatchWinApp.cpp:158): when the log is
\* destroyed, so is everything else the application allocated.
LogDestroyedLast == \A p \in Procs : "log" \notin objects[p] => objects[p] \subseteq {"sync"}
=============================================================================
