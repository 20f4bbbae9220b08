---------------------------- MODULE StartupProofs ---------------------------
(***************************************************************************)
(* Start-up for any number of processes, ports and tries: a process whose  *)
(* runners run holds the port of its service, if it has one, and has made  *)
(* what hatchInitialize looks at.                                          *)
(***************************************************************************)
EXTENDS Startup, TLAPS

Stages == {"log", "globals", "pool", "services", "socket", "bind", "owner", "running", "destroy",
           "done", "error", "crashed", "exited"}

Things == {"log", "sync", "pool", "net", "services", "frm", "baseNet", "netLayer"}

Types ==
  /\ bound \in [Ports -> Procs \cup {Free, Other}]
  /\ pc \in [Procs -> Stages]
  /\ file \in [Procs -> 1..3]
  /\ temp \in [Procs -> Int]
  /\ retCode \in [Procs -> {0, -1}]
  /\ opened \in [Procs -> SUBSET {"RUN_LOG", "DEVICE_LOG", "MEMORY_LOG"}]
  /\ objects \in [Procs -> SUBSET Things]
  /\ users \in [Procs -> Seq(Nat)]
  /\ port \in [Procs -> Ports]
  /\ services \in [Procs -> Seq(Nat)]

\* a result of 0 so far means that every file before this one is open
LogsOpen(p) ==
  /\ pc[p] = "log" /\ retCode[p] = 0 => \A i \in 1..(file[p] - 1) : LogFiles[i] \in opened[p]
  /\ pc[p] \in {"globals", "pool", "services", "socket", "bind", "owner", "running"}
       => \A i \in 1..3 : LogFiles[i] \in opened[p]

\* what exists at each stage
ObjectsMade(p) ==
  /\ pc[p] \in {"log", "globals", "pool"} => "log" \in objects[p]
  /\ pc[p] = "services" => {"log", "pool", "net"} \subseteq objects[p]
  /\ pc[p] \in {"socket", "bind", "owner", "running"}
       => {"log", "pool", "net", "services"} \subseteq objects[p]

\* the service list has an entry only after bind, and the entry is a port the
\* process holds until it ends
ServiceHeld(p) ==
  /\ pc[p] \in {"log", "globals", "pool", "services", "socket", "bind"} => services[p] = <<>>
  /\ pc[p] \in {"owner", "running"} /\ services[p] # <<>>
       => \E n \in Ports : bound[n] = p /\ services[p] = <<n>>

\* a client has an own entry to put the port in
OwnEntry(p) ==
  p \in Clients =>
    /\ pc[p] \in {"socket", "bind", "owner", "running"} => Len(users[p]) = 2
    /\ pc[p] = "running" /\ services[p] # <<>> => users[p][2] = services[p][1]

Good(p) == LogsOpen(p) /\ ObjectsMade(p) /\ ServiceHeld(p) /\ OwnEntry(p)

\* The inductive invariant: the processes meet in bound only, so it says of each
\* process what holds at each of its stages.
Inv == Types /\ \A p \in Procs : Good(p)

LEMMA LogFilesAre ==
  /\ Len(LogFiles) = 3
  /\ \A i \in 1..3 : LogFiles[i] \in {"RUN_LOG", "DEVICE_LOG", "MEMORY_LOG"}
  BY DEF LogFiles

LEMMA InitInv == Init => Inv
<1> SUFFICES ASSUME Init
             PROVE  Inv
  OBVIOUS
<1>1. Types
  <2>1. SERVER_PORT_START \in Ports
    BY StartupAssumption DEF Ports
  <2>2. bound \in [Ports -> Procs \cup {Free, Other}]
    BY DEF Init
  <2>3. /\ users = [p \in Procs |-> <<>>] /\ services = [p \in Procs |-> <<>>]
        /\ port = [p \in Procs |-> SERVER_PORT_START]
        /\ temp = [p \in Procs |-> tryCount]
    BY DEF Init
  <2>4. users \in [Procs -> Seq(Nat)] /\ services \in [Procs -> Seq(Nat)]
        /\ port \in [Procs -> Ports] /\ temp \in [Procs -> Int]
    BY <2>1, <2>3, StartupAssumption
  <2>5. /\ file = [p \in Procs |-> 1] /\ retCode = [p \in Procs |-> 0]
        /\ opened = [p \in Procs |-> {}] /\ objects = [p \in Procs |-> {"log"}]
        /\ pc = [p \in Procs |-> "log"]
    BY DEF Init
  <2> QED  BY <2>2, <2>4, <2>5 DEF Types, Stages, Things
<1>2. ASSUME NEW p \in Procs
      PROVE  Good(p)
  BY DEF Init, Good, LogsOpen, ObjectsMade, ServiceHeld, OwnEntry
<1> QED  BY <1>1, <1>2 DEF Inv

\* p's step leaves the other processes, and the ports they hold, alone
Elsewhere(p) ==
  \A q \in Procs \ {p} :
    /\ pc'[q] = pc[q] /\ file'[q] = file[q] /\ retCode'[q] = retCode[q]
    /\ opened'[q] = opened[q] /\ objects'[q] = objects[q]
    /\ users'[q] = users[q] /\ services'[q] = services[q]
    /\ \A n \in Ports : bound[n] = q => bound'[n] = q

\* A process nobody disturbs stays good.
LEMMA OthersStay ==
  ASSUME NEW p \in Procs, NEW q \in Procs \ {p}, Good(q), Elsewhere(p)
  PROVE  Good(q)'
<1>1. LogsOpen(q)' /\ ObjectsMade(q)' /\ OwnEntry(q)'
  BY DEF Good, LogsOpen, ObjectsMade, OwnEntry, Elsewhere
<1>2. ServiceHeld(q)'
  BY DEF Good, ServiceHeld, Elsewhere
<1> QED  BY <1>1, <1>2 DEF Good

\* so a step is good when it is good for the process that takes it.
LEMMA OneProcess ==
  ASSUME Inv, NEW p \in Procs, Types', Good(p)', Elsewhere(p)
  PROVE  Inv'
<1>1. \A q \in Procs : Good(q)'
  BY OthersStay DEF Inv
<1> QED  BY <1>1 DEF Inv

\* hatchCreateNewLogFile's result for one file, and what it left open.
LEMMA LogFileDoneInv ==
  ASSUME Inv, NEW p \in Procs, pc[p] = "log", NEW ret \in {0, -1}, LogFileDone(p, ret),
         NEW more \in SUBSET {"RUN_LOG", "DEVICE_LOG", "MEMORY_LOG"},
         opened' = [opened EXCEPT ![p] = @ \cup more],
         ret = 0 => LogFiles[file[p]] \in more,
         UNCHANGED <<bound, objects, users, port, services>>
  PROVE  Inv'
<1> DEFINE res == LogResult(p, ret)
<1>1. res \in {0, -1} /\ (res = 0 => ret = 0 /\ retCode[p] = 0)
  BY DEF Inv, Types, LogResult
<1>2. /\ retCode' = [retCode EXCEPT ![p] = res]
      /\ temp' = [temp EXCEPT ![p] = tryCount]
  BY DEF LogFileDone
<1>3. retCode'[p] = res
  BY <1>2 DEF Inv, Types
<1>4. opened'[p] = opened[p] \cup more
  BY DEF Inv, Types
<1> HIDE DEF res
<1>5. /\ retCode' \in [Procs -> {0, -1}] /\ temp' \in [Procs -> Int]
      /\ opened' \in [Procs -> SUBSET {"RUN_LOG", "DEVICE_LOG", "MEMORY_LOG"}]
  <2>1. retCode' \in [Procs -> {0, -1}]
    BY <1>1, <1>2 DEF Inv, Types
  <2>2. temp' \in [Procs -> Int]
    BY <1>2, StartupAssumption DEF Inv, Types
  <2>3. opened' \in [Procs -> SUBSET {"RUN_LOG", "DEVICE_LOG", "MEMORY_LOG"}]
    BY Zenon DEF Inv, Types
  <2> QED  BY <2>1, <2>2, <2>3
<1>6. file[p] \in 1..3
  BY DEF Inv, Types
<1>7. res = 0 => \A i \in 1..file[p] : LogFiles[i] \in opened'[p]
  <2> SUFFICES ASSUME res = 0, NEW i \in 1..file[p]
               PROVE  LogFiles[i] \in opened'[p]
    OBVIOUS
  <2>1. CASE i = file[p]
    BY <1>1, <1>4, <2>1
  <2>2. CASE i # file[p]
    <3>1. i \in 1..(file[p] - 1)
      BY <1>6, <2>2
    <3> QED  BY <1>1, <1>4, <3>1 DEF Inv, Good, LogsOpen
  <2> QED  BY <2>1, <2>2
<1>8. CASE file[p] < 3
  <2>1. file' = [file EXCEPT ![p] = @ + 1] /\ pc' = pc
    BY <1>8, LogFilesAre DEF LogFileDone
  <2>2. file' \in [Procs -> 1..3] /\ file'[p] = file[p] + 1
    BY <1>6, <1>8, <2>1 DEF Inv, Types
  <2>3. Types'
    BY <1>5, <2>1, <2>2 DEF Inv, Types
  <2>4. LogsOpen(p)'
    <3>1. 1..(file'[p] - 1) = 1..file[p]
      BY <1>6, <2>2
    <3> QED  BY <1>3, <1>7, <2>1, <3>1, Zenon DEF LogsOpen
  <2>5. Good(p)'
    BY <2>1, <2>4 DEF Inv, Good, ObjectsMade, ServiceHeld, OwnEntry
  <2>6. Elsewhere(p)
    BY <1>2, <2>1 DEF Inv, Types, Elsewhere
  <2> QED  BY <2>3, <2>5, <2>6, OneProcess
<1>9. CASE ~(file[p] < 3)
  <2>1. /\ file' = file
        /\ pc' = [pc EXCEPT ![p] = IF res = 0 THEN "globals" ELSE "error"]
    BY <1>3, <1>9, LogFilesAre DEF LogFileDone, Goto
  <2>2. pc' \in [Procs -> Stages] /\ pc'[p] = (IF res = 0 THEN "globals" ELSE "error")
    BY <2>1 DEF Inv, Types, Stages
  <2>3. Types'
    BY <1>5, <2>1, <2>2 DEF Inv, Types
  <2>4. file[p] = 3
    BY <1>6, <1>9
  <2>5. LogsOpen(p)'
    BY <1>7, <2>2, <2>4 DEF LogsOpen
  <2>6. Good(p)'
    BY <2>2, <2>5 DEF Inv, Good, ObjectsMade, ServiceHeld, OwnEntry
  <2>7. Elsewhere(p)
    BY <1>2, <2>1 DEF Inv, Types, Elsewhere
  <2> QED  BY <2>3, <2>6, <2>7, OneProcess
<1> QED  BY <1>8, <1>9

\* hatchInitializeLog.
LEMMA LogInv ==
  ASSUME Inv, NEW p \in Procs, LogOpens(p) \/ LogOpenFails(p)
  PROVE  Inv'
<1>1. CASE LogOpens(p)
  <2> DEFINE ret == IF temp[p] - 1 > 0 THEN 0 ELSE -1
             more == {LogFiles[file[p]]}
  <2>1. ret \in {0, -1}
    OBVIOUS
  <2>2. more \in SUBSET {"RUN_LOG", "DEVICE_LOG", "MEMORY_LOG"}
    BY LogFilesAre DEF Inv, Types
  <2>3. /\ pc[p] = "log" /\ LogFileDone(p, ret)
        /\ opened' = [opened EXCEPT ![p] = @ \cup more]
        /\ ret = 0 => LogFiles[file[p]] \in more
        /\ UNCHANGED <<bound, objects, users, port, services>>
    BY <1>1 DEF LogOpens
  <2> HIDE DEF ret, more
  <2> QED  BY <2>1, <2>2, <2>3, LogFileDoneInv, Zenon
<1>2. CASE LogOpenFails(p) /\ temp[p] > 1
  <2>1. temp' = [temp EXCEPT ![p] = @ - 1]
        /\ UNCHANGED <<pc, file, retCode, bound, opened, objects, users, port, services>>
    BY <1>2 DEF LogOpenFails
  <2>2. Types'
    BY <2>1 DEF Inv, Types
  <2>3. Good(p)' /\ Elsewhere(p)
    BY <2>1 DEF Inv, Good, LogsOpen, ObjectsMade, ServiceHeld, OwnEntry, Elsewhere
  <2> QED  BY <2>2, <2>3, OneProcess
<1>3. CASE LogOpenFails(p) /\ ~(temp[p] > 1)
  <2>1. /\ pc[p] = "log" /\ LogFileDone(p, -1)
        /\ UNCHANGED <<bound, opened, objects, users, port, services>>
    BY <1>3 DEF LogOpenFails
  <2>2. opened' = [opened EXCEPT ![p] = @ \cup {}]
    BY <2>1 DEF Inv, Types
  <2>3. -1 \in {0, -1} /\ -1 # 0 /\ {} \in SUBSET {"RUN_LOG", "DEVICE_LOG", "MEMORY_LOG"}
    OBVIOUS
  <2> QED  BY <2>1, <2>2, <2>3, LogFileDoneInv, Zenon
<1> QED  BY <1>1, <1>2, <1>3

\* The steps that make objects and go on, or give up.
LEMMA MakeInv ==
  ASSUME Inv, NEW p \in Procs,
         \/ hatchInitializeGlobalVar(p) \/ hatchInitializeThreadPool(p) \/ ThreadPoolFails(p)
         \/ hatchCreateSocket(p) \/ SocketFails(p)
  PROVE  Inv'
<1> USE DEF log
<1>1. UNCHANGED <<bound, file, temp, retCode, opened, users, port, services>>
  BY DEF hatchInitializeGlobalVar, hatchInitializeThreadPool, ThreadPoolFails, hatchCreateSocket, SocketFails
<1>2. PICK to \in Stages, new \in SUBSET Things :
        pc' = [pc EXCEPT ![p] = to] /\ objects' = [objects EXCEPT ![p] = @ \cup new]
  BY Zenon DEF hatchInitializeGlobalVar, hatchInitializeThreadPool, ThreadPoolFails, hatchCreateSocket, SocketFails,
         Goto, Make, Stages, Things
<1>3. Types'
  BY <1>1, <1>2 DEF Inv, Types
<1>4. Elsewhere(p)
  BY <1>1, <1>2 DEF Inv, Types, Elsewhere
<1>5. ASSUME NEW from \in Stages, NEW next \in Stages, NEW made \in SUBSET Things,
             Goto(p, from, next), Make(p, made)
      PROVE  pc[p] = from /\ pc'[p] = next /\ objects'[p] = objects[p] \cup made
  BY <1>5 DEF Inv, Types, Goto, Make
<1>6. Good(p)'
  <2>a. CASE hatchInitializeGlobalVar(p)
    <3>1. PICK made \in {{"sync"}, {}} : Goto(p, "globals", "pool") /\ Make(p, made)
      BY <2>a, Zenon DEF hatchInitializeGlobalVar
    <3>2. pc[p] = "globals" /\ pc'[p] = "pool" /\ objects'[p] = objects[p] \cup made
      BY <1>5, <3>1 DEF Stages, Things
    <3> QED  BY <1>1, <3>2, Zenon DEF Inv, Good, LogsOpen, ObjectsMade, ServiceHeld, OwnEntry
  <2>1. CASE hatchInitializeThreadPool(p)
    <3>1. pc[p] = "pool" /\ pc'[p] = "services" /\ objects'[p] = objects[p] \cup {"pool", "net"}
      BY <1>5, <2>1 DEF hatchInitializeThreadPool, Stages, Things
    <3> QED  BY <1>1, <3>1, Zenon DEF Inv, Good, LogsOpen, ObjectsMade, ServiceHeld, OwnEntry
  <2>2. CASE ThreadPoolFails(p)
    <3>1. pc'[p] = "error"
      BY <1>5, <2>2 DEF ThreadPoolFails, Stages, Things
    <3> QED  BY <3>1, Zenon DEF Good, LogsOpen, ObjectsMade, ServiceHeld, OwnEntry
  <2>3. CASE hatchCreateSocket(p) \/ SocketFails(p)
    <3>1. /\ pc[p] = "socket" /\ pc'[p] \in {"bind", "owner"}
          /\ objects'[p] = objects[p] \cup {"frm", "baseNet"}
      BY <1>5, <2>3 DEF hatchCreateSocket, SocketFails, Stages, Things
    <3>2. {"log", "pool", "net", "services"} \subseteq objects'[p] /\ services'[p] = <<>>
      BY <1>1, <3>1, Zenon DEF Inv, Good, ObjectsMade, ServiceHeld
    <3>3. LogsOpen(p)' /\ OwnEntry(p)'
      BY <1>1, <3>1 DEF Inv, Good, LogsOpen, OwnEntry
    <3>4. ObjectsMade(p)' /\ ServiceHeld(p)'
      BY <3>1, <3>2 DEF ObjectsMade, ServiceHeld
    <3> QED  BY <3>3, <3>4, Zenon DEF Good
  <2> QED  BY <2>a, <2>1, <2>2, <2>3
<1> QED  BY <1>3, <1>4, <1>6, OneProcess

\* hatchInitializeServices gives a client two entries.
LEMMA ServicesInv ==
  ASSUME Inv, NEW p \in Procs, hatchInitializeServices(p)
  PROVE  Inv'
<1> DEFINE entries == <<SERVER_PORT_START>> \o
                        (IF p \in Clients THEN <<CLIENT_PORT_START>> ELSE <<>>)
<1>1. /\ pc[p] = "services" /\ pc' = [pc EXCEPT ![p] = "socket"]
      /\ objects' = [objects EXCEPT ![p] = @ \cup {"services"}]
      /\ users' = [users EXCEPT ![p] = entries]
      /\ UNCHANGED <<bound, file, temp, retCode, opened, port, services>>
  BY DEF hatchInitializeServices, Goto, Make, log
<1>2. entries \in Seq(Nat) /\ (p \in Clients => Len(entries) = 2)
  BY StartupAssumption
<1> HIDE DEF entries
<1>3. Types'
  BY <1>1, <1>2 DEF Inv, Types, Stages, Things
<1>4. Elsewhere(p)
  BY <1>1 DEF Inv, Types, Elsewhere
<1>5. pc'[p] = "socket" /\ objects'[p] = objects[p] \cup {"services"} /\ users'[p] = entries
  BY <1>1 DEF Inv, Types
<1>6. Good(p)'
  BY <1>1, <1>2, <1>5 DEF Inv, Good, LogsOpen, ObjectsMade, ServiceHeld, OwnEntry
<1> QED  BY <1>3, <1>4, <1>6, OneProcess

\* bind takes a free port, so nobody loses one.
LEMMA BoundInv ==
  ASSUME Inv, NEW p \in Procs, Bound(p)
  PROVE  Inv'
<1>1. /\ bound[port[p]] = Free /\ bound' = [bound EXCEPT ![port[p]] = p]
      /\ pc[p] = "bind" /\ pc' = [pc EXCEPT ![p] = "owner"]
      /\ objects' = [objects EXCEPT ![p] = @ \cup {"netLayer"}]
      /\ services' = [services EXCEPT ![p] = <<port[p]>>]
      /\ UNCHANGED <<file, temp, retCode, opened, users, port>>
  BY DEF Bound, Goto, Make, log
<1>2. port[p] \in Ports /\ port[p] \in Nat
  BY StartupAssumption DEF Inv, Types, Ports
<1>3. Types'
  <2>1. bound' \in [Ports -> Procs \cup {Free, Other}]
    BY <1>1 DEF Inv, Types
  <2>2. services' \in [Procs -> Seq(Nat)]
    BY <1>1, <1>2 DEF Inv, Types
  <2> QED  BY <1>1, <2>1, <2>2 DEF Inv, Types, Stages, Things
<1>4. Elsewhere(p)
  <2>1. \A q \in Procs : Free # q
    BY StartupAssumption
  <2> QED  BY <1>1, <1>2, <2>1 DEF Inv, Types, Elsewhere
<1>5. /\ pc'[p] = "owner" /\ {"log", "pool", "net", "services"} \subseteq objects'[p]
      /\ services'[p] = <<port[p]>> /\ bound'[port[p]] = p
  <2>1. {"log", "pool", "net", "services"} \subseteq objects[p]
    BY <1>1 DEF Inv, Good, ObjectsMade
  <2> QED  BY <1>1, <1>2, <2>1 DEF Inv, Types
<1>6. Good(p)'
  <2>1. LogsOpen(p)' /\ OwnEntry(p)'
    BY <1>1, <1>5 DEF Inv, Good, LogsOpen, OwnEntry
  <2>2. ObjectsMade(p)' /\ ServiceHeld(p)'
    BY <1>2, <1>5 DEF ObjectsMade, ServiceHeld
  <2> QED  BY <2>1, <2>2 DEF Good
<1> QED  BY <1>3, <1>4, <1>6, OneProcess

\* The rest of the port search.
LEMMA SearchInv ==
  ASSUME Inv, NEW p \in Procs, NextPort(p) \/ LastPort(p) \/ BindFails(p)
  PROVE  Inv'
<1>1. pc[p] = "bind" /\ UNCHANGED <<bound, file, temp, retCode, opened, objects, users, services>>
  BY DEF NextPort, LastPort, BindFails, Goto, log
<1>2. port' \in [Procs -> Ports]
  <2>1. CASE NextPort(p)
    <3>1. port[p] + 1 \in Ports
      BY <2>1, StartupAssumption DEF NextPort, Inv, Types, Ports
    <3> QED  BY <2>1, <3>1 DEF NextPort, Inv, Types
  <2> QED  BY <2>1 DEF LastPort, BindFails, Inv, Types
<1>3. PICK to \in {"bind", "owner"} : pc' = [pc EXCEPT ![p] = to]
  <2>1. CASE NextPort(p)
    BY <1>1, <2>1 DEF NextPort, Inv, Types
  <2> QED  BY <2>1 DEF LastPort, BindFails, Goto
<1>4. Types'
  BY <1>1, <1>2, <1>3 DEF Inv, Types, Stages
<1>5. Elsewhere(p)
  BY <1>1, <1>3 DEF Inv, Types, Elsewhere
<1>6. pc'[p] \in {"bind", "owner"}
  BY <1>3, Zenon DEF Inv, Types
<1>7. Good(p)'
  BY <1>1, <1>6 DEF Inv, Good, LogsOpen, ObjectsMade, ServiceHeld, OwnEntry
<1> QED  BY <1>4, <1>5, <1>7, OneProcess

\* A client's own entry gets the port it holds, or what front() of an empty list
\* returns.
LEMMA OwnerInv ==
  ASSUME Inv, NEW p \in Procs, hatchSetOwnerAddr(p)
  PROVE  Inv'
<1>1. PICK n \in FrontPorts(p) :
        /\ pc[p] = "owner" /\ pc' = [pc EXCEPT ![p] = "running"]
        /\ users' = IF p \in Clients THEN [users EXCEPT ![p][2] = n] ELSE users
        /\ UNCHANGED <<bound, file, temp, retCode, opened, objects, port, services>>
  BY Zenon DEF hatchSetOwnerAddr, Goto, log
<1>2. pc'[p] = "running"
  BY <1>1 DEF Inv, Types
<1>3. services[p] # <<>> => \E m \in Ports : bound[m] = p /\ services[p] = <<m>>
  BY <1>1 DEF Inv, Good, ServiceHeld
<1>4. n \in Nat /\ (services[p] # <<>> => services[p][1] = n)
  <2>1. CASE services[p] = <<>>
    BY <2>1, StartupAssumption DEF FrontPorts
  <2>2. CASE services[p] # <<>>
    BY <1>3, <2>2, StartupAssumption DEF FrontPorts, Ports
  <2> QED  BY <2>1, <2>2
<1>5. CASE p \in Clients
  <2>1. users[p] \in Seq(Nat) /\ Len(users[p]) = 2
    BY <1>1, <1>5 DEF Inv, Types, Good, OwnEntry
  <2>2. users' = [users EXCEPT ![p] = [users[p] EXCEPT ![2] = n]]
    BY <1>1, <1>5
  <2>3. LET own == [users[p] EXCEPT ![2] = n]
        IN  own \in Seq(Nat) /\ Len(own) = 2 /\ own[2] = n
    BY <1>4, <2>1
  <2>4. users' \in [Procs -> Seq(Nat)] /\ Len(users'[p]) = 2 /\ users'[p][2] = n
    BY <2>2, <2>3 DEF Inv, Types
  <2>5. \A q \in Procs \ {p} : users'[q] = users[q]
    BY <2>2 DEF Inv, Types
  <2>6. Types'
    BY <1>1, <2>4, Zenon DEF Inv, Types, Stages
  <2>7. Elsewhere(p)
    BY <1>1, <2>5 DEF Inv, Types, Elsewhere
  <2>8. Good(p)'
    <3>1. OwnEntry(p)'
      BY <1>1, <1>2, <1>4, <2>4 DEF OwnEntry
    <3>2. LogsOpen(p)' /\ ObjectsMade(p)' /\ ServiceHeld(p)'
      BY <1>1, <1>2 DEF Inv, Good, LogsOpen, ObjectsMade, ServiceHeld
    <3> QED  BY <3>1, <3>2 DEF Good
  <2> QED  BY <2>6, <2>7, <2>8, OneProcess
<1>6. CASE p \notin Clients
  <2>1. users' = users
    BY <1>1, <1>6
  <2>2. Types'
    BY <1>1, <2>1, Zenon DEF Inv, Types, Stages
  <2>3. Elsewhere(p)
    BY <1>1, <2>1 DEF Inv, Types, Elsewhere
  <2>4. Good(p)'
    BY <1>1, <1>2, <1>6 DEF Inv, Good, LogsOpen, ObjectsMade, ServiceHeld, OwnEntry
  <2> QED  BY <2>2, <2>3, <2>4, OneProcess
<1> QED  BY <1>5, <1>6

\* The end of a process, in order or not, frees its own port only.
LEMMA EndInv ==
  ASSUME Inv, NEW p \in Procs,
         FrontCrashes(p) \/ hatchMainReturns(p) \/ hatchDetroy(p) \/ Exit(p)
  PROVE  Inv'
<1> USE DEF log
<1>1. CASE FrontCrashes(p) \/ hatchMainReturns(p)
  <2>1. UNCHANGED <<bound, file, temp, retCode, opened, objects, users, port, services>>
    BY <1>1 DEF FrontCrashes, hatchMainReturns
  <2>2. PICK to \in {"crashed", "destroy"} : pc' = [pc EXCEPT ![p] = to]
    BY <1>1 DEF FrontCrashes, hatchMainReturns, Goto
  <2>3. Types'
    BY <2>1, <2>2 DEF Inv, Types, Stages
  <2>4. Elsewhere(p)
    BY <2>1, <2>2 DEF Inv, Types, Elsewhere
  <2>5. pc'[p] \in {"crashed", "destroy"}
    BY <2>2 DEF Inv, Types
  <2>6. Good(p)'
    BY <2>5 DEF Good, LogsOpen, ObjectsMade, ServiceHeld, OwnEntry
  <2> QED  BY <2>3, <2>4, <2>6, OneProcess, Zenon
<1>2. CASE hatchDetroy(p)
  <2>1. /\ pc' = [pc EXCEPT ![p] = "done"]
        /\ objects' = [objects EXCEPT ![p] = @ \ {"net", "pool", "services", "log"}]
        /\ users' = [users EXCEPT ![p] = <<>>]
        /\ opened' = [opened EXCEPT ![p] = {}]
        /\ UNCHANGED <<bound, file, temp, retCode, port, services>>
    BY <1>2 DEF hatchDetroy, Goto
  <2>2. users' \in [Procs -> Seq(Nat)]
    BY <2>1 DEF Inv, Types
  <2>3. Types'
    BY <2>1, <2>2 DEF Inv, Types, Stages
  <2>4. Elsewhere(p)
    BY <2>1 DEF Inv, Types, Elsewhere
  <2>5. pc'[p] = "done"
    BY <2>1 DEF Inv, Types
  <2>6. Good(p)'
    BY <2>5 DEF Good, LogsOpen, ObjectsMade, ServiceHeld, OwnEntry
  <2> QED  BY <2>3, <2>4, <2>6, OneProcess
<1>3. CASE Exit(p)
  <2>1. /\ pc' = [pc EXCEPT ![p] = "exited"]
        /\ bound' = [n \in Ports |-> IF bound[n] = p THEN Free ELSE bound[n]]
        /\ UNCHANGED <<file, temp, retCode, opened, objects, users, port, services>>
    BY <1>3 DEF Exit
  <2>2. bound' \in [Ports -> Procs \cup {Free, Other}]
    BY <2>1 DEF Inv, Types
  <2>3. Types'
    BY <2>1, <2>2 DEF Inv, Types, Stages
  <2>4. Elsewhere(p)
    BY <2>1 DEF Inv, Types, Elsewhere
  <2>5. pc'[p] = "exited"
    BY <2>1 DEF Inv, Types
  <2>6. Good(p)'
    BY <2>5 DEF Good, LogsOpen, ObjectsMade, ServiceHeld, OwnEntry
  <2> QED  BY <2>3, <2>4, <2>6, OneProcess
<1> QED  BY <1>1, <1>2, <1>3

\* Another program's end frees none of the processes' ports.
LEMMA OtherInv ==
  ASSUME Inv, NEW n \in Ports, OtherLeaves(n)
  PROVE  Inv'
<1>1. /\ bound[n] = Other /\ bound' = [bound EXCEPT ![n] = Free]
      /\ UNCHANGED <<pc, file, temp, retCode, opened, objects, users, port, services>>
  BY DEF OtherLeaves, process, log
<1>2. Types'
  BY <1>1 DEF Inv, Types
<1>3. ASSUME NEW p \in Procs
      PROVE  Good(p)'
  <2>1. LogsOpen(p)' /\ ObjectsMade(p)' /\ OwnEntry(p)'
    BY <1>1 DEF Inv, Good, LogsOpen, ObjectsMade, OwnEntry
  <2>2. \A m \in Ports : bound[m] = p => bound'[m] = p
    BY <1>1, StartupAssumption DEF Inv, Types
  <2>3. ServiceHeld(p)'
    BY <1>1, <2>2 DEF Inv, Good, ServiceHeld
  <2> QED  BY <2>1, <2>3 DEF Good
<1> QED  BY <1>2, <1>3 DEF Inv

LEMMA NextInv == Inv /\ [Next]_vars => Inv'
<1> SUFFICES ASSUME Inv, [Next]_vars
             PROVE  Inv'
  OBVIOUS
<1>1. CASE UNCHANGED vars
  <2>1. UNCHANGED <<bound, pc, file, temp, retCode, opened, objects, users, port, services>>
    BY <1>1 DEF vars, process, log
  <2>2. Types'
    BY <2>1 DEF Inv, Types
  <2>3. \A p \in Procs : Good(p)'
    BY <2>1 DEF Inv, Good, LogsOpen, ObjectsMade, ServiceHeld, OwnEntry
  <2> QED  BY <2>2, <2>3 DEF Inv
<1>2. CASE Next
  BY <1>2, LogInv, MakeInv, ServicesInv, BoundInv, SearchInv, OwnerInv, EndInv, OtherInv
     DEF Next, Step, Fails
<1> QED  BY <1>1, <1>2

\* A process whose runners run holds the port in its service list, if there is
\* one, and the own entry a client sends to the others names it, however many
\* processes search the ports at the same time.
THEOREM RunningIsBound == Spec => []RunsBound
<1>1. Inv => RunsBound
  BY DEF Inv, Good, ServiceHeld, OwnEntry, RunsBound
<1> QED  BY <1>1, InitInv, NextInv, PTL DEF Spec

\* No runner runs in a process that could not open its log files or failed in
\* another step whose result hatchInitialize looks at.
THEOREM RunningIsComplete == Spec => []StartedIsComplete
<1>1. Inv => StartedIsComplete
  BY LogFilesAre DEF Inv, Good, LogsOpen, ObjectsMade, ServiceHeld, StartedIsComplete, Things
<1> QED  BY <1>1, InitInv, NextInv, PTL DEF Spec
=============================================================================
