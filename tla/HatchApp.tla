------------------------------ MODULE HatchApp ------------------------------
(***************************************************************************)
(* One hatchNet process, client or server: hatchMain, the four runners it  *)
(* hands to the thread pool, the three message lists between them and the  *)
(* two events that start and end them.                                     *)
(*                                                                         *)
(* The thread pool is the abstract TaskPool (ThreadPool implements it) and *)
(* a push or a wait-and-pop on a message list is one step (MsgList         *)
(* implements the bounded FIFO).  The handlers are those of Protocol; the  *)
(* messages they send are pushed one by one, since the sender runs between *)
(* two pushes.                                                             *)
(***************************************************************************)
EXTENDS Protocol, FiniteSets

CONSTANTS Client,       \* SERVICES_TYPE = 1
          Self,         \* this process's address
          Server,       \* the server's address
          Name,         \* what the user types at "UserName:"
          Incoming,     \* the messages the network may deliver
          Leftovers,    \* may answers to an earlier process at Self arrive?
          MaxLength,    \* NET_..._MESSAGE_LIST_MAX_LENGTH
          MaxArrivals,  \* bound on the messages delivered
          MaxLines      \* bound on the words typed before "close"

ASSUME AppAssumption ==
  /\ Client \in BOOLEAN
  /\ Leftovers \in BOOLEAN
  /\ MaxLength \in Nat \ {0}
  /\ MaxArrivals \in Nat
  /\ MaxLines \in Nat
  /\ \A m \in Incoming : m = Msg(m.type, m.peer, m.name, m.user)
  \* the server refuses a login as "server", so no such user's Logout is passed on
  /\ Client => \A m \in Incoming : m.type = "Logout" => m.name # "server"

VARIABLES task, closing, closed,   \* the thread pool
          main,                    \* where hatchMain is
          runnerEnd, startText,    \* g_eventRnnerEnd, m_eventStartText
          recvList, sendList, tempList,
          users,                   \* g_vectUserList
          recvAt, textAt,          \* where the receive and the text runner are
          sOwnerName,              \* the own name the text runner read
          pending,                 \* messages the packet runner is about to push
          sent,                    \* what was sent to the network: type, receiver, name
          arrivals, lines,         \* messages delivered and words typed so far
          logout                   \* did the send list take the Logout request?

poolVars == <<task, closing, closed>>
listVars == <<recvList, sendList, tempList>>
eventVars == <<runnerEnd, startText>>
boundVars == <<arrivals, lines>>
textVars == <<textAt, sOwnerName>>
vars == <<poolVars, main, eventVars, listVars, users, recvAt, textVars, pending, sent,
          boundVars, logout>>

Order == IF Client THEN <<"recv", "send", "packet", "text">> ELSE <<"recv", "send", "packet">>

Tasks == {Order[i] : i \in DOMAIN Order}

Pool == INSTANCE TaskPool WITH Runners <- Tasks

Init ==
  /\ Pool!PoolInit
  /\ main = "push"
  /\ runnerEnd = FALSE /\ startText = FALSE
  /\ recvList = <<>> /\ sendList = <<>> /\ tempList = <<>>
  /\ users = IF Client THEN ClientUsers(Server, Self) ELSE ServerUsers(Server)
  /\ recvAt = "check"
  /\ textAt = "waitStart" /\ sOwnerName = "none"
  /\ pending = <<>>
  /\ sent = {}
  /\ arrivals = 0 /\ lines = 0
  /\ logout = FALSE

\* seeded fault: a list has no maximum
Stored_Unbounded(list, m) == Append(list, m)

\* hatchPush...MsgList: a full list refuses, and the caller drops the message
Stored(list, m) == IF Len(list) < MaxLength THEN Append(list, m) ELSE list

-----------------------------------------------------------------------------
(* hatchMain *)

MainPush(r) ==
  /\ main = "push"
  /\ \E i \in DOMAIN Order :
       /\ Order[i] = r
       /\ \A j \in 1..(i - 1) : task[Order[j]] # "new"
       /\ main' = IF i < Len(Order) THEN "push" ELSE IF Client THEN "name" ELSE "key"
  /\ Pool!PoolPush(r)
  /\ UNCHANGED <<eventVars, listVars, users, recvAt, textVars, pending, sent, boundVars, logout>>

\* hatchClientLogin gives the own entry its name ...
MainName ==
  /\ main = "name"
  /\ users' = [users EXCEPT ![2].name = Name]
  /\ main' = "login"
  /\ UNCHANGED <<poolVars, eventVars, listVars, recvAt, textVars, pending, sent, boundVars, logout>>

\* ... and asks the server
MainLogin ==
  /\ main = "login"
  /\ sendList' = Stored(sendList, LoginRequest(Server, Name))
  /\ main' = "wait"
  /\ UNCHANGED <<poolVars, eventVars, recvList, tempList, users, recvAt, textVars, pending,
                 sent, boundVars, logout>>

\* seeded fault: hatchMain does not wait for the end event
MainWait_Skipped ==
  /\ main = "wait"
  /\ main' = "abort"
  /\ UNCHANGED <<poolVars, eventVars, listVars, users, recvAt, textVars, pending, sent,
                 boundVars, logout>>

\* hatchServicesWait, after which the text runner goes out of scope
MainWait ==
  /\ main = "wait"
  /\ runnerEnd
  /\ main' = "abort"
  /\ UNCHANGED <<poolVars, eventVars, listVars, users, recvAt, textVars, pending, sent,
                 boundVars, logout>>

\* the server's operator ends the program
MainKey ==
  /\ main = "key"
  /\ main' = "abort"
  /\ UNCHANGED <<poolVars, eventVars, listVars, users, recvAt, textVars, pending, sent,
                 boundVars, logout>>

\* Packetrun.Abort
MainAbort ==
  /\ main = "abort"
  /\ runnerEnd' = TRUE
  /\ main' = "end"
  /\ UNCHANGED <<poolVars, startText, listVars, users, recvAt, textVars, pending, sent,
                 boundVars, logout>>

MainEnd ==
  /\ main = "end"
  /\ Pool!PoolEnd
  /\ main' = "waitPool"
  /\ UNCHANGED <<eventVars, listVars, users, recvAt, textVars, pending, sent, boundVars, logout>>

MainExit ==
  /\ main = "waitPool"
  /\ Pool!PoolEndReturns
  /\ main' = "exit"
  /\ UNCHANGED <<eventVars, listVars, users, recvAt, textVars, pending, sent, boundVars, logout>>

Start(r) ==
  /\ Pool!PoolStart(r)
  /\ UNCHANGED <<main, eventVars, listVars, users, recvAt, textVars, pending, sent, boundVars,
                 logout>>

Finish(r) == Pool!PoolFinish(r)

-----------------------------------------------------------------------------
(* hatchPacketRecvProc: look at the end event, then wait in select *)

RecvEnd ==
  /\ task["recv"] = "running"
  /\ recvAt = "check"
  /\ runnerEnd
  /\ Finish("recv")
  /\ UNCHANGED <<main, eventVars, listVars, users, recvAt, textVars, pending, sent, boundVars,
                 logout>>

RecvSelect ==
  /\ task["recv"] = "running"
  /\ recvAt = "check"
  /\ ~runnerEnd
  /\ recvAt' = "select"
  /\ UNCHANGED <<poolVars, main, eventVars, listVars, users, textVars, pending, sent, boundVars,
                 logout>>

\* seeded fault: after a timeout the loop waits again at once
RecvTimeout_NoCheck ==
  /\ task["recv"] = "running"
  /\ recvAt = "select"
  /\ UNCHANGED vars

\* select's timeout, or a datagram recvfrom cannot read
RecvTimeout ==
  /\ task["recv"] = "running"
  /\ recvAt = "select"
  /\ recvAt' = "check"
  /\ UNCHANGED <<poolVars, main, eventVars, listVars, users, textVars, pending, sent, boundVars,
                 logout>>

\* a socket error ends the runner, and nothing else
RecvFails ==
  /\ task["recv"] = "running"
  /\ recvAt = "select"
  /\ Finish("recv")
  /\ UNCHANGED <<main, eventVars, listVars, users, recvAt, textVars, pending, sent, boundVars,
                 logout>>

HasSent(type) == \E s \in sent : s.type = type

\* A server takes whatever comes.  A client gets answers to what it sent:
\* nothing before its Login, its own Logout only after it asked for it.
\* (The server ignores the Logout of a name it has not listed.)
\* Leftovers: the earlier process at this address sent those.
Arrives(m) ==
  \/ ~Client
  \/ Leftovers
  \/ HasSent("Login") /\ (m.type = "Logout" /\ m.name = Name => HasSent("Logout"))

RecvMsg(m) ==
  /\ task["recv"] = "running"
  /\ recvAt = "select"
  /\ arrivals < MaxArrivals
  /\ Arrives(m)
  /\ arrivals' = arrivals + 1
  /\ recvList' = Stored(recvList, m)
  /\ recvAt' = "check"
  /\ UNCHANGED <<poolVars, main, eventVars, sendList, tempList, users, textVars, pending, sent,
                 lines, logout>>

-----------------------------------------------------------------------------
(* hatchPacketSendProc: the send semaphore comes before the end event *)

SendMsg ==
  /\ task["send"] = "running"
  /\ sendList # <<>>
  /\ LET m == Head(sendList)
     IN  sent' = sent \cup {[type |-> m.type, peer |-> m.peer, name |-> m.name]}
  /\ sendList' = Tail(sendList)
  /\ UNCHANGED <<poolVars, main, eventVars, recvList, tempList, users, recvAt, textVars, pending,
                 boundVars, logout>>

\* seeded fault: the end event comes before the send semaphore
SendEnd_First ==
  /\ task["send"] = "running"
  /\ runnerEnd
  /\ Finish("send")
  /\ UNCHANGED <<main, eventVars, listVars, users, recvAt, textVars, pending, sent, boundVars,
                 logout>>

SendEnd ==
  /\ task["send"] = "running"
  /\ sendList = <<>>
  /\ runnerEnd
  /\ Finish("send")
  /\ UNCHANGED <<main, eventVars, listVars, users, recvAt, textVars, pending, sent, boundVars,
                 logout>>

-----------------------------------------------------------------------------
(* hatchPacketProc: received messages, then typed ones, then the end event *)

MsgProc(m) == IF Client THEN ClientMsgProc(users, m) ELSE ServerMsgProc(users, m)

Handle(m) ==
  LET result == MsgProc(m)
  IN  /\ users' = result.users
      /\ pending' = result.out
      /\ startText' = (startText \/ result.start)
      /\ runnerEnd' = (runnerEnd \/ result.end)

PacketIdle == task["packet"] = "running" /\ pending = <<>>

PacketRecv ==
  /\ PacketIdle
  /\ recvList # <<>>
  /\ Handle(Head(recvList))
  /\ recvList' = Tail(recvList)
  /\ UNCHANGED <<poolVars, main, sendList, tempList, recvAt, textVars, sent, boundVars, logout>>

PacketTemp ==
  /\ PacketIdle
  /\ recvList = <<>>
  /\ tempList # <<>>
  /\ Handle(Head(tempList))
  /\ tempList' = Tail(tempList)
  /\ UNCHANGED <<poolVars, main, sendList, recvList, recvAt, textVars, sent, boundVars, logout>>

\* the reply to a login that succeeded, followed by its Updates
Granted(out) == Len(out) > 1 /\ out[1].type = "Login"

\* seeded fault: a login whose reply is lost is not undone
PacketPush_NoUndo ==
  /\ task["packet"] = "running"
  /\ pending # <<>>
  /\ sendList' = Stored(sendList, Head(pending))
  /\ pending' = Tail(pending)
  /\ UNCHANGED <<poolVars, main, eventVars, recvList, tempList, users, recvAt, textVars, sent,
                 boundVars, logout>>

\* A full list loses the message.  If that is the server's reply to a login,
\* the login is undone and no Update is sent.
PacketPush ==
  /\ task["packet"] = "running"
  /\ pending # <<>>
  /\ sendList' = Stored(sendList, Head(pending))
  /\ IF Granted(pending) /\ Len(sendList) >= MaxLength
       THEN pending' = <<>> /\ users' = hatchPopUser(users, pending[2].name)
       ELSE pending' = Tail(pending) /\ UNCHANGED users
  /\ UNCHANGED <<poolVars, main, eventVars, recvList, tempList, recvAt, textVars, sent, boundVars,
                 logout>>

PacketEnd ==
  /\ PacketIdle
  /\ recvList = <<>> /\ tempList = <<>>
  /\ runnerEnd
  /\ Finish("packet")
  /\ UNCHANGED <<main, eventVars, listVars, users, recvAt, textVars, pending, sent, boundVars,
                 logout>>

-----------------------------------------------------------------------------
(* hatchTextProc: wait for the login, then read words until "close" *)

TextStart ==
  /\ Client /\ task["text"] = "running"
  /\ textAt = "waitStart"
  /\ startText
  /\ sOwnerName' = Own(users).name
  /\ textAt' = "read"
  /\ UNCHANGED <<poolVars, main, eventVars, listVars, users, recvAt, pending, sent, boundVars,
                 logout>>

\* the wait fails: the runner logs out and ends the services, before any login maybe
TextFails ==
  /\ Client /\ task["text"] = "running"
  /\ textAt = "waitStart"
  /\ sendList' = Stored(sendList, LogoutRequest(Server, Own(users).name))
  /\ textAt' = "failed"
  /\ UNCHANGED <<poolVars, main, eventVars, recvList, tempList, users, recvAt, sOwnerName,
                 pending, sent, boundVars, logout>>

TextLine ==
  /\ Client /\ task["text"] = "running"
  /\ textAt = "read"
  /\ lines < MaxLines
  /\ lines' = lines + 1
  /\ tempList' = Stored(tempList, Msg("Text", Self, sOwnerName, NoAddr))
  /\ UNCHANGED <<poolVars, main, eventVars, recvList, sendList, users, recvAt, textVars, pending,
                 sent, arrivals, logout>>

TextClose ==
  /\ Client /\ task["text"] = "running"
  /\ textAt = "read"
  /\ sendList' = Stored(sendList, LogoutRequest(Server, Own(users).name))
  /\ logout' = (Len(sendList) < MaxLength)
  /\ textAt' = "end"
  /\ UNCHANGED <<poolVars, main, eventVars, recvList, tempList, users, recvAt, sOwnerName,
                 pending, sent, boundVars>>

\* seeded fault: "close" leaves the loop without ending the services
TextEnd_Silent ==
  /\ Client /\ task["text"] = "running"
  /\ textAt \in {"end", "failed"}
  /\ Finish("text")
  /\ UNCHANGED <<main, eventVars, listVars, users, recvAt, textVars, pending, sent, boundVars,
                 logout>>

TextEnd ==
  /\ Client /\ task["text"] = "running"
  /\ textAt \in {"end", "failed"}
  /\ runnerEnd' = TRUE
  /\ Finish("text")
  /\ UNCHANGED <<main, startText, listVars, users, recvAt, textVars, pending, sent, boundVars,
                 logout>>

-----------------------------------------------------------------------------

Main ==
  \/ \E r \in Tasks : MainPush(r)
  \/ MainName \/ MainLogin \/ MainWait \/ MainKey
  \/ MainAbort \/ MainEnd \/ MainExit

Recv == RecvEnd \/ RecvSelect \/ RecvTimeout \/ RecvFails \/ (\E m \in Incoming : RecvMsg(m))

Send == SendMsg \/ SendEnd

Packet == PacketRecv \/ PacketTemp \/ PacketPush \/ PacketEnd

Text == TextStart \/ TextFails \/ TextLine \/ TextClose \/ TextEnd

Next == Main \/ (\E r \in Tasks : Start(r)) \/ Recv \/ Send \/ Packet \/ Text

Spec == Init /\ [][Next]_vars

(***************************************************************************)
(* Threads that can go on do; select returns after its timeout at the      *)
(* latest.  The pool starts its runners while it is not ended              *)
(* (ThreadPool's PushedIsStarted).  Nothing makes a user type a word, a    *)
(* peer send a message or the operator press a key.                        *)
(***************************************************************************)
Fairness ==
  /\ WF_vars(Main /\ main \notin {"name", "key"})
  /\ \A r \in Tasks : WF_vars(~closing /\ Start(r))
  /\ WF_vars(RecvEnd \/ RecvSelect)
  /\ WF_vars(RecvTimeout)
  /\ WF_vars(Send)
  /\ WF_vars(Packet)
  /\ WF_vars(TextStart \/ TextEnd)

FairSpec == Spec /\ Fairness

-----------------------------------------------------------------------------

\* The variables keep their types and the lists their maximal length.
TypeOK ==
  /\ task \in [Tasks -> {"new", "queued", "running", "done"}]
  /\ closing \in BOOLEAN /\ closed \in BOOLEAN
  /\ main \in {"push", "name", "login", "wait", "key", "abort", "end", "waitPool", "exit"}
  /\ runnerEnd \in BOOLEAN /\ startText \in BOOLEAN
  /\ \A list \in {recvList, sendList, tempList} : Len(list) <= MaxLength
  /\ recvAt \in {"check", "select"}
  /\ textAt \in {"waitStart", "failed", "read", "end"}
  /\ arrivals \in 0..MaxArrivals /\ lines \in 0..MaxLines
  /\ logout \in BOOLEAN

\* A Logout request the send list has taken leaves the process before it ends:
\* the sender waits for the semaphore before the end event, so "close" does not
\* overtake its own Logout.
LogoutIsSent == main = "exit" /\ logout => HasSent("Logout")

\* The text runner is an object of a block of hatchMain: it is out of the
\* pool's list before hatchMain leaves the block.
TextRunnerInScope ==
  Client /\ task["text"] = "queued" => main \in {"push", "name", "login", "wait"}

\* A user in the server's list has been told so: the reply to its login is about
\* to be pushed, waits in the send list or was sent.  A login whose reply the
\* full list refuses leaves nobody behind.
ListedIsAnswered ==
  ~Client => \A i \in 2..Len(users) :
    LET reply == [type |-> "Login", peer |-> users[i].addr, name |-> "server"]
        IsReply(m) == m.type = reply.type /\ m.peer = reply.peer /\ m.name = reply.name
    IN  \/ reply \in sent
        \/ \E list \in {pending, sendList} : \E j \in DOMAIN list : IsReply(list[j])

\* Typing "close" ends the process, whatever is in the lists and whatever still
\* arrives.
CloseExits == (textAt = "end") ~> (main = "exit")

\* Once g_eventRnnerEnd is signalled the tasks of the pool end for good.
SignalledTasksEnd == runnerEnd ~> [](\A r \in Tasks : task[r] # "running")
=============================================================================
