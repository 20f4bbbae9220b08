-------------------------------- MODULE Chat --------------------------------
(***************************************************************************)
(* A hatchNet server and its clients over UDP.  A process handles one      *)
(* message at a time (one packet runner), so a delivery is one step; the   *)
(* receive and send lists of the two processes and the network between     *)
(* them are one channel per sender and receiver, which keeps the order of  *)
(* its messages or not.  A message that stays in an unordered channel is a *)
(* lost one, and a client that takes no step any more a killed one.  (A    *)
(* login whose reply the server's send list refuses is undone, so it is    *)
(* like a Login that got lost.)  UDP's duplicates are left out.            *)
(***************************************************************************)
EXTENDS Protocol, FiniteSets

CONSTANTS Clients,   \* the clients' addresses
          Server,    \* the server's address
          Names,     \* the names users may type
          Ordered    \* do channels keep the order, and deliver everything?

ASSUME ChatAssumption ==
  /\ IsFiniteSet(Clients)
  /\ Server \notin Clients
  /\ Names \cap {"server", "error", "client_init"} = {}
  /\ Ordered \in BOOLEAN

VARIABLES serverUsers,   \* the server's g_vectUserList
          users,         \* each client's g_vectUserList
          phase,         \* each client: off, asked (Login sent), chat (text started),
                         \* leaving (Logout sent) or gone
          net            \* net[s][d]: messages on their way from s to d

vars == <<serverUsers, users, phase, net>>

Hosts == Clients \cup {Server}

Init ==
  /\ serverUsers = ServerUsers(Server)
  /\ users = [c \in Clients |-> ClientUsers(Server, c)]
  /\ phase = [c \in Clients |-> "off"]
  /\ net = [s \in Hosts |-> [d \in Hosts |-> <<>>]]

\* the process at an address has ended, and its socket with it
Gone(d) == d \in Clients /\ phase[d] = "gone"

\* the messages of out that are sent to d, in their order
Addressed(out, d) ==
  LET upTo[i \in 0..Len(out)] ==
        IF i = 0 THEN <<>>
        ELSE IF out[i].peer = d THEN Append(upTo[i - 1], out[i])
        ELSE upTo[i - 1]
  IN  upTo[Len(out)]

\* the messages of out, each in the channel to its receiver; nobody gets one
\* that is sent to a process that is gone
Post(channels, s, out) ==
  [channels EXCEPT ![s] =
     [d \in Hosts |-> IF Gone(d) THEN <<>> ELSE @[d] \o Addressed(out, d)]]

Without(seq, i) == SubSeq(seq, 1, i - 1) \o SubSeq(seq, i + 1, Len(seq))

Take(s, d, i) == [net EXCEPT ![s][d] = Without(@, i)]

\* m_msgFromAddr of a received message is its sender
Received(s, d, i) == [net[s][d][i] EXCEPT !.peer = s]

\* places of a channel a message may be delivered from
Deliverable(s, d) == {i \in DOMAIN net[s][d] : Ordered => i = 1}

Running(c) == phase[c] \in {"asked", "chat", "leaving"}

-----------------------------------------------------------------------------

\* hatchClientLogin
Login(c, n) ==
  /\ phase[c] = "off"
  /\ users' = [users EXCEPT ![c][2].name = n]
  /\ net' = Post(net, c, <<LoginRequest(Server, n)>>)
  /\ phase' = [phase EXCEPT ![c] = "asked"]
  /\ UNCHANGED serverUsers

\* "close": hatchClientLogout; the packet runner may handle a few messages more
Close(c) ==
  /\ phase[c] = "chat"
  /\ net' = Post(net, c, <<LogoutRequest(Server, Own(users[c]).name)>>)
  /\ phase' = [phase EXCEPT ![c] = "leaving"]
  /\ UNCHANGED <<serverUsers, users>>

\* the process ends, and what is on its way to it is lost
Exit(c) ==
  /\ phase[c] = "leaving"
  /\ phase' = [phase EXCEPT ![c] = "gone"]
  /\ net' = [s \in Hosts |-> [net[s] EXCEPT ![c] = <<>>]]
  /\ UNCHANGED <<serverUsers, users>>

ServerReceive(c, i) ==
  /\ i \in Deliverable(c, Server)
  /\ LET result == ServerMsgProc(serverUsers, Received(c, Server, i))
     IN  /\ serverUsers' = result.users
         /\ net' = Post(Take(c, Server, i), Server, result.out)
  /\ UNCHANGED <<users, phase>>

ClientReceive(s, c, i) ==
  /\ i \in Deliverable(s, c)
  /\ Running(c)
  /\ LET result == ClientMsgProc(users[c], Received(s, c, i))
     IN  /\ users' = [users EXCEPT ![c] = result.users]
         /\ net' = Post(Take(s, c, i), c, result.out)
         /\ phase' = [phase EXCEPT ![c] = IF result.start /\ @ = "asked" THEN "chat" ELSE @]
  /\ UNCHANGED serverUsers

-----------------------------------------------------------------------------

Client(c) ==
  \/ \E n \in Names : Login(c, n)
  \/ Close(c)
  \/ Exit(c)
  \/ \E s \in Hosts : \E i \in DOMAIN net[s][c] : ClientReceive(s, c, i)

Next ==
  \/ \E c \in Clients : Client(c)
  \/ \E c \in Clients : \E i \in DOMAIN net[c][Server] : ServerReceive(c, i)

Spec == Init /\ [][Next]_vars

-----------------------------------------------------------------------------

\* clients whose user may type
Chatting == {c \in Clients : phase[c] = "chat"}

NameOf(c) == Own(users[c]).name

\* The variables keep their types, and a client's first two entries are the
\* server and itself: hatchLocateUser(NULL) relies on it.
TypeOK ==
  /\ serverUsers[1].name = "server"
  /\ \A c \in Clients : users[c][1].name = "server" /\ Own(users[c]).addr = c
  /\ phase \in [Clients -> {"off", "asked", "chat", "leaving", "gone"}]
  /\ DOMAIN net = Hosts

\* A client that chats is in the server's list under its name and address: no
\* Logout or refused login of anybody else takes it out.
ChattingIsListed ==
  \A c \in Chatting :
    \E i \in DOMAIN serverUsers : serverUsers[i].name = NameOf(c) /\ serverUsers[i].addr = c

\* Two users that chat have different names, although the server compares names
\* only, and takes a Logout from anybody.
UniqueNames == \A c, d \in Chatting : c # d => NameOf(c) # NameOf(d)

\* clients with such a message on its way to the server, or from it
ToServer(type) ==
  {c \in Clients : \E i \in DOMAIN net[c][Server] : net[c][Server][i].type = type}

Replied(reply) ==
  {c \in Clients : \E i \in DOMAIN net[Server][c] :
     net[Server][c][i].type = "Login" /\ net[Server][c][i].name = reply}

NamesOf == [c \in Clients |-> NameOf(c)]

\* the server's entries, without its own
Listed ==
  {[name |-> serverUsers[i].name, addr |-> serverUsers[i].addr] : i \in 2..Len(serverUsers)}

Registered == INSTANCE Registry WITH
  NoName  <- "client_init",
  name    <- NamesOf,
  listed  <- Listed,
  logins  <- ToServer("Login"),
  granted <- Replied("server"),
  refused <- Replied("error"),
  logouts <- ToServer("Logout")

\* The server and its clients implement the register of names, whatever Updates,
\* BackSyns and Logouts between clients do: in particular a Logout takes out one
\* entry, the one of its sender.
ImplementsRegistry == Registered!Spec

\* A client that chats is not thrown back to User_NULL: its own Update comes
\* before anybody else's.
StaysLoggedIn == \A c \in Chatting : Own(users[c]).status \in {"Login", "Online"}

Knows(c, d) == hatchIsUserInList(users[c], NameOf(d))

\* nothing is on its way
Quiet == \A s, d \in Hosts : net[s][d] = <<>>

\* somebody else has used the name of c or d
Reused(c, d) == \E e \in Clients \ {c, d} : NameOf(e) \in {NameOf(c), NameOf(d)}

\* When all messages are delivered, users that chat know each other, whoever
\* came first: the older from the server's Update, the newer from the BackSyn.
\* Their names must be new ones.
MutualKnowledge ==
  Quiet => \A c, d \in Chatting : c # d => Knows(c, d) \/ Reused(c, d)

\* "synchronize old user to new user": the same, whatever names were used before.
OldSynchronizedToNew == Quiet => \A c, d \in Chatting : c # d => Knows(c, d)
=============================================================================
