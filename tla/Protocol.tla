------------------------------ MODULE Protocol ------------------------------
(***************************************************************************)
(* The chat protocol's handlers (CHatchProtocolServer, CHatchProtocolClient*)
(* and the CHatchUserList operations they call) as operators: each takes   *)
(* the user list and a message and gives the new list, the messages to     *)
(* push on the send list, in order, and whether the text event or the end  *)
(* event is set.                                                           *)
(*                                                                         *)
(* A message has a type, a peer (the sender's address when received, the   *)
(* receiver's when sent: m_msgFromAddr serves as both), a user name and,   *)
(* in Update and BackSyn, that user's address.  The user list starts with  *)
(* the server; a client's own entry is the second.                         *)
(***************************************************************************)
EXTENDS Integers, Sequences

CONSTANT NoAddr   \* the address field of a message that has none

Msg(type, peer, name, user) ==
  [type |-> type, peer |-> peer, name |-> name, user |-> user]

User(name, addr, status) == [name |-> name, addr |-> addr, status |-> status]

-----------------------------------------------------------------------------
(* CHatchUserList *)

Places(users, name) == {i \in DOMAIN users : users[i].name = name}

hatchIsUserInList(users, name) == Places(users, name) # {}

hatchLocateUser(users, name) ==
  CHOOSE i \in Places(users, name) : \A j \in Places(users, name) : i <= j

hatchPushUser(users, user) ==
  IF hatchIsUserInList(users, user.name) THEN users ELSE Append(users, user)

\* seeded fault: the entry before the one found is erased
hatchPopUser_OffByOne(users, name) ==
  IF hatchIsUserInList(users, name)
    THEN LET i == hatchLocateUser(users, name) - 1
         IN  SubSeq(users, 1, i - 1) \o SubSeq(users, i + 1, Len(users))
    ELSE users

hatchPopUser(users, name) ==
  IF hatchIsUserInList(users, name)
    THEN LET i == hatchLocateUser(users, name)
         IN  SubSeq(users, 1, i - 1) \o SubSeq(users, i + 1, Len(users))
    ELSE users

\* hatchPushSendMsgGroup: a copy for everyone after the first skip entries
Group(users, skip, msg) ==
  [i \in 1..(Len(users) - skip) |-> [msg EXCEPT !.peer = users[i + skip].addr]]

-----------------------------------------------------------------------------

\* the outcome of a handler that only drops its message
Nothing(users) == [users |-> users, out |-> <<>>, start |-> FALSE, end |-> FALSE]

(* CHatchProtocolServer *)

\* seeded fault: a login is granted whoever has the name
ServerLogin_NoCheck(users, m) ==
  LET all == Append(users, User(m.name, m.peer, "unset"))
  IN  [Nothing(all) EXCEPT
         !.out = <<[m EXCEPT !.name = "server"]>>
                 \o Group(all, 1, Msg("Update", m.peer, m.name, m.peer))]

\* seeded fault: the Updates are sent before the reply
ServerLogin_UpdateFirst(users, m) ==
  IF hatchIsUserInList(users, m.name)
    THEN [Nothing(users) EXCEPT !.out = <<[m EXCEPT !.name = "error"]>>]
    ELSE LET all == hatchPushUser(users, User(m.name, m.peer, "unset"))
         IN  [Nothing(all) EXCEPT
                !.out = Group(all, 1, Msg("Update", m.peer, m.name, m.peer))
                        \o <<[m EXCEPT !.name = "server"]>>]

\* The reply is the message itself under another name.  The caller undoes the
\* login when the send list refuses the reply.
ServerLogin(users, m) ==
  IF hatchIsUserInList(users, m.name)
    THEN [Nothing(users) EXCEPT !.out = <<[m EXCEPT !.name = "error"]>>]
    ELSE LET all == hatchPushUser(users, User(m.name, m.peer, "unset"))
         IN  [Nothing(all) EXCEPT
                !.out = <<[m EXCEPT !.name = "server"]>>
                        \o Group(all, 1, Msg("Update", m.peer, m.name, m.peer))]

ServerUpdate(users, m) ==
  [Nothing(users) EXCEPT
     !.out = <<IF hatchIsUserInList(users, m.name) THEN m ELSE [m EXCEPT !.name = "error"]>>]

\* seeded fault: the Logout is passed on and the entry stays
ServerLogout_KeepsUser(users, m) ==
  IF ~hatchIsUserInList(users, m.name) THEN Nothing(users)
  ELSE [Nothing(users) EXCEPT !.out = <<m>> \o Group(users, 1, m)]

\* Nobody compares the sender with the address of the user that logs out.
ServerLogout(users, m) ==
  IF ~hatchIsUserInList(users, m.name) THEN Nothing(users)
  ELSE LET rest == hatchPopUser(users, m.name)
       IN  [Nothing(rest) EXCEPT !.out = <<m>> \o Group(rest, 1, m)]

ServerMsgProc(users, m) ==
  CASE m.type = "Login"  -> ServerLogin(users, m)
    [] m.type = "Update" -> ServerUpdate(users, m)
    [] m.type = "Logout" -> ServerLogout(users, m)
    [] OTHER -> Nothing(users)

-----------------------------------------------------------------------------
(* CHatchProtocolClient *)

Own(users) == users[2]

SetOwnStatus(users, status) == [users EXCEPT ![2].status = status]

ClientLogin(users, m) ==
  IF m.name = "server"
    THEN [Nothing(SetOwnStatus(users, "Login")) EXCEPT !.start = TRUE]
    ELSE Nothing(SetOwnStatus(users, "NULL"))

\* hatchMsgUpdateUp copies its body to the wrong offset, so the server takes the
\* first letters of the name for the message type and finds no such type.
UpdateUp(users, m) ==
  Msg("garbled", users[hatchLocateUser(users, "server")].addr, m.name, m.peer)

ClientText(users, m) ==
  IF ~hatchIsUserInList(users, m.name)
    THEN [Nothing(users) EXCEPT !.out = <<UpdateUp(users, m)>>]
  ELSE IF m.name = Own(users).name
    THEN [Nothing(users) EXCEPT !.out = Group(users, 2, m)]
  ELSE LET i == hatchLocateUser(users, m.name)
       IN  Nothing([users EXCEPT ![i].status = IF @ = "Hide" THEN "Online" ELSE @])

\* seeded fault: a client adds the new user and does not introduce itself
ClientUpdate_NoBackSyn(users, m) ==
  CASE Own(users).status = "Login" ->
         Nothing(SetOwnStatus(users, IF m.name = Own(users).name THEN "Online" ELSE "NULL"))
    [] Own(users).status \in {"Online", "Hide", "Busy"} ->
         IF hatchIsUserInList(users, m.name) \/ m.name = "error" THEN Nothing(users)
         ELSE Nothing(hatchPushUser(users, User(m.name, m.user, "Online")))
    [] OTHER -> Nothing(users)

ClientUpdate(users, m) ==
  CASE Own(users).status = "Login" ->
         Nothing(SetOwnStatus(users, IF m.name = Own(users).name THEN "Online" ELSE "NULL"))
    [] Own(users).status \in {"Online", "Hide", "Busy"} ->
         IF hatchIsUserInList(users, m.name) \/ m.name = "error" THEN Nothing(users)
         ELSE [Nothing(hatchPushUser(users, User(m.name, m.user, "Online"))) EXCEPT
                 !.out = <<Msg("BackSyn", m.user, Own(users).name, Own(users).addr)>>]
    [] OTHER -> Nothing(users)

ClientBackSyn(users, m) ==
  Nothing(hatchPushUser(users, User(m.name, m.user, "Online")))

ClientLogout(users, m) ==
  IF ~hatchIsUserInList(users, m.name) THEN Nothing(users)
  ELSE IF m.name = Own(users).name
    THEN [Nothing(SetOwnStatus(users, "NULL")) EXCEPT !.end = TRUE]
  ELSE Nothing(hatchPopUser(users, m.name))

ClientMsgProc(users, m) ==
  CASE m.type = "Login"   -> ClientLogin(users, m)
    [] m.type = "Update"  -> ClientUpdate(users, m)
    [] m.type = "Text"    -> ClientText(users, m)
    [] m.type = "BackSyn" -> ClientBackSyn(users, m)
    [] m.type = "Logout"  -> ClientLogout(users, m)
    [] OTHER -> Nothing(users)

-----------------------------------------------------------------------------
(* the user list and the requests of CHatchServices *)

ServerUsers(server) == <<User("server", server, "Online")>>

ClientUsers(server, self) ==
  <<User("server", server, "Online"), User("client_init", self, "Online")>>

LoginRequest(server, name) == Msg("Login", server, name, NoAddr)

LogoutRequest(server, name) == Msg("Logout", server, name, NoAddr)
=============================================================================
