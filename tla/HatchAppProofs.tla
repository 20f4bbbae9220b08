--------------------------- MODULE HatchAppProofs ---------------------------
(***************************************************************************)
(* One hatchNet process for any lists' length, any messages and any names. *)
(***************************************************************************)
EXTENDS HatchApp, SequenceTheorems, WellFoundedInduction, TLAPS

(* The user list *)

\* Every set of places has a first one.
LEMMA Least ==
  ASSUME NEW S \in SUBSET Nat, S # {}
  PROVE  \E i \in S : \A j \in S : i <= j
<1>1. PICK i \in S : \A j \in S : ~ (<<j, i>> \in OpToRel(<, Nat))
  BY WFMin, NatLessThanWellFounded, Zenon
<1>2. ASSUME NEW j \in S
      PROVE  i <= j
  <2>1. i \in Nat /\ j \in Nat
    OBVIOUS
  <2>2. <<j, i>> \in Nat \X Nat /\ <<j, i>>[1] = j /\ <<j, i>>[2] = i
    BY <2>1
  <2>3. ~(j < i)
    BY <1>1, <2>2 DEF OpToRel
  <2> QED  BY <2>1, <2>3
<1> QED  BY <1>2

\* hatchLocateUser finds the first entry with the name.
LEMMA Located ==
  ASSUME NEW S, NEW list \in Seq(S), NEW name, hatchIsUserInList(list, name)
  PROVE  LET k == hatchLocateUser(list, name)
         IN  /\ k \in 1..Len(list) /\ list[k].name = name
             /\ \A j \in 1..Len(list) : list[j].name = name => k <= j
<1>1. Places(list, name) \subseteq 1..Len(list) /\ Places(list, name) # {}
  BY DEF Places, hatchIsUserInList
<1>2. \E i \in Places(list, name) : \A j \in Places(list, name) : i <= j
  BY <1>1, Least
<1>3. LET k == hatchLocateUser(list, name)
      IN  k \in Places(list, name) /\ \A j \in Places(list, name) : k <= j
  BY <1>2 DEF hatchLocateUser
<1> QED  BY <1>1, <1>3 DEF Places

\* hatchPopUser closes the gap the entry leaves, and keeps the others' order.
LEMMA Popped ==
  ASSUME NEW S, NEW list \in Seq(S), NEW name, hatchIsUserInList(list, name)
  PROVE  LET k == hatchLocateUser(list, name)
             rest == hatchPopUser(list, name)
         IN  /\ rest \in Seq(S) /\ Len(rest) = Len(list) - 1
             /\ \A j \in 1..Len(rest) : rest[j] = IF j < k THEN list[j] ELSE list[j + 1]
<1> DEFINE k == hatchLocateUser(list, name)
           before == SubSeq(list, 1, k - 1)
           after == SubSeq(list, k + 1, Len(list))
<1>1. k \in 1..Len(list) /\ Len(list) \in Nat
  BY Located
<1>2. hatchPopUser(list, name) = before \o after
  BY Zenon DEF hatchPopUser
<1> HIDE DEF k
<1>3. /\ before \in Seq(S) /\ Len(before) = k - 1
      /\ \A j \in 1..(k - 1) : before[j] = list[j]
  BY <1>1, SubSeqProperties
<1>4. /\ after \in Seq(S) /\ Len(after) = Len(list) - k
      /\ \A j \in 1..(Len(list) - k) : after[j] = list[k + j]
  BY <1>1
<1> HIDE DEF before, after
<1>5. /\ before \o after \in Seq(S) /\ Len(before \o after) = Len(list) - 1
      /\ \A j \in 1..(Len(list) - 1) :
           (before \o after)[j] = IF j < k THEN before[j] ELSE after[j - (k - 1)]
  <2>1. /\ before \o after \in Seq(S) /\ Len(before \o after) = Len(before) + Len(after)
        /\ \A j \in 1..(Len(before) + Len(after)) :
             (before \o after)[j] = IF j <= Len(before) THEN before[j] ELSE after[j - Len(before)]
    BY <1>3, <1>4, ConcatProperties, Zenon
  <2>2. Len(before) + Len(after) = Len(list) - 1
    BY <1>1, <1>3, <1>4
  <2>3. \A j \in 1..(Len(list) - 1) : j <= k - 1 <=> j < k
    BY <1>1
  <2> QED  BY <1>3, <2>1, <2>2, <2>3
<1>6. \A j \in 1..(Len(list) - 1) : (before \o after)[j] = IF j < k THEN list[j] ELSE list[j + 1]
  <2> SUFFICES ASSUME NEW j \in 1..(Len(list) - 1)
               PROVE  (before \o after)[j] = IF j < k THEN list[j] ELSE list[j + 1]
    BY Zenon
  <2>1. CASE j < k
    BY <1>1, <1>3, <1>5, <2>1
  <2>2. CASE ~(j < k)
    <3>1. j - (k - 1) \in 1..(Len(list) - k) /\ k + (j - (k - 1)) = j + 1
      BY <1>1, <2>2
    <3>2. after[j - (k - 1)] = list[j + 1]
      BY <1>4, <3>1
    <3> QED  BY <1>5, <2>2, <3>2, Zenon
  <2> QED  BY <2>1, <2>2, Zenon
<1> QED  BY <1>2, <1>5, <1>6 DEF k

-----------------------------------------------------------------------------
(* What the handlers make of messages and users.  The sets hold every name *)
(* and address that can get into a list.                                   *)

Addrs == {Server, Self, NoAddr} \cup {m.peer : m \in Incoming} \cup {m.user : m \in Incoming}
Names == {"none", "server", "client_init", "error", Name} \cup {m.name : m \in Incoming}
Kinds == {"Login", "Update", "Text", "BackSyn", "Logout", "garbled"} \cup {m.type : m \in Incoming}
Statuses == {"unset", "Online", "Login", "NULL", "Hide", "Busy"}

Messages == [type : Kinds, peer : Addrs, name : Names, user : Addrs]
Users == [name : Names, addr : Addrs, status : Statuses]
Words == {Msg("Text", Self, n, NoAddr) : n \in Names}

LEMMA MsgIsMessage ==
  ASSUME NEW k \in Kinds, NEW a \in Addrs, NEW n \in Names, NEW u \in Addrs
  PROVE  Msg(k, a, n, u) \in Messages
  BY DEF Msg, Messages

LEMMA IncomingAreMessages == Incoming \subseteq Messages
<1> SUFFICES ASSUME NEW m \in Incoming
             PROVE  m \in Messages
  OBVIOUS
<1>1. m.type \in Kinds /\ m.peer \in Addrs /\ m.name \in Names /\ m.user \in Addrs
  BY DEF Kinds, Addrs, Names
<1>2. m = Msg(m.type, m.peer, m.name, m.user)
  BY AppAssumption
<1> QED  BY <1>1, <1>2, MsgIsMessage

LEMMA WordsAreMessages ==
  ASSUME NEW w \in Words
  PROVE  w \in Messages /\ w.type = "Text"
<1>1. PICK n \in Names : w = Msg("Text", Self, n, NoAddr)
  BY Zenon DEF Words
<1>2. "Text" \in Kinds /\ Self \in Addrs /\ NoAddr \in Addrs
  BY Zenon DEF Kinds, Addrs
<1>3. w \in Messages
  BY <1>1, <1>2, MsgIsMessage, Zenon
<1>4. w.type = "Text"
  BY <1>1, Zenon DEF Msg
<1> QED  BY <1>3, <1>4

LEMMA GroupIsMessages ==
  ASSUME NEW list \in Seq(Users), NEW skip \in Nat, skip <= Len(list), NEW m \in Messages
  PROVE  LET group == Group(list, skip, m)
         IN  /\ group \in Seq(Messages) /\ Len(group) = Len(list) - skip
             /\ \A i \in 1..(Len(list) - skip) : group[i] = [m EXCEPT !.peer = list[i + skip].addr]
             /\ \A i \in 1..(Len(list) - skip) : group[i].type = m.type /\ group[i].name = m.name
<1> DEFINE n == Len(list) - skip
           copy(i) == [m EXCEPT !.peer = list[i + skip].addr]
<1>1. n \in Nat
  OBVIOUS
<1>2. ASSUME NEW i \in 1..n
      PROVE  copy(i) \in Messages /\ copy(i).type = m.type /\ copy(i).name = m.name
  <2>1. i + skip \in 1..Len(list)
    BY <1>1
  <2>2. list[i + skip] \in Users
    BY <2>1, ElementOfSeq
  <2>3. list[i + skip].addr \in Addrs
    BY <2>2 DEF Users
  <2> QED  BY <2>3, Zenon DEF Messages
<1>3. Group(list, skip, m) = [i \in 1..n |-> copy(i)]
  BY DEF Group
<1> HIDE DEF n, copy
<1>4. [i \in 1..n |-> copy(i)] \in Seq(Messages) /\ Len([i \in 1..n |-> copy(i)]) = n
  BY <1>1, <1>2
<1>5. \A i \in 1..n : Group(list, skip, m)[i] = copy(i)
  BY <1>3
<1> QED  BY <1>2, <1>3, <1>4, <1>5, Zenon DEF n, copy

\* hatchPushUser
LEMMA Pushed ==
  ASSUME NEW list \in Seq(Users), NEW u \in Users
  PROVE  LET all == hatchPushUser(list, u)
         IN  /\ all \in Seq(Users) /\ Len(all) >= Len(list)
             /\ \A i \in 1..Len(list) : all[i] = list[i]
  BY AppendProperties DEF hatchPushUser

\* an entry under another status
LEMMA StatusSet ==
  ASSUME NEW list \in Seq(Users), NEW i \in 1..Len(list), NEW s \in Statuses
  PROVE  LET new == [list EXCEPT ![i].status = s]
         IN  /\ new \in Seq(Users) /\ Len(new) = Len(list)
             /\ \A j \in 1..Len(list) : new[j].name = list[j].name
<1> DEFINE e == [list[i] EXCEPT !.status = s]
<1>1. list[i] \in Users
  BY ElementOfSeq
<1>2. e \in Users /\ e.name = list[i].name
  BY <1>1 DEF Users
<1>3. [list EXCEPT ![i].status = s] = [list EXCEPT ![i] = e]
  OBVIOUS
<1> HIDE DEF e
<1> QED  BY <1>2, <1>3, ExceptSeq

\* what a client's handler may give for the message m: the server's entry and
\* the own one stay in front, and what it sends is no request to the server
ClientResult(list, m, r) ==
  /\ r.users \in Seq(Users) /\ Len(r.users) >= 2
  /\ r.users[1].name = "server" /\ r.users[2].name = list[2].name
  /\ r.out \in Seq(Messages)
  /\ \A i \in 1..Len(r.out) : r.out[i].type \in {"garbled", "Text", "BackSyn"}
  /\ r.start \in BOOLEAN /\ (r.start => m.type = "Login")
  /\ r.end \in BOOLEAN /\ (r.end => m.type = "Logout" /\ m.name = list[2].name)

\* A handler that only changes the list.
LEMMA NothingSent ==
  ASSUME NEW list, NEW new \in Seq(Users), Len(new) >= 2, NEW m,
         new[1].name = "server", new[2].name = list[2].name
  PROVE  ClientResult(list, m, Nothing(new))
<1>1. <<>> \in Seq(Messages) /\ Len(<<>>) = 0
  BY EmptySeq
<1> QED  BY <1>1 DEF ClientResult, Nothing

\* The client's handlers, for any list it may have and any message.
LEMMA ClientHandled ==
  ASSUME NEW list \in Seq(Users), Len(list) >= 2, list[1].name = "server",
         NEW m \in Messages, m.type = "Logout" => m.name # "server"
  PROVE  ClientResult(list, m, ClientMsgProc(list, m))
<1>1. /\ 1 \in 1..Len(list) /\ 2 \in 1..Len(list)
      /\ m.name \in Names /\ m.peer \in Addrs /\ m.user \in Addrs
  BY DEF Messages
<1>2. ASSUME NEW s \in Statuses
      PROVE  /\ SetOwnStatus(list, s) \in Seq(Users) /\ Len(SetOwnStatus(list, s)) >= 2
             /\ SetOwnStatus(list, s)[1].name = "server"
             /\ SetOwnStatus(list, s)[2].name = list[2].name
  BY <1>1, StatusSet DEF SetOwnStatus
<1>3. ASSUME NEW u \in Users
      PROVE  /\ hatchPushUser(list, u) \in Seq(Users) /\ Len(hatchPushUser(list, u)) >= 2
             /\ hatchPushUser(list, u)[1].name = "server"
             /\ hatchPushUser(list, u)[2].name = list[2].name
  <2>1. /\ hatchPushUser(list, u) \in Seq(Users) /\ Len(hatchPushUser(list, u)) >= Len(list)
        /\ \A i \in 1..Len(list) : hatchPushUser(list, u)[i] = list[i]
    BY Pushed, Zenon
  <2> QED  BY <1>1, <2>1
<1>4. User(m.name, m.user, "Online") \in Users
  BY <1>1 DEF User, Users, Statuses
<1>5. list[2] \in Users /\ list[2].name \in Names /\ list[2].addr \in Addrs
  <2>1. list[2] \in Users
    BY <1>1, ElementOfSeq
  <2> QED  BY <2>1 DEF Users
<1>6. CASE m.type = "Login"
  <2>1. ClientMsgProc(list, m) = ClientLogin(list, m)
    BY <1>6 DEF ClientMsgProc
  <2>2. ClientResult(list, m, Nothing(SetOwnStatus(list, "Login")))
        /\ ClientResult(list, m, Nothing(SetOwnStatus(list, "NULL")))
    BY <1>2, NothingSent, Zenon DEF Statuses
  <2>3. ClientResult(list, m, [Nothing(SetOwnStatus(list, "Login")) EXCEPT !.start = TRUE])
    BY <1>6, <2>2 DEF ClientResult, Nothing
  <2> QED  BY <2>1, <2>2, <2>3 DEF ClientLogin
<1>7. CASE m.type = "Update"
  <2>1. ClientMsgProc(list, m) = ClientUpdate(list, m)
    BY <1>7 DEF ClientMsgProc
  <2>2. ClientResult(list, m, Nothing(list))
    BY NothingSent
  <2>3. ClientResult(list, m,
          Nothing(SetOwnStatus(list, IF m.name = Own(list).name THEN "Online" ELSE "NULL")))
    BY <1>2, NothingSent, Zenon DEF Statuses
  <2> DEFINE all == hatchPushUser(list, User(m.name, m.user, "Online"))
             back == Msg("BackSyn", m.user, Own(list).name, Own(list).addr)
  <2>4. ClientResult(list, m, Nothing(all))
    BY <1>3, <1>4, NothingSent
  <2>5. back \in Messages /\ back.type = "BackSyn"
    BY <1>1, <1>5 DEF Own, Msg, Messages, Kinds
  <2>6. <<back>> \in Seq(Messages) /\ Len(<<back>>) = 1 /\ <<back>>[1] = back
    BY <2>5
  <2>7. ClientResult(list, m, [Nothing(all) EXCEPT !.out = <<back>>])
    <3> HIDE DEF all, back
    <3> QED  BY <2>4, <2>5, <2>6 DEF ClientResult, Nothing
  <2> QED  BY <2>1, <2>2, <2>3, <2>7 DEF ClientUpdate
<1>8. CASE m.type = "Text"
  <2>1. ClientMsgProc(list, m) = ClientText(list, m)
    BY <1>8 DEF ClientMsgProc
  <2>2. ClientResult(list, m, Nothing(list))
    BY NothingSent
  <2>3. CASE ~hatchIsUserInList(list, m.name)
    <3> DEFINE up == UpdateUp(list, m)
    <3>1. hatchIsUserInList(list, "server")
      BY <1>1 DEF hatchIsUserInList, Places
    <3>2. hatchLocateUser(list, "server") \in 1..Len(list)
      BY <3>1, Located
    <3>3. list[hatchLocateUser(list, "server")].addr \in Addrs
      <4>1. list[hatchLocateUser(list, "server")] \in Users
        BY <3>2, ElementOfSeq
      <4> QED  BY <4>1 DEF Users
    <3>4. up \in Messages /\ up.type = "garbled"
      BY <1>1, <3>3 DEF UpdateUp, Msg, Messages, Kinds
    <3>5. <<up>> \in Seq(Messages) /\ Len(<<up>>) = 1 /\ <<up>>[1] = up
      BY <3>4
    <3>6. ClientText(list, m) = [Nothing(list) EXCEPT !.out = <<up>>]
      BY <2>3 DEF ClientText
    <3> HIDE DEF up
    <3> QED  BY <2>1, <2>2, <3>4, <3>5, <3>6 DEF ClientResult, Nothing
  <2>4. CASE hatchIsUserInList(list, m.name) /\ m.name = Own(list).name
    <3> DEFINE group == Group(list, 2, m)
    <3>1. group \in Seq(Messages) /\ \A i \in 1..Len(group) : group[i].type = "Text"
      BY <1>8, GroupIsMessages
    <3>2. ClientText(list, m) = [Nothing(list) EXCEPT !.out = group]
      BY <2>4 DEF ClientText
    <3> HIDE DEF group
    <3> QED  BY <2>1, <2>2, <3>1, <3>2 DEF ClientResult, Nothing
  <2>5. CASE hatchIsUserInList(list, m.name) /\ m.name # Own(list).name
    <3> DEFINE i == hatchLocateUser(list, m.name)
               s == IF list[i].status = "Hide" THEN "Online" ELSE list[i].status
               new == [list EXCEPT ![i].status = s]
    <3>1. i \in 1..Len(list)
      BY <2>5, Located
    <3>2. s \in Statuses
      <4>1. list[i] \in Users
        BY <3>1, ElementOfSeq
      <4> QED  BY <4>1 DEF Users, Statuses
    <3>3. ClientText(list, m) = Nothing(new)
      BY <2>5 DEF ClientText
    <3> HIDE DEF i, s
    <3>4. /\ new \in Seq(Users) /\ Len(new) = Len(list)
          /\ \A j \in 1..Len(list) : new[j].name = list[j].name
      BY <3>1, <3>2, StatusSet
    <3> HIDE DEF new
    <3> QED  BY <1>1, <2>1, <3>3, <3>4, NothingSent
  <2> QED  BY <2>3, <2>4, <2>5
<1>9. CASE m.type = "BackSyn"
  BY <1>3, <1>4, <1>9, NothingSent DEF ClientMsgProc, ClientBackSyn
<1>10. CASE m.type = "Logout"
  <2>1. ClientMsgProc(list, m) = ClientLogout(list, m)
    BY <1>10 DEF ClientMsgProc
  <2>2. CASE ~hatchIsUserInList(list, m.name)
    BY <2>1, <2>2, NothingSent DEF ClientLogout
  <2>3. CASE hatchIsUserInList(list, m.name) /\ m.name = list[2].name
    <3>1. ClientMsgProc(list, m) = [Nothing(SetOwnStatus(list, "NULL")) EXCEPT !.end = TRUE]
      BY <2>1, <2>3 DEF ClientLogout, Own
    <3>2. ClientResult(list, m, Nothing(SetOwnStatus(list, "NULL")))
      BY <1>2, NothingSent DEF Statuses
    <3> QED  BY <1>10, <2>3, <3>1, <3>2 DEF ClientResult, Nothing
  <2>4. CASE hatchIsUserInList(list, m.name) /\ m.name # list[2].name
    <3> DEFINE k == hatchLocateUser(list, m.name)
               rest == hatchPopUser(list, m.name)
    <3>1. k \in 1..Len(list) /\ list[k].name = m.name
      BY <2>4, Located
    <3>2. k > 2
      BY <1>10, <2>4, <3>1
    <3>3. /\ rest \in Seq(Users) /\ Len(rest) = Len(list) - 1
          /\ \A j \in 1..Len(rest) : rest[j] = IF j < k THEN list[j] ELSE list[j + 1]
      BY <2>4, Popped
    <3>4. ClientMsgProc(list, m) = Nothing(rest)
      BY <2>1, <2>4 DEF ClientLogout, Own
    <3> HIDE DEF k, rest
    <3>5. Len(rest) >= 2 /\ rest[1] = list[1] /\ rest[2] = list[2]
      BY <3>1, <3>2, <3>3
    <3> QED  BY <3>3, <3>4, <3>5, NothingSent
  <2> QED  BY <2>2, <2>3, <2>4
<1>11. CASE m.type \notin {"Login", "Update", "Text", "BackSyn", "Logout"}
  BY <1>11, NothingSent DEF ClientMsgProc
<1> QED  BY <1>6, <1>7, <1>8, <1>9, <1>10, <1>11

\* m is the reply that grants the login of the user at address a
Reply(m, a) == m.type = "Login" /\ m.peer = a /\ m.name = "server"

\* the last user of the list is the one whose login the messages out grant: the
\* first of them tells it so, the second has its name, which nobody else has
GrantsLast(list, out) ==
  LET n == Len(list)
  IN  /\ Granted(out) /\ n >= 2 /\ Reply(out[1], list[n].addr)
      /\ out[2].name = list[n].name
      /\ \A j \in 1..n : list[j].name = list[n].name => j = n

\* what the server's handler may give: the users after the first were users
\* after the first before, but for one whose login is being granted
ServerResult(list, r) ==
  /\ r.users \in Seq(Users) /\ r.out \in Seq(Messages)
  /\ r.start = FALSE /\ r.end = FALSE
  /\ \A i \in 2..Len(r.users) :
       \/ \E j \in 2..Len(list) : r.users[i] = list[j]
       \/ i = Len(r.users) /\ GrantsLast(r.users, r.out)
  /\ Granted(r.out) => GrantsLast(r.users, r.out)
  /\ \A i \in 2..Len(r.out) : r.out[i].type # "Login"

\* The server's handlers, for any list and any message.
LEMMA ServerHandled ==
  ASSUME NEW list \in Seq(Users), NEW m \in Messages
  PROVE  ServerResult(list, ServerMsgProc(list, m))
<1>1. m.name \in Names /\ m.peer \in Addrs /\ m.user \in Addrs /\ Len(list) \in Nat
  BY DEF Messages
<1>2. ServerResult(list, Nothing(list))
  <2>1. <<>> \in Seq(Messages) /\ Len(<<>>) = 0
    BY EmptySeq
  <2> QED  BY <2>1 DEF ServerResult, Nothing, Granted
<1>3. ASSUME NEW n \in Names
      PROVE  [m EXCEPT !.name = n] \in Messages
  BY <1>3 DEF Messages
<1>4. ASSUME NEW x \in Messages
      PROVE  ServerResult(list, [Nothing(list) EXCEPT !.out = <<x>>])
  <2>1. <<x>> \in Seq(Messages) /\ Len(<<x>>) = 1
    BY <1>4
  <2> QED  BY <1>2, <2>1 DEF ServerResult, Nothing, Granted
<1>5. CASE m.type = "Login"
  <2>1. ServerMsgProc(list, m) = ServerLogin(list, m)
    BY <1>5 DEF ServerMsgProc
  <2>2. CASE hatchIsUserInList(list, m.name)
    BY <1>3, <1>4, <2>1, <2>2, Zenon DEF ServerLogin, Names
  <2>3. CASE ~hatchIsUserInList(list, m.name)
    <3> DEFINE u == User(m.name, m.peer, "unset")
               all == Append(list, u)
               reply == [m EXCEPT !.name = "server"]
               update == Msg("Update", m.peer, m.name, m.peer)
               group == Group(all, 1, update)
               out == <<reply>> \o group
    <3>1. u \in Users /\ u.name = m.name /\ u.addr = m.peer
      BY <1>1 DEF User, Users, Statuses
    <3>2. hatchPushUser(list, u) = all
      BY <2>3, <3>1 DEF hatchPushUser
    <3>3. ServerMsgProc(list, m) = [Nothing(all) EXCEPT !.out = out]
      BY <2>1, <2>3, <3>2, Zenon DEF ServerLogin
    <3> HIDE DEF u
    <3>4. /\ all \in Seq(Users) /\ Len(all) = Len(list) + 1 /\ all[Len(list) + 1] = u
          /\ \A i \in 1..Len(list) : all[i] = list[i]
      BY <3>1, AppendProperties
    <3>5. update \in Messages /\ update.name = m.name /\ update.type = "Update"
      BY <1>1 DEF Msg, Messages, Kinds
    <3> HIDE DEF all, update
    <3>6. /\ group \in Seq(Messages) /\ Len(group) = Len(list)
          /\ \A i \in 1..Len(list) : group[i].name = m.name /\ group[i].type = "Update"
      <4>1. 1 \in Nat /\ 1 <= Len(all) /\ Len(all) - 1 = Len(list)
        BY <1>1, <3>4
      <4>2. /\ group \in Seq(Messages) /\ Len(group) = Len(all) - 1
            /\ \A i \in 1..(Len(all) - 1) : group[i].type = update.type /\ group[i].name = update.name
        BY <3>4, <3>5, <4>1, GroupIsMessages
      <4> QED  BY <3>5, <4>1, <4>2
    <3>7. reply \in Messages /\ Reply(reply, m.peer)
      BY <1>3, <1>5 DEF Messages, Names, Reply
    <3> HIDE DEF group, reply
    <3>8. /\ out \in Seq(Messages) /\ Len(out) = Len(list) + 1
          /\ out[1] = reply /\ \A i \in 2..Len(out) : out[i] = group[i - 1]
      BY <1>1, <3>6, <3>7
    <3> HIDE DEF out
    <3>9. Len(list) >= 1 => GrantsLast(all, out)
      <4> SUFFICES ASSUME Len(list) >= 1
                   PROVE  GrantsLast(all, out)
        OBVIOUS
      <4>1. Granted(out)
        BY <1>1, <3>7, <3>8 DEF Granted, Reply
      <4>2. out[2].name = m.name
        BY <1>1, <3>6, <3>8
      <4>3. \A j \in 1..Len(list) : list[j].name # m.name
        BY <2>3 DEF hatchIsUserInList, Places
      <4>4. \A j \in 1..Len(all) : all[j].name = all[Len(all)].name => j = Len(all)
        BY <1>1, <3>1, <3>4, <4>3
      <4>5. Len(all) >= 2 /\ Reply(out[1], all[Len(all)].addr) /\ all[Len(all)].name = m.name
        BY <1>1, <3>1, <3>4, <3>7, <3>8
      <4> QED  BY <4>1, <4>2, <4>4, <4>5 DEF GrantsLast
    <3>10. ASSUME NEW i \in 2..Len(all)
           PROVE  \/ \E j \in 2..Len(list) : all[i] = list[j]
                  \/ i = Len(all) /\ GrantsLast(all, out)
      BY <1>1, <3>4, <3>9
    <3>11. Granted(out) => GrantsLast(all, out)
      BY <1>1, <3>8, <3>9 DEF Granted
    <3>12. \A i \in 2..Len(out) : out[i].type # "Login"
      BY <1>1, <3>6, <3>8
    <3> QED  BY <3>3, <3>4, <3>8, <3>10, <3>11, <3>12 DEF ServerResult, Nothing
  <2> QED  BY <2>2, <2>3
<1>6. CASE m.type = "Update"
  <2>1. ServerMsgProc(list, m) = ServerUpdate(list, m)
    BY <1>6 DEF ServerMsgProc
  <2> QED  BY <1>3, <1>4, <2>1, Zenon DEF ServerUpdate, Names
<1>7. CASE m.type = "Logout"
  <2>1. ServerMsgProc(list, m) = ServerLogout(list, m)
    BY <1>7 DEF ServerMsgProc
  <2>2. CASE ~hatchIsUserInList(list, m.name)
    BY <1>2, <2>1, <2>2 DEF ServerLogout
  <2>3. CASE hatchIsUserInList(list, m.name)
    <3> DEFINE k == hatchLocateUser(list, m.name)
               rest == hatchPopUser(list, m.name)
               group == Group(rest, 1, m)
               out == <<m>> \o group
    <3>1. k \in 1..Len(list)
      BY <2>3, Located
    <3>2. /\ rest \in Seq(Users) /\ Len(rest) = Len(list) - 1
          /\ \A j \in 1..Len(rest) : rest[j] = IF j < k THEN list[j] ELSE list[j + 1]
      BY <2>3, Popped
    <3>3. ServerMsgProc(list, m) = [Nothing(rest) EXCEPT !.out = out]
      BY <2>1, <2>3 DEF ServerLogout
    <3> HIDE DEF k, rest
    <3>4. group \in Seq(Messages) /\ \A i \in 1..Len(group) : group[i].type = "Logout"
      <4>1. CASE Len(rest) >= 1
        <5>1. 1 \in Nat /\ 1 <= Len(rest)
          BY <1>1, <3>2, <4>1
        <5>2. rest \in Seq(Users)
          BY <3>2
        <5>3. /\ group \in Seq(Messages) /\ Len(group) = Len(rest) - 1
              /\ \A i \in 1..(Len(rest) - 1) : group[i].type = m.type /\ group[i].name = m.name
          BY <5>1, <5>2, GroupIsMessages
        <5> QED  BY <1>7, <5>3
      <4>2. CASE ~(Len(rest) >= 1)
        <5>1. Len(rest) - 1 = -1
          BY <1>1, <3>1, <3>2, <4>2
        <5>2. 1..(Len(rest) - 1) = {}
          BY <5>1
        <5>3. group = <<>>
          BY <5>2 DEF Group
        <5>4. group \in Seq(Messages) /\ Len(group) = 0
          BY <5>3, EmptySeq, Zenon
        <5>5. \A i \in 1..Len(group) : FALSE
          BY <5>4
        <5> QED  BY <5>4, <5>5
      <4> QED  BY <4>1, <4>2
    <3> HIDE DEF group
    <3>5. /\ out \in Seq(Messages) /\ Len(out) = Len(group) + 1 /\ out[1] = m
          /\ \A i \in 2..Len(out) : out[i] = group[i - 1]
      BY <3>4
    <3>6. ~Granted(out) /\ \A i \in 2..Len(out) : out[i].type # "Login"
      <4>1. Len(group) \in Nat
        BY <3>4
      <4>2. \A i \in 2..Len(out) : i - 1 \in 1..Len(group)
        BY <3>5, <4>1
      <4> QED  BY <1>7, <3>4, <3>5, <4>2 DEF Granted
    <3>7. \A i \in 2..Len(rest) : \E j \in 2..Len(list) : rest[i] = list[j]
      <4> TAKE i \in 2..Len(rest)
      <4>1. i \in 2..Len(list) /\ i + 1 \in 2..Len(list) /\ i \in 1..Len(rest)
        BY <1>1, <3>2
      <4> QED  BY <3>2, <4>1
    <3> HIDE DEF out
    <3> DEFINE r == [Nothing(rest) EXCEPT !.out = out]
    <3>8. r.users = rest /\ r.out = out /\ r.start = FALSE /\ r.end = FALSE
      BY DEF Nothing
    <3> HIDE DEF r
    <3>9. ServerResult(list, r)
      BY <3>2, <3>5, <3>6, <3>7, <3>8, Zenon DEF ServerResult
    <3> QED  BY <3>3, <3>9 DEF r
  <2> QED  BY <2>2, <2>3
<1>8. CASE m.type \notin {"Login", "Update", "Logout"}
  BY <1>2, <1>8 DEF ServerMsgProc
<1> QED  BY <1>5, <1>6, <1>7, <1>8

-----------------------------------------------------------------------------
(* The message lists *)

\* hatchPush...MsgList, for a list of any kind of message.
LEMMA StoredIs ==
  ASSUME NEW S, NEW list \in Seq(S), Len(list) <= MaxLength, NEW m \in S
  PROVE  LET new == Stored(list, m)
         IN  /\ new \in Seq(S) /\ Len(new) <= MaxLength
             /\ Range(list) \subseteq Range(new) /\ Range(new) \subseteq Range(list) \cup {m}
             /\ Len(list) < MaxLength => m \in Range(new)
<1>1. MaxLength \in Nat /\ Len(list) \in Nat
  BY AppAssumption
<1>2. CASE Len(list) < MaxLength
  <2> DEFINE new == Append(list, m)
  <2>1. /\ new \in Seq(S) /\ Len(new) = Len(list) + 1
        /\ \A i \in 1..Len(list) : new[i] = list[i]
        /\ new[Len(list) + 1] = m
    BY AppendProperties
  <2>2. Stored(list, m) = new
    BY <1>2 DEF Stored
  <2> HIDE DEF new
  <2>3. Range(new) = {new[i] : i \in 1..Len(new)} /\ Range(list) = {list[i] : i \in 1..Len(list)}
    BY <2>1, RangeEquality
  <2>4. 1..Len(new) = 1..Len(list) \cup {Len(list) + 1}
    BY <1>1, <2>1
  <2>5. Range(new) = Range(list) \cup {m}
    BY <2>1, <2>3, <2>4
  <2>6. Len(new) <= MaxLength
    BY <1>1, <1>2, <2>1
  <2> QED  BY <2>1, <2>2, <2>5, <2>6
<1>3. CASE ~(Len(list) < MaxLength)
  BY <1>3 DEF Stored
<1> QED  BY <1>2, <1>3

\* hatchPop...MsgList.
LEMMA TakenIs ==
  ASSUME NEW S, NEW list \in Seq(S), list # <<>>
  PROVE  /\ Head(list) \in S /\ Head(list) \in Range(list)
         /\ Tail(list) \in Seq(S) /\ Len(Tail(list)) = Len(list) - 1
         /\ Range(list) = {Head(list)} \cup Range(Tail(list))
<1>1. /\ Head(list) \in S /\ Tail(list) \in Seq(S)
      /\ Len(Tail(list)) = Len(list) - 1 /\ Len(list) \in Nat \ {0}
      /\ \A i \in 1..Len(Tail(list)) : Tail(list)[i] = list[i + 1]
  BY HeadTailProperties, EmptySeq
<1>2. Head(list) = list[1]
  OBVIOUS
<1> DEFINE rest == Tail(list)
<1>3. /\ Range(list) = {list[i] : i \in 1..Len(list)}
      /\ Range(rest) = {rest[i] : i \in 1..Len(rest)}
  BY <1>1, RangeEquality, Zenon
<1> HIDE DEF rest
<1>4. \A i \in 1..Len(list) : i = 1 \/ (i - 1 \in 1..Len(rest) /\ rest[i - 1] = list[i])
  BY <1>1 DEF rest
<1>5. \A i \in 1..Len(rest) : i + 1 \in 1..Len(list) /\ rest[i] = list[i + 1]
  BY <1>1 DEF rest
<1>6. Range(list) \subseteq {list[1]} \cup Range(rest)
  BY <1>3, <1>4
<1>7. {list[1]} \cup Range(rest) \subseteq Range(list)
  BY <1>1, <1>3, <1>5
<1> QED  BY <1>1, <1>2, <1>6, <1>7 DEF rest

\* Taking a message keeps a list within its bound.
LEMMA TakenFits ==
  ASSUME NEW S, NEW list \in Seq(S), Len(list) <= MaxLength, list # <<>>
  PROVE  Head(list) \in S /\ Tail(list) \in Seq(S) /\ Len(Tail(list)) <= MaxLength
<1>1. Head(list) \in S /\ Tail(list) \in Seq(S) /\ Len(Tail(list)) = Len(list) - 1
  BY TakenIs, Zenon
<1>2. Len(list) \in Nat
  OBVIOUS
<1> QED  BY <1>1, <1>2, AppAssumption

-----------------------------------------------------------------------------
(* The invariants *)

Types ==
  /\ task \in [Tasks -> {"new", "queued", "running", "done"}]
  /\ closing \in BOOLEAN /\ closed \in BOOLEAN
  /\ main \in {"push", "name", "login", "wait", "key", "abort", "end", "waitPool", "exit"}
  /\ runnerEnd \in BOOLEAN /\ startText \in BOOLEAN
  /\ recvAt \in {"check", "select"}
  /\ textAt \in {"waitStart", "failed", "read", "end"} /\ sOwnerName \in Names
  /\ arrivals \in 0..MaxArrivals /\ lines \in 0..MaxLines
  /\ logout \in BOOLEAN

\* what a client's handlers send is no request to the server
NoRequest(out) == \A i \in 1..Len(out) : out[i].type \in {"garbled", "Text", "BackSyn"}

Lists ==
  /\ recvList \in Seq(Incoming) /\ Len(recvList) <= MaxLength
  /\ sendList \in Seq(Messages) /\ Len(sendList) <= MaxLength
  /\ tempList \in Seq(Words) /\ Len(tempList) <= MaxLength
  /\ pending \in Seq(Messages)
  /\ users \in Seq(Users)
  /\ Client => /\ Len(users) >= 2 /\ users[1].name = "server"
               /\ NoRequest(pending)

\* where hatchMain may be, and that the pool is at rest when it has ended
Roles ==
  /\ Client => main # "key"
  /\ ~Client => main \notin {"name", "login", "wait"} /\ tempList = <<>> /\ ~logout
  /\ main = "exit" => closed
  /\ closed => \A r \in Tasks : task[r] # "running"

\* The inductive invariant of any process.
Inv == Types /\ Lists /\ Roles

\* what a client's sender sent or will send
Holds(type) == \E m \in Range(sendList) : m.type = type

\* The inductive invariant of a client whose address nobody had before: from the
\* Login request to the text runner, and from its Logout request to the end event.
Ordered ==
  /\ HasSent("Login") \/ Holds("Login") => main \notin {"push", "name", "login"}
  /\ main \notin {"push", "name"} => users[2].name = Name
  /\ recvList # <<>> \/ startText => HasSent("Login")
  /\ textAt # "waitStart" => task["text"] \in {"running", "done"}
  /\ textAt \in {"read", "end"} => startText
  /\ HasSent("Logout") \/ Holds("Logout") => textAt \in {"failed", "end"}
  /\ \A m \in Range(recvList) : m.type = "Logout" /\ m.name = Name => HasSent("Logout")
  /\ runnerEnd => textAt \in {"failed", "end"}
  /\ main \in {"abort", "end", "waitPool", "exit"} => runnerEnd
  /\ sent # {} => task["send"] \in {"running", "done"}
  /\ logout => textAt = "end" /\ (HasSent("Logout") \/ Holds("Logout"))
  /\ task["send"] = "done" => runnerEnd /\ ~Holds("Logout")

\* the user at address a was told of its login, or will be
Told(a) ==
  \/ [type |-> "Login", peer |-> a, name |-> "server"] \in sent
  \/ \E m \in Range(sendList) : Reply(m, a)

\* The inductive invariant of a server: only the last user may still wait for a
\* reply, and then the reply is the next message to be pushed.
Answered ==
  /\ \A i \in 2..Len(users) : Told(users[i].addr) \/ (i = Len(users) /\ GrantsLast(users, pending))
  /\ Granted(pending) => GrantsLast(users, pending)
  /\ \A i \in 2..Len(pending) : pending[i].type # "Login"

-----------------------------------------------------------------------------
(* The invariant of any process *)

LEMMA TasksAre ==
  /\ {"recv", "send", "packet"} \subseteq Tasks
  /\ Client => "text" \in Tasks
  /\ Tasks \subseteq {"recv", "send", "packet", "text"}
<1>1. CASE Client
  <2>1. Order = <<"recv", "send", "packet", "text">> /\ DOMAIN Order = 1..4
    BY <1>1 DEF Order
  <2>2. Order[1] = "recv" /\ Order[2] = "send" /\ Order[3] = "packet" /\ Order[4] = "text"
    BY <2>1
  <2> QED  BY <2>1, <2>2 DEF Tasks
<1>2. CASE ~Client
  <2>1. Order = <<"recv", "send", "packet">> /\ DOMAIN Order = 1..3
    BY <1>2 DEF Order
  <2>2. Order[1] = "recv" /\ Order[2] = "send" /\ Order[3] = "packet"
    BY <2>1
  <2> QED  BY <1>2, <2>1, <2>2 DEF Tasks
<1> QED  BY <1>1, <1>2

LEMMA InitInv == Init => Inv
<1> SUFFICES ASSUME Init
             PROVE  Inv
  OBVIOUS
<1>1. Types
  <2>1. arrivals \in 0..MaxArrivals /\ lines \in 0..MaxLines
    BY AppAssumption DEF Init
  <2>2. task = [r \in Tasks |-> "new"] /\ closing = FALSE /\ closed = FALSE
    BY DEF Init, Pool!PoolInit
  <2>3. sOwnerName \in Names
    BY Zenon DEF Init, Names
  <2> QED  BY <2>1, <2>2, <2>3, Zenon DEF Init, Types
<1>2. Lists
  <2>1. MaxLength \in Nat
    BY AppAssumption
  <2>2. /\ recvList \in Seq(Incoming) /\ sendList \in Seq(Messages) /\ tempList \in Seq(Words)
        /\ pending \in Seq(Messages)
        /\ Len(recvList) = 0 /\ Len(sendList) = 0 /\ Len(tempList) = 0
    BY EmptySeq DEF Init
  <2>3. /\ User("server", Server, "Online") \in Users
        /\ User("server", Server, "Online").name = "server"
        /\ User("client_init", Self, "Online") \in Users
    BY DEF User, Users, Names, Addrs, Statuses
  <2>4. /\ users \in Seq(Users)
        /\ Client => Len(users) >= 2 /\ users[1].name = "server"
    BY <2>3 DEF Init, ClientUsers, ServerUsers
  <2>5. Len(pending) = 0
    BY EmptySeq DEF Init
  <2> QED  BY <2>1, <2>2, <2>4, <2>5 DEF Lists, NoRequest
<1>3. Roles
  BY DEF Init, Roles, Pool!PoolInit
<1> QED  BY <1>1, <1>2, <1>3 DEF Inv

LEMMA ListsStay ==
  ASSUME Lists, UNCHANGED <<recvList, sendList, tempList, users, pending>>
  PROVE  Lists'
  BY DEF Lists

\* hatchMain's steps that leave the lists alone, and the pool's start.
LEMMA PoolInv ==
  ASSUME Inv,
         \/ \E r \in Tasks : MainPush(r) \/ Start(r)
         \/ MainWait \/ MainKey \/ MainAbort \/ MainEnd \/ MainExit
  PROVE  Inv'
<1> USE DEF poolVars, eventVars, listVars, boundVars, textVars
<1>1. ASSUME NEW r \in Tasks, MainPush(r)
      PROVE  Inv'
  <2>1. Lists'
    BY <1>1, ListsStay DEF Inv, MainPush
  <2>2. main' \in {"push", IF Client THEN "name" ELSE "key"}
    BY <1>1 DEF MainPush
  <2>3. task' = [task EXCEPT ![r] = "queued"] /\ UNCHANGED <<closing, closed>> /\ ~closing
    BY <1>1 DEF MainPush, Pool!PoolPush
  <2>4. UNCHANGED <<runnerEnd, startText, tempList, recvAt, textAt, sOwnerName, arrivals,
                    lines, logout>>
    BY <1>1 DEF MainPush
  <2>5. Types'
    BY <2>2, <2>3, <2>4 DEF Inv, Types
  <2>6. Roles'
    BY <2>2, <2>3, <2>4 DEF Inv, Types, Roles
  <2> QED  BY <2>1, <2>5, <2>6 DEF Inv
<1>2. ASSUME NEW r \in Tasks, Start(r)
      PROVE  Inv'
  <2>1. Lists'
    BY <1>2, ListsStay DEF Inv, Start
  <2>2. task' = [task EXCEPT ![r] = "running"] /\ UNCHANGED <<closing, closed>> /\ ~closed
    BY <1>2 DEF Start, Pool!PoolStart
  <2>3. UNCHANGED <<main, runnerEnd, startText, tempList, recvAt, textAt, sOwnerName,
                    arrivals, lines, logout>>
    BY <1>2 DEF Start
  <2> QED  BY <2>1, <2>2, <2>3 DEF Inv, Types, Roles
<1>3. CASE MainWait \/ MainKey \/ MainAbort
  <2>1. Lists'
    BY <1>3, ListsStay, Zenon DEF Inv, MainWait, MainKey, MainAbort
  <2>2. UNCHANGED <<task, closing, closed, startText, tempList, recvAt, textAt, sOwnerName,
                    arrivals, lines, logout>>
    BY <1>3 DEF MainWait, MainKey, MainAbort
  <2>3. main' \in {"abort", "end"} /\ runnerEnd' \in BOOLEAN
    BY <1>3, Zenon DEF Inv, MainWait, MainKey, MainAbort, Types
  <2> QED  BY <2>1, <2>2, <2>3, Zenon DEF Inv, Types, Roles
<1>4. CASE MainEnd \/ MainExit
  <2>1. Lists'
    BY <1>4, ListsStay DEF Inv, MainEnd, MainExit
  <2>2. UNCHANGED <<task, runnerEnd, startText, tempList, recvAt, textAt, sOwnerName,
                    arrivals, lines, logout>>
    BY <1>4 DEF MainEnd, MainExit, Pool!PoolEnd, Pool!PoolEndReturns
  <2>3. CASE MainEnd
    <3>1. main' = "waitPool" /\ closing' = TRUE /\ closed' = closed
      BY <2>3 DEF MainEnd, Pool!PoolEnd
    <3> QED  BY <2>1, <2>2, <3>1 DEF Inv, Types, Roles
  <2>4. CASE MainExit
    <3>1. main' = "exit" /\ closing' = closing /\ closed' = TRUE /\ \A r \in Tasks : task[r] # "running"
      BY <2>4 DEF MainExit, Pool!PoolEndReturns
    <3> QED  BY <2>1, <2>2, <3>1 DEF Inv, Types, Roles
  <2> QED  BY <1>4, <2>3, <2>4
<1> QED  BY <1>1, <1>2, <1>3, <1>4

\* hatchClientLogin.
LEMMA LoginInv ==
  ASSUME Inv, MainName \/ MainLogin
  PROVE  Inv'
<1> USE DEF poolVars, eventVars, listVars, boundVars, textVars
<1>1. /\ UNCHANGED <<task, closing, closed, runnerEnd, startText, recvList, tempList, recvAt,
                     textAt, sOwnerName, pending, arrivals, lines, logout>>
      /\ main' \in {"login", "wait"} /\ Client
  BY AppAssumption DEF Inv, MainName, MainLogin, Roles
<1>2. Types' /\ Roles'
  BY <1>1 DEF Inv, Types, Roles
<1>3. CASE MainName
  <2> DEFINE e == [users[2] EXCEPT !.name = Name]
  <2>1. users' = [users EXCEPT ![2] = e] /\ sendList' = sendList
    BY <1>3 DEF MainName
  <2>2. 2 \in 1..Len(users) /\ 1 \in 1..Len(users) /\ users \in Seq(Users)
    BY <1>1 DEF Inv, Lists
  <2>3. users[2] \in Users
    BY <2>2, ElementOfSeq
  <2>4. e \in Users
    BY <2>3 DEF Users, Names
  <2> HIDE DEF e
  <2>5. users' \in Seq(Users) /\ Len(users') = Len(users) /\ users'[1] = users[1]
    BY <2>1, <2>2, <2>4, ExceptSeq
  <2> QED  BY <1>1, <1>2, <2>1, <2>5 DEF Inv, Lists
<1>4. CASE MainLogin
  <2>1. LoginRequest(Server, Name) \in Messages
    BY Zenon DEF LoginRequest, Msg, Messages, Kinds, Addrs, Names
  <2>2. sendList' = Stored(sendList, LoginRequest(Server, Name)) /\ users' = users
    BY <1>4, Zenon DEF MainLogin
  <2>3. sendList' \in Seq(Messages) /\ Len(sendList') <= MaxLength
    BY <2>1, <2>2, StoredIs DEF Inv, Lists
  <2> QED  BY <1>1, <1>2, <2>2, <2>3, Zenon DEF Inv, Lists
<1> QED  BY <1>3, <1>4

\* The end of a runner.
LEMMA FinishInv ==
  ASSUME Inv, RecvEnd \/ RecvFails \/ SendEnd \/ PacketEnd \/ TextEnd
  PROVE  Inv'
<1> USE DEF listVars, eventVars, boundVars, textVars
<1>1. Lists'
  BY ListsStay DEF Inv, RecvEnd, RecvFails, SendEnd, PacketEnd, TextEnd
<1>2. PICK r \in Tasks : task' = [task EXCEPT ![r] = "done"] /\ UNCHANGED <<closing, closed>>
  BY TasksAre DEF RecvEnd, RecvFails, SendEnd, PacketEnd, PacketIdle, TextEnd, Finish, Pool!PoolFinish
<1>3. /\ UNCHANGED <<main, startText, tempList, recvAt, textAt, sOwnerName, arrivals, lines,
                     logout>>
      /\ runnerEnd' \in BOOLEAN
  BY Zenon DEF Inv, RecvEnd, RecvFails, SendEnd, PacketEnd, TextEnd, Types
<1> QED  BY <1>1, <1>2, <1>3, ZenonT(40) DEF Inv, Types, Roles

\* The own entry has a name.
LEMMA OwnNamed ==
  ASSUME Inv, Client
  PROVE  Own(users).name \in Names
<1>1. users[2] \in Users
  BY ElementOfSeq DEF Inv, Lists
<1> QED  BY <1>1, Zenon DEF Own, Users

\* The receive runner, and the start of the text runner.
LEMMA RecvInv ==
  ASSUME Inv, RecvSelect \/ RecvTimeout \/ TextStart \/ \E m \in Incoming : RecvMsg(m)
  PROVE  Inv'
<1> USE DEF poolVars, eventVars, listVars, boundVars, textVars
<1>1. CASE RecvSelect \/ RecvTimeout \/ TextStart
  <2>1. Lists'
    BY <1>1, ListsStay, Zenon DEF Inv, RecvSelect, RecvTimeout, TextStart
  <2>3. TextStart => Own(users).name \in Names
    BY OwnNamed, Zenon DEF TextStart
  <2>2. /\ UNCHANGED <<task, closing, closed, main, runnerEnd, startText, tempList, arrivals,
                       lines, logout>>
        /\ recvAt' \in {"check", "select"}
        /\ textAt' \in {"waitStart", "failed", "read", "end"} /\ sOwnerName' \in Names
    BY <1>1, <2>3, Zenon DEF Inv, RecvSelect, RecvTimeout, TextStart, Types
  <2> QED  BY <2>1, <2>2, ZenonT(40) DEF Inv, Types, Roles
<1>2. ASSUME NEW m \in Incoming, RecvMsg(m)
      PROVE  Inv'
  <2>1. recvList' = Stored(recvList, m) /\ UNCHANGED <<sendList, tempList, users, pending>>
    BY <1>2, Zenon DEF RecvMsg
  <2>2. recvList' \in Seq(Incoming) /\ Len(recvList') <= MaxLength
    BY <2>1, StoredIs DEF Inv, Lists
  <2>3. Lists'
    BY <2>1, <2>2 DEF Inv, Lists
  <2>4. /\ UNCHANGED <<task, closing, closed, main, runnerEnd, startText, textAt, sOwnerName,
                       lines, logout>>
        /\ recvAt' = "check" /\ arrivals' = arrivals + 1 /\ arrivals < MaxArrivals
    BY <1>2 DEF RecvMsg
  <2>5. arrivals' \in 0..MaxArrivals
    BY <2>4, AppAssumption DEF Inv, Types
  <2> QED  BY <2>1, <2>3, <2>4, <2>5 DEF Inv, Types, Roles
<1> QED  BY <1>1, <1>2

\* The Logout request of the own entry.
LEMMA LogoutIsMessage ==
  ASSUME Inv, Client
  PROVE  LET m == LogoutRequest(Server, Own(users).name)
         IN  m \in Messages /\ m.type = "Logout"
  BY OwnNamed, Zenon DEF LogoutRequest, Msg, Messages, Kinds, Addrs

\* The sender's and the text runner's use of the lists.
LEMMA SendInv ==
  ASSUME Inv, SendMsg \/ TextLine \/ TextFails \/ TextClose
  PROVE  Inv'
<1> USE DEF poolVars, eventVars, listVars, boundVars, textVars
<1>1. CASE SendMsg
  <2>1. /\ sendList # <<>> /\ sendList' = Tail(sendList)
        /\ UNCHANGED <<task, closing, closed, main, runnerEnd, startText, recvList, tempList,
                       users, recvAt, textAt, sOwnerName, pending, arrivals, lines, logout>>
    BY <1>1, Zenon DEF SendMsg
  <2>2. sendList' \in Seq(Messages) /\ Len(sendList') <= MaxLength
    BY <2>1, TakenFits, Zenon DEF Inv, Lists
  <2> QED  BY <2>1, <2>2 DEF Inv, Types, Lists, Roles
<1>2. CASE TextLine
  <2>1. /\ Client /\ lines < MaxLines /\ lines' = lines + 1
        /\ tempList' = Stored(tempList, Msg("Text", Self, sOwnerName, NoAddr))
        /\ UNCHANGED <<task, closing, closed, main, runnerEnd, startText, recvList, sendList,
                       users, recvAt, textAt, sOwnerName, pending, arrivals, logout>>
    BY <1>2, Zenon DEF TextLine
  <2>2. tempList' \in Seq(Words) /\ Len(tempList') <= MaxLength
    <3> DEFINE m == Msg("Text", Self, sOwnerName, NoAddr)
    <3>1. m \in Words /\ tempList' = Stored(tempList, m)
      BY <2>1, ZenonT(40) DEF Inv, Types, Words
    <3> HIDE DEF m
    <3> QED  BY <3>1, StoredIs, Zenon DEF Inv, Lists
  <2>3. lines' \in 0..MaxLines
    BY <2>1, AppAssumption DEF Inv, Types
  <2> QED  BY <2>1, <2>2, <2>3 DEF Inv, Types, Lists, Roles
<1>3. CASE TextFails \/ TextClose
  <2>1. /\ Client /\ sendList' = Stored(sendList, LogoutRequest(Server, Own(users).name))
        /\ logout' \in BOOLEAN /\ textAt' \in {"failed", "end"}
        /\ UNCHANGED <<task, closing, closed, main, runnerEnd, startText, recvList, tempList,
                       users, recvAt, sOwnerName, pending, arrivals, lines>>
    <3>1. CASE TextFails
      BY <3>1, Zenon DEF TextFails, Inv, Types
    <3>2. CASE TextClose
      BY <3>2 DEF TextClose
    <3> QED  BY <1>3, <3>1, <3>2, Zenon
  <2>2. LogoutRequest(Server, Own(users).name) \in Messages
    BY <2>1, LogoutIsMessage, Zenon
  <2>3. sendList' \in Seq(Messages) /\ Len(sendList') <= MaxLength
    <3> DEFINE m == LogoutRequest(Server, Own(users).name)
    <3>1. sendList \in Seq(Messages) /\ Len(sendList) <= MaxLength
      BY Zenon DEF Inv, Lists
    <3>2. m \in Messages /\ sendList' = Stored(sendList, m)
      BY <2>1, <2>2, Zenon
    <3> HIDE DEF m
    <3> QED  BY <3>1, <3>2, StoredIs, Zenon
  <2> QED  BY <2>1, <2>3, ZenonT(40) DEF Inv, Types, Lists, Roles
<1> QED  BY <1>1, <1>2, <1>3, Zenon

\* A handler's step on the message m.
LEMMA HandleInv ==
  ASSUME Inv, NEW m \in Incoming \cup Words, Handle(m)
  PROVE  /\ users' \in Seq(Users) /\ pending' \in Seq(Messages)
         /\ startText' \in BOOLEAN /\ runnerEnd' \in BOOLEAN
         /\ Client => Len(users') >= 2 /\ users'[1].name = "server" /\ NoRequest(pending')
<1>1. m \in Messages
  BY IncomingAreMessages, WordsAreMessages, Zenon
<1>2. users \in Seq(Users) /\ startText \in BOOLEAN /\ runnerEnd \in BOOLEAN
  BY DEF Inv, Types, Lists
<1>3. CASE Client
  <2>1. Len(users) >= 2 /\ users[1].name = "server"
    BY <1>3 DEF Inv, Lists
  <2>2. m.type = "Logout" => m.name # "server"
    BY <1>3, AppAssumption, WordsAreMessages, Zenon
  <2>3. ClientResult(users, m, MsgProc(m))
    BY <1>1, <1>2, <1>3, <2>1, <2>2, ClientHandled, ZenonT(40) DEF MsgProc
  <2> QED  BY <1>2, <2>3, Zenon DEF Handle, ClientResult, NoRequest
<1>4. CASE ~Client
  <2>1. ServerResult(users, MsgProc(m))
    BY <1>1, <1>2, <1>4, ServerHandled, Zenon DEF MsgProc
  <2> QED  BY <1>2, <1>4, <2>1 DEF Handle, ServerResult
<1> QED  BY <1>3, <1>4

\* The packet runner.
LEMMA PacketInv ==
  ASSUME Inv, PacketRecv \/ PacketTemp \/ PacketPush
  PROVE  Inv'
<1> USE DEF poolVars, eventVars, listVars, boundVars, textVars
<1>1. CASE PacketRecv
  <2>1. /\ recvList # <<>> /\ recvList' = Tail(recvList) /\ Handle(Head(recvList))
        /\ UNCHANGED <<task, closing, closed, main, sendList, tempList, recvAt, textAt,
                       sOwnerName, arrivals, lines, logout>>
    BY <1>1, Zenon DEF PacketRecv
  <2>2. Head(recvList) \in Incoming /\ recvList' \in Seq(Incoming) /\ Len(recvList') <= MaxLength
    BY <2>1, TakenFits, Zenon DEF Inv, Lists
  <2>3. /\ users' \in Seq(Users) /\ pending' \in Seq(Messages)
        /\ startText' \in BOOLEAN /\ runnerEnd' \in BOOLEAN
        /\ Client => Len(users') >= 2 /\ users'[1].name = "server" /\ NoRequest(pending')
    BY <2>1, <2>2, HandleInv, Zenon
  <2> QED  BY <2>1, <2>2, <2>3, ZenonT(40) DEF Inv, Types, Lists, Roles
<1>2. CASE PacketTemp
  <2>1. /\ tempList # <<>> /\ tempList' = Tail(tempList) /\ Handle(Head(tempList))
        /\ UNCHANGED <<task, closing, closed, main, sendList, recvList, recvAt, textAt,
                       sOwnerName, arrivals, lines, logout>>
    BY <1>2, Zenon DEF PacketTemp
  <2>2. Head(tempList) \in Words /\ tempList' \in Seq(Words) /\ Len(tempList') <= MaxLength
    BY <2>1, TakenFits, Zenon DEF Inv, Lists
  <2>3. /\ users' \in Seq(Users) /\ pending' \in Seq(Messages)
        /\ startText' \in BOOLEAN /\ runnerEnd' \in BOOLEAN
        /\ Client => Len(users') >= 2 /\ users'[1].name = "server" /\ NoRequest(pending')
    BY <2>1, <2>2, HandleInv
  <2> QED  BY <2>1, <2>2, <2>3 DEF Inv, Types, Lists, Roles
<1>3. CASE PacketPush
  <2>1. /\ pending # <<>> /\ sendList' = Stored(sendList, Head(pending))
        /\ UNCHANGED <<task, closing, closed, main, runnerEnd, startText, recvList, tempList,
                       recvAt, textAt, sOwnerName, arrivals, lines, logout>>
    BY <1>3 DEF PacketPush
  <2>2. Head(pending) \in Messages /\ Tail(pending) \in Seq(Messages)
    BY <2>1, TakenIs, Zenon DEF Inv, Lists
  <2>3. sendList' \in Seq(Messages) /\ Len(sendList') <= MaxLength
    BY <2>1, <2>2, StoredIs, Zenon DEF Inv, Lists
  <2>4. CASE ~(Granted(pending) /\ Len(sendList) >= MaxLength)
    <3>1. pending' = Tail(pending) /\ users' = users
      <4> QED  BY <1>3, <2>4 DEF PacketPush
    <3>2. Client => NoRequest(pending')
      <4>1. pending \in Seq(Messages)
        BY DEF Inv, Lists
      <4>2. \A i \in 1..Len(pending') : i + 1 \in 1..Len(pending) /\ pending'[i] = pending[i + 1]
        BY <2>1, <3>1, <4>1, HeadTailProperties
      <4> QED  BY <4>2, Zenon DEF Inv, Lists, NoRequest
    <3> QED  BY <2>1, <2>2, <2>3, <3>1, <3>2 DEF Inv, Types, Lists, Roles
  <2>5. CASE Granted(pending) /\ Len(sendList) >= MaxLength
    <3>1. ~Client
      <4>1. 1 \in 1..Len(pending)
        BY <2>5 DEF Inv, Granted, Lists
      <4> QED  BY <2>5, <4>1, Zenon DEF Inv, Granted, Lists, NoRequest
    <3>2. pending' = <<>> /\ users' = hatchPopUser(users, pending[2].name)
      BY <1>3, <2>5 DEF PacketPush
    <3>3. pending' \in Seq(Messages)
      BY <3>2, EmptySeq
    <3>4. users' \in Seq(Users)
      <4>1. CASE hatchIsUserInList(users, pending[2].name)
        BY <3>2, <4>1, Popped, Zenon DEF Inv, Lists
      <4>2. CASE ~hatchIsUserInList(users, pending[2].name)
        BY <3>2, <4>2, Zenon DEF Inv, Lists, hatchPopUser
      <4> QED  BY <4>1, <4>2, Zenon
    <3> QED  BY <2>1, <2>3, <3>1, <3>3, <3>4 DEF Inv, Types, Lists, Roles
  <2> QED  BY <2>4, <2>5, Zenon
<1> QED  BY <1>1, <1>2, <1>3, Zenon

LEMMA NextInv == Inv /\ [Next]_vars => Inv'
<1> SUFFICES ASSUME Inv, [Next]_vars
             PROVE  Inv'
  OBVIOUS
<1>1. CASE UNCHANGED vars
  <2>1. Lists'
    BY <1>1, ListsStay DEF vars, listVars, Inv
  <2>2. UNCHANGED <<task, closing, closed, main, runnerEnd, startText, tempList, recvAt,
                    textAt, sOwnerName,
                    arrivals, lines, logout>>
    BY <1>1 DEF vars, poolVars, eventVars, listVars, boundVars, textVars
  <2> QED  BY <2>1, <2>2 DEF Inv, Types, Roles
<1>2. CASE Next
  BY <1>2, PoolInv, LoginInv, FinishInv, RecvInv, SendInv, PacketInv, Zenon
     DEF Next, Main, Recv, Send, Packet, Text
<1> QED  BY <1>1, <1>2

\* The invariant holds in every reachable state.
LEMMA SpecInv == Spec => []Inv
  BY InitInv, NextInv, PTL DEF Spec

\* The three lists never outgrow their maximum, whoever pushes.
THEOREM ListsBounded == Spec => []TypeOK
<1>1. Inv => TypeOK
  BY Zenon DEF Inv, Types, Lists, TypeOK
<1> QED  BY <1>1, SpecInv, PTL

-----------------------------------------------------------------------------
(* A client *)

LEMMA InitOrdered ==
  ASSUME Client, Init
  PROVE  Ordered
<1>1. Range(sendList) = {} /\ Range(recvList) = {}
  BY DEF Init, Range
<1>2. task["send"] = "new"
  BY TasksAre DEF Init, Pool!PoolInit
<1> QED  BY <1>1, <1>2 DEF Init, Ordered, HasSent, Holds

\* hatchMain and the pool.
LEMMA MainOrdered ==
  ASSUME Client, ~Leftovers, Inv, Ordered, Main \/ \E r \in Tasks : Start(r)
  PROVE  Ordered'
<1> USE DEF poolVars, eventVars, listVars, boundVars, textVars
<1>1. ASSUME NEW r \in Tasks, MainPush(r) \/ Start(r)
      PROVE  Ordered'
  <2>1. UNCHANGED <<runnerEnd, startText, recvList, sendList, users, textAt, sent, logout>>
    BY <1>1, Zenon DEF MainPush, Start
  <2>2. \/ main = "push" /\ main' \in {"push", "name"} /\ task[r] = "new" /\ task' = [task EXCEPT ![r] = "queued"]
        \/ main' = main /\ task[r] = "queued" /\ task' = [task EXCEPT ![r] = "running"]
    BY <1>1 DEF MainPush, Start, Pool!PoolPush, Pool!PoolStart
  <2>3. \A q \in Tasks : task'[q] = task[q] \/ (task'[q] = "queued" /\ task[q] = "new")
                                           \/ (task'[q] = "running" /\ task[q] = "queued")
    BY <2>2 DEF Inv, Types
  <2>4. "send" \in Tasks /\ "text" \in Tasks
    BY TasksAre
  <2> QED  BY <2>1, <2>2, <2>3, <2>4, ZenonT(40) DEF Ordered, HasSent, Holds
<1>2. CASE MainName
  <2>1. /\ main = "name" /\ main' = "login" /\ users' = [users EXCEPT ![2].name = Name]
        /\ UNCHANGED <<task, runnerEnd, startText, recvList, sendList, textAt, sent, logout>>
    BY <1>2 DEF MainName
  <2>2. users'[2].name = Name
    <3>1. users \in Seq(Users) /\ 2 \in 1..Len(users)
      BY DEF Inv, Lists
    <3>2. users[2] \in Users
      BY <3>1, ElementOfSeq
    <3>3. users'[2] = [users[2] EXCEPT !.name = Name]
      BY <2>1, <3>1
    <3> QED  BY <3>2, <3>3 DEF Users
  <2> QED  BY <2>1, <2>2 DEF Ordered, HasSent, Holds
<1>3. CASE MainLogin
  <2> DEFINE m == LoginRequest(Server, Name)
  <2>1. /\ main = "login" /\ main' = "wait" /\ sendList' = Stored(sendList, m)
        /\ UNCHANGED <<task, runnerEnd, startText, recvList, users, textAt, sent, logout>>
    BY <1>3, Zenon DEF MainLogin
  <2>2. m \in Messages /\ m.type = "Login"
    BY Zenon DEF LoginRequest, Msg, Messages, Kinds, Addrs, Names
  <2>3. Range(sendList) \subseteq Range(sendList') /\ Range(sendList') \subseteq Range(sendList) \cup {m}
    BY <2>1, <2>2, StoredIs, Zenon DEF Inv, Lists
  <2> HIDE DEF m
  <2> QED  BY <2>1, <2>2, <2>3, Zenon DEF Ordered, HasSent, Holds
<1>4. CASE MainWait \/ MainAbort
  <2>1. /\ UNCHANGED <<task, startText, recvList, sendList, users, textAt, sent, logout>>
        /\ runnerEnd' = TRUE /\ runnerEnd = TRUE
        /\ main \in {"wait", "abort"} /\ main' \in {"abort", "end"}
    BY <1>4, Zenon DEF MainWait, MainAbort, Ordered, Inv, Types
  <2> QED  BY <2>1, Zenon DEF Ordered, HasSent, Holds
<1>5. CASE MainEnd \/ MainExit
  <2>1. /\ UNCHANGED <<task, runnerEnd, startText, recvList, sendList, users, textAt, sent, logout>>
        /\ main \in {"end", "waitPool"} /\ main' \in {"waitPool", "exit"}
    BY <1>5 DEF MainEnd, MainExit, Pool!PoolEnd, Pool!PoolEndReturns
  <2> QED  BY <2>1 DEF Ordered, HasSent, Holds
<1>6. ~MainKey
  BY DEF MainKey, Inv, Roles
<1> QED  BY <1>1, <1>2, <1>3, <1>4, <1>5, <1>6, Zenon DEF Main

\* The receive runner.
LEMMA RecvOrdered ==
  ASSUME Client, ~Leftovers, Inv, Ordered, Recv
  PROVE  Ordered'
<1> USE DEF poolVars, eventVars, listVars, boundVars, textVars
<1>1. CASE RecvEnd \/ RecvFails
  <2>1. /\ UNCHANGED <<main, runnerEnd, startText, recvList, sendList, users, textAt, sent, logout>>
        /\ task' = [task EXCEPT !["recv"] = "done"]
    BY <1>1 DEF RecvEnd, RecvFails, Finish, Pool!PoolFinish
  <2>2. task'["send"] = task["send"] /\ task'["text"] = task["text"]
    BY <2>1 DEF Inv, Types
  <2> QED  BY <2>1, <2>2, Zenon DEF Ordered, HasSent, Holds
<1>2. CASE RecvSelect \/ RecvTimeout
  <2>1. UNCHANGED <<task, main, runnerEnd, startText, recvList, sendList, users, textAt, sent, logout>>
    BY <1>2, Zenon DEF RecvSelect, RecvTimeout
  <2> QED  BY <2>1, Zenon DEF Ordered, HasSent, Holds
<1>3. ASSUME NEW m \in Incoming, RecvMsg(m)
      PROVE  Ordered'
  <2>1. /\ UNCHANGED <<task, main, runnerEnd, startText, sendList, users, textAt, sent, logout>>
        /\ recvList' = Stored(recvList, m)
        /\ HasSent("Login") /\ (m.type = "Logout" /\ m.name = Name => HasSent("Logout"))
    BY <1>3, ZenonT(40) DEF RecvMsg, Arrives
  <2>2. Range(recvList') \subseteq Range(recvList) \cup {m}
    BY <2>1, StoredIs DEF Inv, Lists
  <2>3. HasSent("Login")' /\ (HasSent("Logout")' <=> HasSent("Logout"))
    BY <2>1, Zenon DEF HasSent
  <2>4. \A n \in Range(recvList') : n.type = "Logout" /\ n.name = Name => HasSent("Logout")'
    BY <2>1, <2>2, <2>3 DEF Ordered
  <2> QED  BY <2>1, <2>3, <2>4, Zenon DEF Ordered, HasSent, Holds
<1> QED  BY <1>1, <1>2, <1>3, Zenon DEF Recv

\* The sender: it ends only with an empty list, when the text runner has ended.
LEMMA SendOrdered ==
  ASSUME Client, ~Leftovers, Inv, Ordered, Send
  PROVE  Ordered'
<1> USE DEF poolVars, eventVars, listVars, boundVars, textVars
<1>1. CASE SendMsg
  <2> DEFINE m == Head(sendList)
             s == [type |-> m.type, peer |-> m.peer, name |-> m.name]
  <2>1. /\ UNCHANGED <<task, main, runnerEnd, startText, recvList, users, textAt, logout>>
        /\ task["send"] = "running" /\ sendList # <<>>
        /\ sent' = sent \cup {s} /\ sendList' = Tail(sendList)
    BY <1>1, Zenon DEF SendMsg
  <2>2. Range(sendList) = {m} \cup Range(sendList')
    BY <2>1, TakenIs, Zenon DEF Inv, Lists
  <2>3. s.type = m.type
    BY Zenon
  <2> HIDE DEF m, s
  <2>4. \A k : (HasSent(k) \/ Holds(k)) <=> (HasSent(k) \/ Holds(k))'
    BY <2>1, <2>2, <2>3, Zenon DEF HasSent, Holds
  <2>5. \A k : (HasSent(k) => HasSent(k)') /\ (Holds(k)' => Holds(k))
    BY <2>1, <2>2, Zenon DEF HasSent, Holds
  <2> QED  BY <2>1, <2>4, <2>5, Zenon DEF Ordered
<1>2. CASE SendEnd
  <2>1. /\ UNCHANGED <<main, runnerEnd, startText, recvList, sendList, users, textAt, sent, logout>>
        /\ task' = [task EXCEPT !["send"] = "done"]
        /\ sendList = <<>> /\ runnerEnd
    BY <1>2 DEF SendEnd, Finish, Pool!PoolFinish
  <2>2. task'["send"] = "done" /\ task'["text"] = task["text"]
    BY <2>1, TasksAre DEF Inv, Types
  <2>3. Range(sendList') = {}
    BY <2>1 DEF Range
  <2> QED  BY <2>1, <2>2, <2>3, Zenon DEF Ordered, HasSent, Holds
<1> QED  BY <1>1, <1>2, Zenon DEF Send

\* The packet runner: only a Login sets the text event, and only the own Logout,
\* which a client gets after it asked for it, the end event.
LEMMA PacketOrdered ==
  ASSUME Client, ~Leftovers, Inv, Ordered, Packet
  PROVE  Ordered'
<1> USE DEF poolVars, eventVars, listVars, boundVars, textVars
<1>1. users \in Seq(Users) /\ Len(users) >= 2 /\ users[1].name = "server"
  BY Zenon DEF Inv, Lists
<1>2. CASE PacketRecv
  <2> DEFINE m == Head(recvList)
  <2>1. /\ UNCHANGED <<task, main, sendList, textAt, sent, logout>>
        /\ recvList # <<>> /\ recvList' = Tail(recvList) /\ Handle(m)
    BY <1>2, Zenon DEF PacketRecv
  <2>2. m \in Incoming /\ Range(recvList) = {m} \cup Range(recvList')
    BY <2>1, TakenIs, Zenon DEF Inv, Lists
  <2> HIDE DEF m
  <2>3. ClientResult(users, m, MsgProc(m))
    BY <1>1, <2>2, ClientHandled, IncomingAreMessages, AppAssumption, Zenon DEF MsgProc
  <2>4. /\ users'[2].name = users[2].name
        /\ startText' => startText \/ m.type = "Login"
        /\ startText => startText'
        /\ runnerEnd => runnerEnd'
        /\ runnerEnd' => runnerEnd \/ (m.type = "Logout" /\ m.name = users[2].name)
    BY <2>1, <2>3, Zenon DEF Handle, ClientResult
  <2>5. HasSent("Login") /\ users[2].name = Name
    BY <2>1, Zenon DEF Ordered
  <2>6. runnerEnd' => textAt \in {"failed", "end"}
    BY <2>2, <2>4, <2>5, Zenon DEF Ordered
  <2>7. startText' \in BOOLEAN /\ runnerEnd' \in BOOLEAN /\ startText \in BOOLEAN /\ runnerEnd \in BOOLEAN
    BY NextInv, <1>2, Zenon DEF Inv, Types, Next, Packet
  <2>8. \A k : (HasSent(k)' <=> HasSent(k)) /\ (Holds(k)' <=> Holds(k))
    BY <2>1, ZenonT(40) DEF HasSent, Holds
  <2> QED  BY <2>1, <2>2, <2>4, <2>5, <2>6, <2>7, <2>8, Zenon DEF Ordered
<1>3. CASE PacketTemp
  <2>1. /\ UNCHANGED <<task, main, recvList, sendList, textAt, sent, logout>>
        /\ tempList # <<>> /\ Handle(Head(tempList))
    BY <1>3, Zenon DEF PacketTemp
  <2> DEFINE m == Head(tempList)
  <2>2. m \in Messages /\ m.type = "Text"
    BY <2>1, TakenIs, WordsAreMessages, Zenon DEF Inv, Lists
  <2> HIDE DEF m
  <2>3. ClientResult(users, m, MsgProc(m))
    BY <1>1, <2>2, ClientHandled, Zenon DEF MsgProc
  <2>4. /\ users'[2].name = users[2].name
        /\ startText' = startText /\ runnerEnd' = runnerEnd
    BY <2>1, <2>2, <2>3, Zenon DEF m, Handle, ClientResult, Inv, Types
  <2> QED  BY <2>1, <2>4 DEF Ordered, HasSent, Holds
<1>4. CASE PacketPush
  <2> DEFINE m == Head(pending)
  <2>1. /\ UNCHANGED <<task, main, runnerEnd, startText, recvList, textAt, sent, logout>>
        /\ pending # <<>> /\ sendList' = Stored(sendList, m)
    BY <1>4, Zenon DEF PacketPush
  <2>2. m = pending[1] /\ 1 \in 1..Len(pending) /\ m \in Messages
    BY <2>1 DEF Inv, Lists
  <2>3. m.type \in {"garbled", "Text", "BackSyn"}
    BY <2>2 DEF Inv, Lists, NoRequest
  <2>4. users' = users
    BY <1>4, <2>2, <2>3, Zenon DEF PacketPush, Granted
  <2>5. Range(sendList) \subseteq Range(sendList') /\ Range(sendList') \subseteq Range(sendList) \cup {m}
    BY <2>1, <2>2, StoredIs, Zenon DEF Inv, Lists
  <2> HIDE DEF m
  <2>6. (Holds("Login")' <=> Holds("Login")) /\ (Holds("Logout")' <=> Holds("Logout"))
    BY <2>3, <2>5, Zenon DEF Holds
  <2> QED  BY <2>1, <2>4, <2>6, Zenon DEF Ordered, HasSent
<1>5. CASE PacketEnd
  <2>1. /\ UNCHANGED <<main, runnerEnd, startText, recvList, sendList, users, textAt, sent, logout>>
        /\ task' = [task EXCEPT !["packet"] = "done"]
    BY <1>5, Zenon DEF PacketEnd, Finish, Pool!PoolFinish
  <2>2. task'["send"] = task["send"] /\ task'["text"] = task["text"]
    BY <2>1 DEF Inv, Types
  <2> QED  BY <2>1, <2>2, Zenon DEF Ordered, HasSent, Holds
<1> QED  BY <1>2, <1>3, <1>4, <1>5, Zenon DEF Packet

\* The text runner.
LEMMA TextOrdered ==
  ASSUME Client, ~Leftovers, Inv, Ordered, Text
  PROVE  Ordered'
<1> USE DEF poolVars, eventVars, listVars, boundVars, textVars
<1>1. CASE TextStart \/ TextLine
  <2>1. /\ UNCHANGED <<task, main, runnerEnd, startText, recvList, sendList, users, sent, logout>>
        /\ textAt \in {"waitStart", "read"} /\ textAt' = "read"
        /\ task["text"] = "running" /\ startText
    BY <1>1, Zenon DEF TextStart, TextLine, Ordered
  <2> QED  BY <2>1, Zenon DEF Ordered, HasSent, Holds
<1>2. CASE TextFails \/ TextClose
  <2> DEFINE m == LogoutRequest(Server, Own(users).name)
  <2>1. /\ UNCHANGED <<task, main, runnerEnd, startText, recvList, users, sent>>
        /\ \/ textAt = "waitStart" /\ textAt' = "failed" /\ logout' = logout
           \/ textAt = "read" /\ textAt' = "end" /\ logout' = (Len(sendList) < MaxLength)
        /\ task["text"] = "running" /\ sendList' = Stored(sendList, m)
    BY <1>2 DEF TextFails, TextClose
  <2>2. ~logout
    BY <2>1, Zenon DEF Ordered
  <2>3. m \in Messages /\ m.type = "Logout"
    BY LogoutIsMessage, Zenon
  <2>4. /\ Range(sendList) \subseteq Range(sendList') /\ Range(sendList') \subseteq Range(sendList) \cup {m}
        /\ Len(sendList) < MaxLength => m \in Range(sendList')
    <3>1. sendList \in Seq(Messages) /\ Len(sendList) <= MaxLength
      BY Zenon DEF Inv, Lists
    <3> HIDE DEF m
    <3> QED  BY <2>1, <2>3, <3>1, StoredIs, Zenon
  <2>5. (Holds("Login")' <=> Holds("Login")) /\ (logout' => textAt' = "end" /\ Holds("Logout")')
    <3> HIDE DEF m
    <3>1. Holds("Login")' <=> Holds("Login")
      BY <2>3, <2>4, Zenon DEF Holds
    <3>2. Len(sendList) < MaxLength => Holds("Logout")'
      BY <2>3, <2>4, Zenon DEF Holds
    <3>3. CASE textAt' = "failed" /\ logout' = logout
      BY <2>2, <3>1, <3>3
    <3>4. CASE textAt' = "end" /\ logout' = (Len(sendList) < MaxLength)
      BY <3>1, <3>2, <3>4, Zenon
    <3> QED  BY <2>1, <3>3, <3>4, Zenon
  <2>6. ~runnerEnd /\ (textAt' = "end" => startText) /\ task["send"] # "done"
    BY <2>1, ZenonT(40) DEF Ordered
  <2> QED  BY <2>1, <2>5, <2>6, ZenonT(40) DEF Ordered, HasSent
<1>3. CASE TextEnd
  <2>1. /\ UNCHANGED <<main, startText, recvList, sendList, users, textAt, sent, logout>>
        /\ textAt \in {"failed", "end"} /\ runnerEnd' = TRUE
        /\ task' = [task EXCEPT !["text"] = "done"]
    BY <1>3, Zenon DEF TextEnd, Finish, Pool!PoolFinish
  <2>2. task'["send"] = task["send"] /\ task'["text"] = "done"
    BY <2>1, TasksAre DEF Inv, Types
  <2> QED  BY <2>1, <2>2 DEF Ordered, HasSent, Holds
<1> QED  BY <1>1, <1>2, <1>3, Zenon DEF Text

LEMMA NextOrdered ==
  ASSUME Client, ~Leftovers, Inv, Ordered, [Next]_vars
  PROVE  Ordered'
<1>1. CASE UNCHANGED vars
  <2>1. UNCHANGED <<task, main, runnerEnd, startText, recvList, sendList, users, textAt, sent, logout>>
    BY <1>1 DEF vars, poolVars, eventVars, listVars, textVars
  <2> QED  BY <2>1, Zenon DEF Ordered, HasSent, Holds
<1>2. CASE Next
  <2>1. CASE Main \/ \E r \in Tasks : Start(r)
    BY <2>1, MainOrdered, Zenon
  <2>2. CASE Recv \/ Send
    BY <2>2, RecvOrdered, SendOrdered, Zenon
  <2>3. CASE Packet \/ Text
    BY <2>3, PacketOrdered, TextOrdered, Zenon
  <2> QED  BY <1>2, <2>1, <2>2, <2>3, Zenon DEF Next
<1> QED  BY <1>1, <1>2, Zenon

LEMMA SpecOrdered ==
  ASSUME Client, ~Leftovers
  PROVE  Spec => [](Inv /\ Ordered)
<1>1. Init => Inv /\ Ordered
  BY InitInv, InitOrdered
<1>2. Inv /\ Ordered /\ [Next]_vars => (Inv /\ Ordered)'
  BY NextInv, NextOrdered
<1> QED  BY <1>1, <1>2, PTL DEF Spec

\* Only a client types "close".
LEMMA ServerTypesNothing ==
  ASSUME ~Client
  PROVE  Spec => [](~logout)
<1>1. Inv => ~logout
  BY DEF Inv, Roles
<1> QED  BY <1>1, SpecInv, PTL

\* A Logout request the send list has taken leaves the process before it ends,
\* for any list lengths and any messages, unless answers to an earlier process
\* at the same address arrive.
THEOREM CloseSendsLogout ==
  ASSUME ~Leftovers
  PROVE  Spec => []LogoutIsSent
<1>1. CASE Client
  <2>1. ASSUME Inv, Ordered
        PROVE  LogoutIsSent
    <3> SUFFICES ASSUME main = "exit", logout, ~HasSent("Logout")
                 PROVE  FALSE
      BY DEF LogoutIsSent
    <3>1. Holds("Logout") /\ textAt = "end"
      BY <2>1, Zenon DEF Ordered
    <3>2. sent # {}
      BY <2>1, <3>1 DEF Ordered, HasSent
    <3>3. task["send"] # "running"
      BY <2>1, TasksAre DEF Inv, Roles
    <3> QED  BY <2>1, <3>1, <3>2, <3>3, Zenon DEF Ordered
  <2>2. Spec => [](Inv /\ Ordered)
    BY <1>1, SpecOrdered
  <2> QED  BY <2>1, <2>2, PTL
<1>2. CASE ~Client
  <2>1. ~logout => LogoutIsSent
    BY DEF LogoutIsSent
  <2>2. Spec => [](~logout)
    BY <1>2, ServerTypesNothing, ZenonT(40)
  <2> QED  BY <2>1, <2>2, PTL
<1> QED  BY <1>1, <1>2

\* The text runner, an object of a block of hatchMain, has left the pool's list
\* before hatchMain leaves the block, under the same condition.
THEOREM TextRunnerStaysInScope ==
  ASSUME ~Leftovers
  PROVE  Spec => []TextRunnerInScope
<1>1. CASE Client
  <2>1. ASSUME Inv, Ordered
        PROVE  TextRunnerInScope
    BY <1>1, <2>1 DEF Inv, Types, Roles, Ordered, TextRunnerInScope
  <2>2. Spec => [](Inv /\ Ordered)
    BY <1>1, SpecOrdered
  <2> QED  BY <2>1, <2>2, PTL
<1>2. CASE ~Client
  <2>1. TextRunnerInScope
    BY <1>2, Zenon DEF TextRunnerInScope
  <2> QED  BY <2>1, PTL
<1> QED  BY <1>1, <1>2

-----------------------------------------------------------------------------
(* A server *)

LEMMA InitAnswered ==
  ASSUME ~Client, Init
  PROVE  Answered
<1>1. Len(users) = 1 /\ Len(pending) = 0
  BY Zenon DEF Init, ServerUsers
<1> QED  BY <1>1 DEF Answered, Granted

\* What leaves the users, the replies and the pending messages alone.
LEMMA AnsweredStays ==
  ASSUME Answered, UNCHANGED <<users, pending, sendList, sent>>
  PROVE  Answered'
  BY Zenon DEF Answered, Told

\* A reply that is taken from the send list is sent.
LEMMA SendAnswered ==
  ASSUME ~Client, Inv, Answered, SendMsg
  PROVE  Answered'
<1> DEFINE m == Head(sendList)
           s == [type |-> m.type, peer |-> m.peer, name |-> m.name]
<1>1. /\ UNCHANGED <<users, pending>>
      /\ sendList # <<>> /\ sent' = sent \cup {s} /\ sendList' = Tail(sendList)
  BY Zenon DEF SendMsg
<1>2. Range(sendList) = {m} \cup Range(sendList')
  BY <1>1, TakenIs, Zenon DEF Inv, Lists
<1>3. ASSUME NEW a, Reply(m, a)
      PROVE  s = [type |-> "Login", peer |-> a, name |-> "server"]
  BY <1>3, Zenon DEF Reply
<1> HIDE DEF m, s
<1>4. \A a : Told(a) => Told(a)'
  BY <1>1, <1>2, <1>3, Zenon DEF Told
<1> QED  BY <1>1, <1>4, Zenon DEF Answered

\* A handler is called when nothing is pending, so everyone had been told.
LEMMA HandleAnswered ==
  ASSUME ~Client, Inv, Answered, PacketRecv
  PROVE  Answered'
<1> DEFINE m == Head(recvList)
<1>1. /\ recvList # <<>> /\ pending = <<>> /\ Handle(m) /\ UNCHANGED <<sendList, sent>>
  BY Zenon DEF PacketRecv, PacketIdle
<1>2. m \in Messages
  BY <1>1, TakenIs, IncomingAreMessages, Zenon DEF Inv, Lists
<1> HIDE DEF m
<1>3. ServerResult(users, MsgProc(m))
  BY <1>2, ServerHandled DEF MsgProc, Inv, Lists
<1>4. users' = MsgProc(m).users /\ pending' = MsgProc(m).out
  BY <1>1, Zenon DEF Handle
<1>5. \A i \in 2..Len(users) : Told(users[i].addr)
  <2>1. ~Granted(pending)
    BY <1>1, EmptySeq DEF Granted
  <2> QED  BY <2>1 DEF Answered, GrantsLast
<1>6. \A a : Told(a) => Told(a)'
  BY <1>1 DEF Told
<1> QED  BY <1>3, <1>4, <1>5, <1>6, Zenon DEF Answered, ServerResult

\* A reply the list refuses takes its user out of the list again.
LEMMA PushAnswered ==
  ASSUME ~Client, Inv, Answered, PacketPush
  PROVE  Answered'
<1> DEFINE m == Head(pending)
<1>1. /\ users \in Seq(Users) /\ Len(users) \in Nat
      /\ pending \in Seq(Messages) /\ Len(pending) \in Nat
  BY DEF Inv, Lists
<1>2. pending # <<>> /\ sendList' = Stored(sendList, m) /\ sent' = sent
  BY DEF PacketPush
<1>3. m \in Messages /\ m = pending[1]
  BY <1>1, <1>2
<1>4. /\ Range(sendList) \subseteq Range(sendList')
      /\ Len(sendList) < MaxLength => m \in Range(sendList')
  BY <1>2, <1>3, StoredIs, Zenon DEF Inv, Lists
<1> HIDE DEF m
<1>5. \A a : Told(a) => Told(a)'
  BY <1>2, <1>4, ZenonT(40) DEF Told
<1>6. CASE ~(Granted(pending) /\ Len(sendList) >= MaxLength)
  <2>1. pending' = Tail(pending) /\ users' = users
    BY <1>6, ZenonT(40) DEF PacketPush
  <2>2. ASSUME NEW i \in 2..Len(users)
        PROVE  Told(users[i].addr)'
    <3>1. CASE Told(users[i].addr)
      BY <1>5, <2>1, <3>1, Zenon
    <3>2. CASE i = Len(users) /\ GrantsLast(users, pending)
      <4>1. Len(sendList) < MaxLength
        BY <1>6, <3>2, AppAssumption DEF GrantsLast, Inv, Lists
      <4>2. Reply(m, users[i].addr) /\ m \in Range(sendList')
        BY <1>3, <1>4, <3>2, <4>1, Zenon DEF GrantsLast
      <4> QED  BY <2>1, <4>2, Zenon DEF Told
    <3> QED  BY <3>1, <3>2 DEF Answered
  <2>3. \A i \in 1..Len(pending') : pending'[i].type # "Login"
    <3>1. \A i \in 1..Len(pending') : i + 1 \in 2..Len(pending) /\ pending'[i] = pending[i + 1]
      BY <1>1, <1>2, <2>1, HeadTailProperties
    <3> QED  BY <3>1 DEF Answered
  <2>4. pending' \in Seq(Messages)
    BY <1>1, <1>2, <2>1
  <2>5. ~Granted(pending')
    BY <2>3, <2>4 DEF Granted
  <2> QED  BY <2>1, <2>2, <2>3, <2>4, <2>5 DEF Answered
<1>7. CASE Granted(pending) /\ Len(sendList) >= MaxLength
  <2> DEFINE name == pending[2].name
             k == hatchLocateUser(users, name)
             n == Len(users)
  <2>1. pending' = <<>> /\ users' = hatchPopUser(users, name)
    BY <1>7, Zenon DEF PacketPush
  <2>2. /\ n >= 2 /\ users[n].name = name
        /\ \A j \in 1..n : users[j].name = name => j = n
    BY <1>7, Zenon DEF Answered, GrantsLast
  <2>3. hatchIsUserInList(users, name)
    BY <1>1, <2>2 DEF hatchIsUserInList, Places
  <2> HIDE DEF name
  <2>4. k = n
    BY <1>1, <2>2, <2>3, Located, Zenon
  <2>5. /\ Len(users') = n - 1
        /\ \A j \in 1..Len(users') : users'[j] = IF j < k THEN users[j] ELSE users[j + 1]
    BY <1>1, <2>1, <2>3, Popped, ZenonT(40)
  <2> HIDE DEF k
  <2>6. ASSUME NEW i \in 2..Len(users')
        PROVE  Told(users[i].addr)'
    <3>1. i \in 2..Len(users) /\ i # Len(users) /\ users'[i] = users[i]
      BY <1>1, <2>2, <2>4, <2>5
    <3>2. Told(users[i].addr)
      BY <3>1 DEF Answered
    <3> QED  BY <1>5, <3>1, <3>2, Zenon
  <2>7. Len(pending') = 0
    BY <2>1, EmptySeq
  <2> QED  BY <2>6, <2>7 DEF Answered, Granted
<1> QED  BY <1>6, <1>7, Zenon

LEMMA NextAnswered ==
  ASSUME ~Client, Inv, Answered, [Next]_vars
  PROVE  Answered'
<1> USE DEF poolVars, eventVars, listVars, boundVars, textVars
<1>1. CASE UNCHANGED vars
  BY <1>1, AnsweredStays, Zenon DEF vars
<1>2. CASE Main
  <2>1. ~MainName /\ ~MainLogin
    BY DEF MainName, MainLogin, Inv, Roles
  <2> QED  BY <1>2, <2>1, AnsweredStays, Zenon
              DEF Main, MainPush, MainWait, MainKey, MainAbort, MainEnd, MainExit
<1>3. CASE \E r \in Tasks : Start(r)
  BY <1>3, AnsweredStays, ZenonT(40) DEF Start
<1>4. CASE Recv
  BY <1>4, AnsweredStays DEF Recv, RecvEnd, RecvSelect, RecvTimeout, RecvFails, RecvMsg
<1>5. CASE Send
  <2>1. CASE SendEnd
    BY <2>1, AnsweredStays DEF SendEnd
  <2> QED  BY <1>5, <2>1, SendAnswered, Zenon DEF Send
<1>6. CASE Packet
  <2>1. CASE PacketEnd
    BY <2>1, AnsweredStays, Zenon DEF PacketEnd
  <2>2. ~PacketTemp
    BY Zenon DEF PacketTemp, Inv, Roles
  <2> QED  BY <1>6, <2>1, <2>2, HandleAnswered, PushAnswered, Zenon DEF Packet
<1>7. ~Text
  BY DEF Text, TextStart, TextFails, TextLine, TextClose, TextEnd
<1> QED  BY <1>1, <1>2, <1>3, <1>4, <1>5, <1>6, <1>7, Zenon DEF Next

\* Whoever is in the server's list has been sent the reply to its login, or the
\* reply is on its way, for any list length: a full send list leaves nobody in
\* the user list who was not told.
THEOREM NobodyUntold == Spec => []ListedIsAnswered
<1>1. CASE Client
  <2>1. ListedIsAnswered
    BY <1>1 DEF ListedIsAnswered
  <2> QED  BY <2>1, PTL
<1>2. CASE ~Client
  <2>1. ASSUME Inv, Answered
        PROVE  ListedIsAnswered
    <3> SUFFICES ASSUME NEW i \in 2..Len(users)
                 PROVE  \/ [type |-> "Login", peer |-> users[i].addr, name |-> "server"] \in sent
                        \/ \E list \in {pending, sendList} : \E j \in DOMAIN list :
                             Reply(list[j], users[i].addr)
      BY Zenon DEF ListedIsAnswered, Reply
    <3>1. CASE \E m \in Range(sendList) : Reply(m, users[i].addr)
      BY <3>1, Zenon DEF Range
    <3>2. CASE GrantsLast(users, pending) /\ i = Len(users)
      <4>1. 1 \in DOMAIN pending
        BY <2>1, <3>2 DEF GrantsLast, Granted, Inv, Lists
      <4> QED  BY <3>2, <4>1, Zenon DEF GrantsLast
    <3> QED  BY <2>1, <3>1, <3>2, Zenon DEF Answered, Told
  <2>2. Init => Inv /\ Answered
    BY <1>2, InitInv, InitAnswered
  <2>3. Inv /\ Answered /\ [Next]_vars => (Inv /\ Answered)'
    BY <1>2, NextInv, NextAnswered
  <2> QED  BY <2>1, <2>2, <2>3, PTL DEF Spec
<1> QED  BY <1>1, <1>2
=============================================================================
