------------------------------ MODULE UserList ------------------------------
(***************************************************************************)
(* The user list of a client (g_vectUserList) under its three threads,     *)
(* call by call on the critical section.  The packet runner P handles      *)
(* messages with the calls of CHatchUserList; the main thread M sets the   *)
(* name the user typed (hatchClientLogin); the text runner X reads it once *)
(* started and again when it logs out.  hatchLocateUser leaves the section *)
(* before its caller uses the iterator, and hatchIsUserInList leaves it    *)
(* twice when it finds the name.                                           *)
(*                                                                         *)
(* A vector has a generation, the number of its reallocations, and an      *)
(* iterator is a place in one generation.  The handlers are those of an    *)
(* Online client; in other states they only look up their own entry.       *)
(***************************************************************************)
EXTENDS Protocol

CONSTANTS Names,         \* the names in messages and the one the user types
          LeaveOutcomes, \* what leaving a section one is not in may do
          MaxMessages    \* bound: messages the packet runner handles

ASSUME UserListAssumption ==
  /\ Names \cap {"server", "client_init"} = {}
  /\ LeaveOutcomes \subseteq {"ignored", "freed", "blocked"}
  /\ LeaveOutcomes # {}
  /\ MaxMessages \in Nat

P == "packet"
M == "main"
X == "text"
Threads == {P, M, X}
Nobody == "nobody"

VARIABLES list,      \* the vector: entries with a name, own marks the client's
          gen, cap,  \* its generation and capacity
          owner,     \* of the critical section
          broken,    \* nobody enters the section any more
          pc, call,  \* where each thread is, and in which call
          ite,       \* the iterator each thread got from hatchLocateUser
          found,     \* the packet runner's last comparison with end()
          msg,       \* the message the packet runner handles
          sName,     \* its copy of the client's own name
          before,    \* the list when it began with the message
          started,   \* m_eventStartText
          handled

vars == <<list, gen, cap, owner, broken, pc, call, ite, found, msg, sName, before, started, handled>>
vector == <<list, gen, cap>>
section == <<owner, broken>>
runner == <<found, msg, sName, before, started, handled>>

Entry(name, own) == [name |-> name, own |-> own]

Init ==
  /\ list = <<Entry("server", FALSE), Entry("client_init", TRUE)>>
  /\ gen = 0 /\ cap = 2
  /\ owner = Nobody /\ broken = FALSE
  /\ pc = [t \in Threads |-> "idle"]
  /\ call = [t \in Threads |-> "none"]
  /\ ite = [t \in Threads |-> [gen |-> 0, pos |-> 1]]
  /\ found = FALSE /\ sName = "client_init" /\ before = list
  /\ msg = [type |-> "none", name |-> "none"]
  /\ started = FALSE /\ handled = 0

To(t, place) == pc' = [pc EXCEPT ![t] = place]

-----------------------------------------------------------------------------
(* the critical section *)

Enter(t, place) ==
  /\ owner = Nobody /\ ~broken
  /\ owner' = t
  /\ To(t, place)
  /\ UNCHANGED broken

\* LeaveCriticalSection does not ask who owns the section.
Leave(t, place) ==
  /\ To(t, place)
  /\ \/ owner = t /\ owner' = Nobody /\ UNCHANGED broken
     \/ owner # t /\ "ignored" \in LeaveOutcomes /\ UNCHANGED section
     \/ owner \notin {t, Nobody} /\ "freed" \in LeaveOutcomes
        /\ owner' = Nobody /\ UNCHANGED broken
     \/ owner = Nobody /\ "blocked" \in LeaveOutcomes
        /\ broken' = TRUE /\ UNCHANGED owner

-----------------------------------------------------------------------------
(* the calls of CHatchUserList *)

\* calls that begin with hatchLocateUser(NULL), the client's own entry
OwnCalls == {"own", "again", "login", "read", "logout"}

\* the name the others look for
Wanted(t) == IF call[t] = "server" THEN "server" ELSE msg.name

\* seeded fault: the search stops one entry early
Position_Short(t) ==
  LET places == Places(list, Wanted(t)) \ {Len(list)}
  IN  IF call[t] \in OwnCalls THEN 2
      ELSE IF places = {} THEN Len(list) + 1
      ELSE CHOOSE i \in places : \A j \in places : i <= j

Position(t) ==
  IF call[t] \in OwnCalls THEN 2
  ELSE IF hatchIsUserInList(list, Wanted(t)) THEN hatchLocateUser(list, Wanted(t))
  ELSE Len(list) + 1

\* hatchPushSendMsgGroup needs no iterator from outside
LocateEnter(t) ==
  /\ pc[t] = "call"
  /\ Enter(t, IF call[t] = "group" THEN "inside" ELSE "locate")
  /\ UNCHANGED <<vector, call, ite, runner>>

Locate(t) ==
  /\ pc[t] = "locate"
  /\ ite' = [ite EXCEPT ![t] = [gen |-> gen, pos |-> Position(t)]]
  /\ To(t, "located")
  /\ UNCHANGED <<vector, section, call, runner>>

LocateLeave(t) ==
  /\ pc[t] = "located"
  /\ Leave(t, CASE call[t] \in {"isin", "push", "pop"} -> "again"
                [] call[t] = "other" /\ msg.name = sName -> "return"
                [] OTHER -> "use")
  /\ UNCHANGED <<vector, call, ite, runner>>

EnterAgain(t) ==
  /\ pc[t] = "again"
  /\ Enter(t, "inside")
  /\ UNCHANGED <<vector, call, ite, runner>>

AtEnd(t) == ite[t].pos = Len(list) + 1

\* seeded fault: a full vector takes one more entry where it is
PushBack_InPlace(entry) == list' = Append(list, entry) /\ UNCHANGED <<gen, cap>>

\* push_back: a full vector moves, and grows by half
PushBack(entry) ==
  /\ list' = Append(list, entry)
  /\ IF Len(list) < cap THEN UNCHANGED <<gen, cap>>
     ELSE gen' = gen + 1
          /\ cap' = IF cap + cap \div 2 > Len(list) THEN cap + cap \div 2 ELSE Len(list) + 1

\* hatchPushUser's second section
PushInside(t) == IF AtEnd(t) THEN PushBack(Entry(msg.name, FALSE)) ELSE UNCHANGED vector

\* hatchPopUser's second section
PopInside(t) ==
  /\ list' = IF AtEnd(t) THEN list
             ELSE SubSeq(list, 1, ite[t].pos - 1) \o SubSeq(list, ite[t].pos + 1, Len(list))
  /\ UNCHANGED <<gen, cap>>

Inside(t) ==
  /\ pc[t] = "inside"
  /\ CASE call[t] = "push" -> PushInside(t)
       [] call[t] = "pop"  -> PopInside(t)
       [] OTHER -> UNCHANGED vector
  /\ found' = IF call[t] \in {"isin", "push"} THEN ~AtEnd(t) ELSE found
  /\ To(t, "inner")
  /\ UNCHANGED <<section, call, ite, msg, sName, before, started, handled>>

\* hatchIsUserInList leaves the section in its if and leaves it again after it
InnerLeave(t) ==
  /\ pc[t] = "inner"
  /\ Leave(t, IF call[t] = "isin" /\ found THEN "outer" ELSE "return")
  /\ UNCHANGED <<vector, call, ite, runner>>

OuterLeave(t) ==
  /\ pc[t] = "outer"
  /\ Leave(t, "return")
  /\ UNCHANGED <<vector, call, ite, runner>>

-----------------------------------------------------------------------------
(* the packet runner *)

Receive(type, n) ==
  /\ pc[P] = "idle"
  /\ handled < MaxMessages
  /\ msg' = [type |-> type, name |-> n]
  /\ before' = list
  /\ call' = [call EXCEPT ![P] = IF type \in {"BackSyn", "Logout"} THEN "isin" ELSE "own"]
  /\ handled' = handled + 1
  /\ To(P, "call")
  /\ UNCHANGED <<vector, section, ite, found, sName, started>>

\* *ite outside the section: the client's name, or another entry's status
Use ==
  /\ pc[P] = "use"
  /\ sName' = IF call[P] = "own" THEN list[ite[P].pos].name ELSE sName
  /\ To(P, "return")
  /\ UNCHANGED <<vector, section, call, ite, found, msg, before, started, handled>>

\* which call a handler makes once it has its own entry
AfterOwn ==
  CASE msg.type = "Login"  -> "done"
    [] msg.type = "Logout" -> IF msg.name = sName THEN "done" ELSE "pop"
    [] OTHER -> "isin"

\* ... once it knows whether the user is listed, in hatchMsgText, hatchMsgUpdate,
\* hatchMsgBackSyn and hatchMsgLogout
AfterIsIn ==
  CASE msg.type = "Update" -> IF found \/ msg.name = "error" THEN "done" ELSE "push"
    [] msg.type = "BackSyn" -> IF found THEN "done" ELSE "push"
    [] msg.type = "Logout" -> IF found THEN "own" ELSE "done"
    [] msg.type = "Text" -> IF found THEN "other" ELSE "server"

Following ==
  CASE call[P] = "own"  -> AfterOwn
    [] call[P] = "isin" -> AfterIsIn
    [] call[P] = "push" /\ msg.type = "Update" -> IF found THEN "done" ELSE "again"
    [] call[P] = "other" /\ msg.name = sName -> "group"
    [] OTHER -> "done"

Return ==
  /\ pc[P] = "return"
  /\ call' = [call EXCEPT ![P] = Following]
  /\ To(P, IF Following = "done" THEN "handled" ELSE "call")
  /\ UNCHANGED <<vector, section, ite, runner>>

\* the end of a handler; the one of a granted login starts the text runner
Finish ==
  /\ pc[P] = "handled"
  /\ started' = (started \/ msg.type = "Login")
  /\ To(P, "idle")
  /\ UNCHANGED <<vector, section, call, ite, found, msg, sName, before, handled>>

-----------------------------------------------------------------------------
(* the main thread: hatchClientLogin *)

MainCall ==
  /\ pc[M] = "idle" /\ call[M] = "none"
  /\ call' = [call EXCEPT ![M] = "login"]
  /\ To(M, "call")
  /\ UNCHANGED <<vector, section, ite, runner>>

\* seeded fault: the typed name becomes a user of its own
MainUse_Pushes(n) ==
  /\ pc[M] = "use"
  /\ PushBack(Entry(n, TRUE))
  /\ To(M, "idle")
  /\ UNCHANGED <<section, call, ite, runner>>

\* The old vector's memory may still hold the pointer to the entry, or not.
MainUse(n) ==
  /\ pc[M] = "use"
  /\ \/ list' = [list EXCEPT ![ite[M].pos].name = n]
     \/ ite[M].gen # gen /\ UNCHANGED list
  /\ To(M, "idle")
  /\ UNCHANGED <<gen, cap, section, call, ite, runner>>

(* the text runner: hatchTextProc's first lines and hatchClientLogout *)

TextCall ==
  /\ pc[X] = "idle" /\ started
  /\ \/ call[X] = "none" /\ call' = [call EXCEPT ![X] = "read"]
     \/ call[X] = "read" /\ call' = [call EXCEPT ![X] = "logout"]
  /\ To(X, "call")
  /\ UNCHANGED <<vector, section, ite, runner>>

TextUse ==
  /\ pc[X] = "use"
  /\ To(X, "idle")
  /\ UNCHANGED <<vector, section, call, ite, runner>>

-----------------------------------------------------------------------------

Call(t) ==
  \/ LocateEnter(t)
  \/ Locate(t)
  \/ LocateLeave(t)

RunnerCall ==
  \/ EnterAgain(P)
  \/ Inside(P)
  \/ InnerLeave(P)
  \/ OuterLeave(P)

Next ==
  \/ \E t \in Threads : Call(t)
  \/ RunnerCall
  \/ \E type \in {"Login", "Update", "BackSyn", "Text", "Logout"}, n \in Names : Receive(type, n)
  \/ Use \/ Return \/ Finish
  \/ MainCall
  \/ \E n \in Names : MainUse(n)
  \/ TextCall \/ TextUse

Spec == Init /\ [][Next]_vars

-----------------------------------------------------------------------------

\* The variables keep their types, and the vector its capacity.
TypeOK ==
  /\ \A i \in DOMAIN list : list[i].name \in Names \cup {"server", "client_init"}
  /\ Len(list) <= cap
  /\ owner \in Threads \cup {Nobody}
  /\ found \in BOOLEAN /\ started \in BOOLEAN /\ broken \in BOOLEAN
  /\ handled \in 0..MaxMessages

Fresh(t) == ite[t].gen = gen

\* Whatever the section is worth, the packet runner's iterators are of the
\* vector as it is when it compares, erases or follows them: it is the only
\* thread that moves the vector.
RunnerIteratorFresh == pc[P] \in {"again", "inside", "use"} => Fresh(P)

\* The names a client's Protocol handler would leave in the list.
Expected ==
  LET m == Msg(msg.type, "server", msg.name, "user")
      users == [i \in DOMAIN before |-> User(before[i].name, "addr", "Online")]
  IN  ClientMsgProc(users, m).users

\* A handler is one step, as Protocol has it, although each of its calls enters
\* the section several times: it leaves the names ClientMsgProc gives for the
\* list it began with, unless the main thread changed the client's name in it.
HandlerIsAtomic ==
  pc[P] = "handled" /\ before[2] = list[2] =>
    /\ Len(list) = Len(Expected)
    /\ \A i \in DOMAIN list : list[i].name = Expected[i].name

\* hatchGlobal.h:30 pairs the list with a critical section that synchronises it:
\* a thread that follows an iterator follows it into the vector as it is.
IteratorsFresh == \A t \in Threads : pc[t] = "use" => Fresh(t)

\* The same pairing: two threads are never in sections of the list at once.
SectionExcludes ==
  \A t, u \in Threads :
    t # u => ~(pc[t] \in {"locate", "inside"} /\ pc[u] \in {"locate", "inside"})

\* hatchServices.cpp:85, "add own in second position of userlist", which
\* hatchLocateUser(NULL) relies on.
OwnIsSecond == list[2].own
=============================================================================
