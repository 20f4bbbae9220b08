--------------------------- MODULE UserListProofs ---------------------------
(***************************************************************************)
(* A client's user list under its three threads, for any names, any number *)
(* of messages and whatever a leave without an enter does: the critical    *)
(* section is not used.  What the threads do to the list is: the packet    *)
(* runner alone changes its length, the main thread once renames the       *)
(* second entry, and the text runner only reads.                           *)
(***************************************************************************)
EXTENDS UserList, WellFoundedInduction, TLAPS

Entries == [name : Names \cup {"server", "client_init"}, own : BOOLEAN]
Kinds == {"Login", "Update", "BackSyn", "Text", "Logout"}
Initial == Entry("client_init", TRUE)

\* The server is first, and nobody's name after it is the server's; entries
\* after the second were pushed by the packet runner.
Shape(l) ==
  /\ l \in Seq(Entries) /\ Len(l) >= 2
  /\ l[1] = Entry("server", FALSE)
  /\ l[2].name # "server"
  /\ \A k \in 3..Len(l) : l[k].name \in Names /\ l[k].own = FALSE

\* The main thread has set the name.
MainDone == pc[M] = "idle" /\ call[M] = "login"

Handling == pc[P] # "idle"

Types ==
  /\ Shape(list) /\ Shape(before)
  /\ gen \in Nat /\ cap \in Nat /\ Len(list) <= cap
  /\ owner \in Threads \cup {Nobody} /\ broken \in BOOLEAN
  /\ DOMAIN pc = Threads /\ DOMAIN call = Threads /\ ite \in [Threads -> [gen : Nat, pos : Nat]]
  /\ found \in BOOLEAN /\ started \in BOOLEAN /\ handled \in 0..MaxMessages

\* The steps of a call.
Stage(c, place) ==
  \/ c \in {"own", "again", "server", "other"} /\ place \in {"call", "locate", "located", "use", "return"}
  \/ c = "isin" /\ place \in {"call", "locate", "located", "again", "inside", "inner", "outer", "return"}
  \/ c \in {"push", "pop"} /\ place \in {"call", "locate", "located", "again", "inside", "inner", "return"}
  \/ c = "group" /\ place \in {"call", "inside", "inner", "return"}
  \/ c = "done" /\ place \in {"handled", "idle"}
  \/ c = "none" /\ place = "idle"

\* The messages whose handlers make it.
Makes(c, type) ==
  \/ c = "own" /\ type \in {"Login", "Update", "Text", "Logout"}
  \/ c = "isin" /\ type \in {"Update", "BackSyn", "Text", "Logout"}
  \/ c = "push" /\ type \in {"Update", "BackSyn"}
  \/ c = "pop" /\ type = "Logout"
  \/ c = "again" /\ type = "Update"
  \/ c \in {"server", "other", "group"} /\ type = "Text"
  \/ c = "done" /\ type \in Kinds

Control ==
  /\ pc[M] \in {"idle", "call", "locate", "located", "use"}
  /\ call[M] = "login" \/ (call[M] = "none" /\ pc[M] = "idle")
  /\ pc[M] \in {"located", "use"} => ite[M].pos = 2
  /\ pc[X] \in {"idle", "call", "locate", "located", "use"}
  /\ call[X] \in {"none", "read", "logout"}
  /\ Stage(call[P], pc[P])
  /\ Handling => msg.name \in Names /\ Makes(call[P], msg.type)

\* The packet runner's iterator is of the vector as it is from hatchLocateUser
\* on, and in a Text's handler until the next call; hatchPushSendMsgGroup
\* follows one.  Only a push moves the vector, and it ends with the call.
Followed ==
  \/ pc[P] \in {"located", "again", "inside", "use"}
  \/ call[P] \in {"isin", "other"} /\ pc[P] \in {"inner", "outer", "return"}
  \/ call[P] = "group"

IteratorFresh == Followed => Fresh(P)

-----------------------------------------------------------------------------
(* The handlers *)

Same == before[2] = list[2]

\* Somebody else has the name the message is about.
Other == \E k \in 3..Len(list) : list[k].name = msg.name

OwnHas == MainDone /\ list[2].name = msg.name

\* Until it is renamed the second entry is the client's, with its first name.
\* It differs from what it was only when it is renamed while a message is handled.
OwnEntry ==
  /\ ~MainDone => list[2] = Initial
  /\ Handling /\ ~Same => MainDone /\ before[2] = Initial

Searched == call[P] \in {"isin", "push", "pop"} /\ pc[P] \in {"located", "again", "inside"}

\* What hatchLocateUser found is still there.
Place ==
  /\ call[P] = "own" /\ pc[P] \in {"located", "use"} => ite[P].pos = 2
  /\ Searched =>
       /\ ite[P].pos \in 2..(Len(list) + 1)
       /\ ite[P].pos # Len(list) + 1 => list[ite[P].pos].name = msg.name
       /\ ite[P].pos = 2 => MainDone
       /\ Same => ite[P].pos = Position(P)

\* A Logout takes out an entry only when there are three: one that is about
\* the client's own name is not taken for somebody else's.
Third ==
  msg.type = "Logout" =>
    /\ call[P] = "isin" /\ pc[P] \in {"inner", "outer", "return"} /\ found => Other \/ OwnHas
    /\ call[P] = "own" => Other \/ OwnHas
    /\ call[P] = "own" /\ pc[P] = "return" => Other \/ sName = msg.name
    /\ call[P] = "pop" /\ pc[P] \notin {"inner", "return"} => Other

\* What a handler makes of the list it began with.
Pushes == msg.type \in {"Update", "BackSyn"} /\ ~hatchIsUserInList(before, msg.name)
          /\ ~(msg.type = "Update" /\ msg.name = "error")
Pops == msg.type = "Logout" /\ hatchIsUserInList(before, msg.name) /\ msg.name # before[2].name

Outcome ==
  IF Pushes THEN Append(before, Entry(msg.name, FALSE))
  ELSE IF Pops THEN hatchPopUser(before, msg.name)
  ELSE before

Changed ==
  \/ call[P] \in {"push", "pop"} /\ pc[P] \in {"inner", "return"}
  \/ call[P] \in {"again", "done"}

\* While nobody renames the client, the list is what it was or the outcome, and
\* what the handler found out about it is true.
Undisturbed ==
  Handling /\ Same =>
    /\ list = IF Changed THEN Outcome ELSE before
    /\ call[P] = "isin" /\ pc[P] \in {"inner", "outer", "return"} =>
         found = hatchIsUserInList(before, msg.name)
    /\ call[P] = "own" /\ msg.type = "Logout" => hatchIsUserInList(before, msg.name)
    /\ call[P] = "own" /\ pc[P] = "return" => sName = before[2].name
    /\ call[P] = "push" => Pushes
    /\ call[P] = "pop" => Pops

\* Types is part of it and not inductive alone: that a Logout leaves two entries
\* needs Third, and Third what the handler found out before.
Inv == Types /\ Control /\ IteratorFresh /\ OwnEntry /\ Place /\ Third /\ Undisturbed

-----------------------------------------------------------------------------
(* Lists *)

\* Every set of places has a first one.
LEMMA Least ==
  ASSUME NEW S \in SUBSET Nat, S # {}
  PROVE  \E i \in S : \A j \in S : i <= j
<1>1. PICK i \in S : \A j \in S : ~ (<<j, i>> \in OpToRel(<, Nat))
  BY WFMin, NatLessThanWellFounded, Zenon
<1>2. ASSUME NEW j \in S
      PROVE  i <= j
  <2>1. i \in Nat /\ j \in Nat
    OBVIOUS
  <2>2. <<j, i>> \in Nat \X Nat /\ <<j, i>>[1] = j /\ <<j, i>>[2] = i
    BY <2>1
  <2>3. ~(j < i)
    BY <1>1, <2>2 DEF OpToRel
  <2> QED  BY <2>1, <2>3
<1> QED  BY <1>2

\* hatchLocateUser finds the first entry with the name.
LEMMA Located ==
  ASSUME NEW S, NEW l \in Seq(S), NEW name, hatchIsUserInList(l, name)
  PROVE  LET k == hatchLocateUser(l, name)
         IN  /\ k \in 1..Len(l) /\ l[k].name = name
             /\ \A j \in 1..Len(l) : l[j].name = name => k <= j
<1>1. Places(l, name) \subseteq 1..Len(l) /\ Places(l, name) # {}
  BY DEF Places, hatchIsUserInList
<1>2. \E i \in Places(l, name) : \A j \in Places(l, name) : i <= j
  BY <1>1, Least
<1>3. LET k == hatchLocateUser(l, name)
      IN  k \in Places(l, name) /\ \A j \in Places(l, name) : k <= j
  BY <1>2 DEF hatchLocateUser
<1> QED  BY <1>1, <1>3 DEF Places

LEMMA Appended ==
  ASSUME NEW l, Shape(l), NEW n \in Names
  PROVE  LET a == Append(l, Entry(n, FALSE))
         IN  /\ Shape(a) /\ Len(a) = Len(l) + 1
             /\ \A j \in 1..Len(l) : a[j] = l[j]
             /\ a[Len(l) + 1] = Entry(n, FALSE)
<1> DEFINE e == Entry(n, FALSE)
           a == Append(l, e)
<1>1. e \in Entries /\ e.name = n /\ e.own = FALSE
  BY DEF Entry, Entries
<1>2. l \in Seq(Entries) /\ Len(l) \in Nat /\ Len(l) >= 2
  BY DEF Shape
<1> HIDE DEF e
<1>3. /\ a \in Seq(Entries) /\ Len(a) = Len(l) + 1
      /\ \A j \in 1..Len(l) : a[j] = l[j]
      /\ a[Len(l) + 1] = e
  BY <1>1, <1>2
<1> HIDE DEF a
<1>4. Shape(a)
  <2>1. \A k \in 3..Len(a) : k \in 3..Len(l) \/ k = Len(l) + 1
    BY <1>2, <1>3
  <2>2. a[1] = l[1] /\ a[2] = l[2] /\ \A k \in 3..Len(l) : a[k] = l[k]
    BY <1>2, <1>3
  <2> QED  BY <1>1, <1>2, <1>3, <2>1, <2>2 DEF Shape
<1> QED  BY <1>3, <1>4, Zenon DEF a, e

Cut(l, k) == SubSeq(l, 1, k - 1) \o SubSeq(l, k + 1, Len(l))

\* Taking out an entry closes the gap and keeps the order of the others.
LEMMA CutIs ==
  ASSUME NEW S, NEW l \in Seq(S), NEW k \in 1..Len(l)
  PROVE  /\ Cut(l, k) \in Seq(S) /\ Len(Cut(l, k)) = Len(l) - 1
         /\ \A j \in 1..(Len(l) - 1) : Cut(l, k)[j] = IF j < k THEN l[j] ELSE l[j + 1]
<1> DEFINE a == SubSeq(l, 1, k - 1)
           b == SubSeq(l, k + 1, Len(l))
<1>1. k \in Nat /\ k >= 1 /\ k <= Len(l) /\ Len(l) \in Nat
  OBVIOUS
<1>2. /\ a \in Seq(S) /\ Len(a) = k - 1
      /\ \A j \in 1..(k - 1) : a[j] = l[j]
  BY <1>1
<1>3. /\ b \in Seq(S) /\ Len(b) = Len(l) - k
      /\ \A j \in 1..(Len(l) - k) : b[j] = l[k + j]
  BY <1>1
<1>4. Cut(l, k) = a \o b
  BY DEF Cut
<1> HIDE DEF a, b
<1>5. /\ a \o b \in Seq(S) /\ Len(a \o b) = Len(a) + Len(b)
      /\ \A j \in 1..(Len(a) + Len(b)) : (a \o b)[j] = IF j <= Len(a) THEN a[j] ELSE b[j - Len(a)]
  <2>1. a \in Seq(S) /\ b \in Seq(S)
    BY <1>2, <1>3
  <2> QED  BY <2>1
<1>6. Len(a) + Len(b) = Len(l) - 1
  BY <1>1, <1>2, <1>3
<1>7. ASSUME NEW j \in 1..(Len(l) - 1)
      PROVE  (a \o b)[j] = IF j < k THEN l[j] ELSE l[j + 1]
  <2>1. CASE j < k
    BY <1>1, <1>2, <1>5, <1>6, <2>1
  <2>2. CASE ~(j < k)
    <3>1. j - (k - 1) \in 1..(Len(l) - k) /\ k + (j - (k - 1)) = j + 1
      BY <1>1, <2>2
    <3>2. b[j - (k - 1)] = l[j + 1]
      BY <1>3, <3>1
    <3>3. ~(j <= k - 1)
      BY <1>1, <2>2
    <3> QED  BY <1>2, <1>5, <1>6, <2>2, <3>2, <3>3
  <2> QED  BY <2>1, <2>2, Zenon
<1> QED  BY <1>4, <1>5, <1>6, <1>7, Zenon

LEMMA CutShape ==
  ASSUME NEW l, Shape(l), Len(l) >= 3, NEW k \in 2..Len(l)
  PROVE  /\ Shape(Cut(l, k)) /\ Len(Cut(l, k)) = Len(l) - 1
         /\ k # 2 => Cut(l, k)[2] = l[2]
         /\ k = 2 => Cut(l, k)[2] = l[3]
<1> DEFINE c == Cut(l, k)
<1>1. l \in Seq(Entries) /\ Len(l) \in Nat /\ k \in 1..Len(l) /\ k \in Nat
  BY DEF Shape
<1>2. /\ c \in Seq(Entries) /\ Len(c) = Len(l) - 1
      /\ \A j \in 1..(Len(l) - 1) : c[j] = IF j < k THEN l[j] ELSE l[j + 1]
  BY <1>1, CutIs
<1> HIDE DEF c
<1>3. c[1] = l[1] /\ c[2] = IF k = 2 THEN l[3] ELSE l[2]
  BY <1>1, <1>2
<1>4. \A j \in 3..Len(c) : j \in 3..Len(l) /\ j + 1 \in 3..Len(l) /\ (c[j] = l[j] \/ c[j] = l[j + 1])
  BY <1>1, <1>2
<1>5. 3 \in 3..Len(l)
  BY <1>1
<1>6. l[3].name # "server"
  BY <1>5, UserListAssumption DEF Shape
<1>7. Shape(c)
  BY <1>1, <1>2, <1>3, <1>4, <1>6 DEF Shape
<1> QED  BY <1>1, <1>2, <1>3, <1>7 DEF c

-----------------------------------------------------------------------------
(* What the threads' steps keep *)

\* Where hatchLocateUser's iterator points.
LEMMA PositionIs ==
  ASSUME Types, NEW t \in Threads
  PROVE  /\ Position(t) \in 1..(Len(list) + 1)
         /\ call[t] \in OwnCalls => Position(t) = 2
         /\ call[t] \notin OwnCalls /\ Position(t) # Len(list) + 1 => list[Position(t)].name = Wanted(t)
<1>1. list \in Seq(Entries) /\ Len(list) \in Nat /\ Len(list) >= 2
  BY DEF Types, Shape
<1>2. CASE call[t] \in OwnCalls
  BY <1>1, <1>2 DEF Position
<1>3. CASE call[t] \notin OwnCalls /\ hatchIsUserInList(list, Wanted(t))
  <2>1. Position(t) = hatchLocateUser(list, Wanted(t))
    BY <1>3 DEF Position
  <2> QED  BY <1>1, <1>3, <2>1, Located
<1>4. CASE call[t] \notin OwnCalls /\ ~hatchIsUserInList(list, Wanted(t))
  <2>1. Position(t) = Len(list) + 1
    BY <1>4 DEF Position
  <2> QED  BY <1>1, <1>4, <2>1
<1> QED  BY <1>2, <1>3, <1>4

\* Whoever enters or leaves, the section has one owner or none.
LEMMA SectionStep ==
  ASSUME Types, NEW t \in Threads, NEW place, Enter(t, place) \/ Leave(t, place)
  PROVE  /\ owner' \in Threads \cup {Nobody} /\ broken' \in BOOLEAN
         /\ pc' = [pc EXCEPT ![t] = place]
<1>1. CASE Enter(t, place)
  BY <1>1 DEF Enter, To, Types
<1>2. CASE Leave(t, place)
  BY <1>2, Zenon DEF Leave, To, Types, section
<1> QED  BY <1>1, <1>2

\* What depends on the list and the message alone.
LEMMA Kept ==
  ASSUME UNCHANGED <<list, before, msg>>, MainDone' <=> MainDone
  PROVE  /\ Outcome' = Outcome
         /\ Pushes' <=> Pushes
         /\ Pops' <=> Pops
         /\ Other' <=> Other
         /\ OwnHas' <=> OwnHas
         /\ Same' <=> Same
         /\ call'[P] = call[P] => Position(P)' = Position(P)
<1>1. (Pushes' <=> Pushes) /\ (Pops' <=> Pops)
  BY DEF Pushes, Pops
<1>2. Outcome' = Outcome
  BY <1>1, Zenon DEF Outcome
<1>3. Other' <=> Other
  BY DEF Other
<1>4. OwnHas' <=> OwnHas
  BY DEF OwnHas
<1>5. Same' <=> Same
  BY DEF Same
<1>6. call'[P] = call[P] => Position(P)' = Position(P)
  BY DEF Position, Wanted
<1> QED  BY <1>1, <1>2, <1>3, <1>4, <1>5, <1>6

\* A step of another thread that changes neither the list nor what it means.
Apart ==
  /\ UNCHANGED <<list, gen, before, msg, found, sName>>
  /\ pc'[P] = pc[P] /\ call'[P] = call[P] /\ ite'[P] = ite[P]
  /\ MainDone' <=> MainDone

LEMMA ApartInv ==
  ASSUME Inv, Apart
  PROVE  /\ IteratorFresh' /\ OwnEntry' /\ Place' /\ Third' /\ Undisturbed'
         /\ Stage(call[P], pc[P])'
         /\ (Handling => msg.name \in Names /\ Makes(call[P], msg.type))'
<1> USE DEF Apart
<1>1. /\ Outcome' = Outcome
      /\ Pushes' <=> Pushes
      /\ Pops' <=> Pops
      /\ Other' <=> Other
      /\ OwnHas' <=> OwnHas
      /\ Same' <=> Same
      /\ Position(P)' = Position(P)
      /\ Handling' <=> Handling
      /\ Changed' <=> Changed
      /\ Searched' <=> Searched
  BY Kept DEF Handling, Changed, Searched
<1>2. IteratorFresh'
  BY DEF Inv, IteratorFresh, Followed, Fresh
<1>3. OwnEntry'
  BY <1>1 DEF Inv, OwnEntry
<1>4. Place'
  BY <1>1 DEF Inv, Place
<1>5. Third'
  BY <1>1 DEF Inv, Third
<1>6. Undisturbed'
  BY <1>1, Zenon DEF Inv, Undisturbed
<1>7. /\ Stage(call[P], pc[P])'
      /\ (Handling => msg.name \in Names /\ Makes(call[P], msg.type))'
  BY <1>1 DEF Inv, Control, Stage, Makes
<1> QED  BY <1>2, <1>3, <1>4, <1>5, <1>6, <1>7

LEMMA InitInv == Init => Inv
<1> SUFFICES ASSUME Init
             PROVE  Inv
  OBVIOUS
<1>1. list = <<Entry("server", FALSE), Entry("client_init", TRUE)>> /\ before = list
  BY DEF Init
<1>2. Shape(list) /\ Len(list) = 2 /\ list[2] = Initial
  <2>1. Entry("server", FALSE) \in Entries /\ Entry("client_init", TRUE) \in Entries
    BY DEF Entry, Entries
  <2>2. list \in Seq(Entries) /\ Len(list) = 2
    <3>1. ASSUME NEW a \in Entries, NEW b \in Entries
          PROVE  <<a, b>> \in Seq(Entries) /\ Len(<<a, b>>) = 2
      OBVIOUS
    <3> QED  BY <1>1, <2>1, <3>1, Zenon
  <2>3. list[1] = Entry("server", FALSE) /\ list[2] = Initial /\ list[2].name = "client_init"
    BY <1>1 DEF Entry, Initial
  <2> QED  BY <2>2, <2>3 DEF Shape
<1>3. Types
  <2>1. ite \in [Threads -> [gen : Nat, pos : Nat]] /\ DOMAIN pc = Threads /\ DOMAIN call = Threads
    BY DEF Init
  <2>2. gen \in Nat /\ cap \in Nat /\ Len(list) <= cap /\ handled \in 0..MaxMessages
    BY <1>2, UserListAssumption DEF Init
  <2> QED  BY <1>1, <1>2, <2>1, <2>2, Zenon DEF Init, Types
<1>4. pc[P] = "idle" /\ pc[M] = "idle" /\ pc[X] = "idle" /\ call[P] = "none" /\ call[M] = "none" /\ call[X] = "none"
  BY DEF Init, Threads
<1>5. Control
  BY <1>4 DEF Control, Stage, Handling
<1>6. IteratorFresh /\ Place /\ Third /\ Undisturbed
  BY <1>4 DEF IteratorFresh, Followed, Place, Searched, Third, Undisturbed, Handling
<1>7. OwnEntry
  BY <1>2, <1>4 DEF OwnEntry, Handling
<1> QED  BY <1>3, <1>5, <1>6, <1>7 DEF Inv

LEMMA ThreadsAre == /\ P \in Threads /\ M \in Threads /\ X \in Threads
                    /\ P # M /\ P # X /\ M # X
  BY DEF P, M, X, Threads

\* What the steps below use of the list's type.
LEMMA ListIs ==
  ASSUME Inv
  PROVE  /\ Shape(list) /\ list \in Seq(Entries) /\ Len(list) \in Nat /\ Len(list) >= 2
         /\ gen \in Nat /\ cap \in Nat /\ Len(list) <= cap
<1>1. Types
  BY Zenon DEF Inv
<1>2. Shape(list) /\ gen \in Nat /\ cap \in Nat /\ Len(list) <= cap
  BY <1>1, Zenon DEF Types
<1>3. ASSUME NEW l, Shape(l)
      PROVE  l \in Seq(Entries) /\ Len(l) \in Nat /\ Len(l) >= 2
  BY <1>3 DEF Shape
<1> QED  BY <1>2, <1>3, Zenon

\* An iterator that is not end() is at an entry.
LEMMA AtEntry ==
  ASSUME NEW n \in Nat, NEW k \in 2..(n + 1), k # n + 1
  PROVE  k \in 2..n /\ (k = 2 \/ k \in 3..n)
OBVIOUS

\* hatchLocateUser in the main thread and in the text runner.
LEMMA OthersCallInv ==
  ASSUME Inv, NEW t \in {M, X}, Call(t)
  PROVE  Inv'
<1>1. t \in Threads /\ t # P
  BY ThreadsAre
<1>2. /\ UNCHANGED <<list, gen, cap, call, found, msg, sName, before, started, handled>>
      /\ owner' \in Threads \cup {Nobody} /\ broken' \in BOOLEAN
      /\ \E q : pc' = [pc EXCEPT ![t] = q]
  <2>1. CASE LocateEnter(t)
    BY <1>1, <2>1, SectionStep DEF LocateEnter, Inv, vector, runner
  <2>2. CASE Locate(t)
    BY <2>2, Zenon DEF Locate, To, Inv, Types, vector, section, runner
  <2>3. CASE LocateLeave(t)
    BY <1>1, <2>3, SectionStep DEF LocateLeave, Inv, vector, runner
  <2> QED  BY <2>1, <2>2, <2>3 DEF Call
<1>3. DOMAIN pc = Threads /\ call[t] \in {"none", "login", "read", "logout"} /\ (pc[t] # "idle" => t = X \/ call[t] = "login")
  BY DEF Inv, Types, Control
<1>4. /\ pc[t] # "idle" /\ pc'[t] \in {"locate", "located", "use"}
      /\ \A u \in Threads : u # t => pc'[u] = pc[u]
  <2>1. CASE LocateEnter(t)
    BY <1>1, <1>3, <2>1 DEF LocateEnter, Enter, To
  <2>2. CASE Locate(t)
    BY <1>1, <1>3, <2>2 DEF Locate, To
  <2>3. CASE LocateLeave(t)
    BY <1>1, <1>3, <2>3 DEF LocateLeave, Leave, To
  <2> QED  BY <2>1, <2>2, <2>3 DEF Call
<1>5. /\ ite' \in [Threads -> [gen : Nat, pos : Nat]] /\ ite'[P] = ite[P]
      /\ \A u \in Threads : u # t => ite'[u] = ite[u]
  <2>1. CASE Locate(t)
    <3>1. Position(t) \in Nat /\ gen \in Nat
      <4>1. Position(t) \in 1..(Len(list) + 1)
        BY <1>1, PositionIs DEF Inv
      <4>2. gen \in Nat /\ Len(list) \in Nat
        BY ListIs, Zenon
      <4> QED  BY <4>1, <4>2
    <3> QED  BY <1>1, <2>1, <3>1, ThreadsAre DEF Locate, Inv, Types
  <2>2. CASE LocateEnter(t) \/ LocateLeave(t)
    BY <2>2 DEF LocateEnter, LocateLeave, Inv, Types
  <2> QED  BY <2>1, <2>2 DEF Call
<1>6. t = M /\ pc'[M] \in {"located", "use"} => ite'[M].pos = 2
  <2> SUFFICES ASSUME t = M, pc'[M] \in {"located", "use"}
               PROVE  ite'[M].pos = 2
    OBVIOUS
  <2>1. call[M] = "login"
    BY <1>3, <1>4, ThreadsAre
  <2>2. CASE LocateEnter(t)
    BY <1>1, <1>3, <2>1, <2>2, Zenon DEF LocateEnter, Enter, To
  <2>3. CASE Locate(t)
    <3>1. Position(M) = 2
      BY <2>1, PositionIs, ThreadsAre DEF Inv, OwnCalls
    <3> QED  BY <1>1, <2>3, <3>1 DEF Locate, Inv, Types
  <2>4. CASE LocateLeave(t)
    BY <2>4 DEF LocateLeave, Inv, Control
  <2> QED  BY <2>2, <2>3, <2>4 DEF Call
<1>7. MainDone' <=> MainDone
  BY <1>2, <1>4, ThreadsAre DEF MainDone
<1>8. Apart
  BY <1>1, <1>2, <1>4, <1>5, <1>7, ThreadsAre DEF Apart
<1>9. Types'
  BY <1>2, <1>5, Zenon DEF Inv, Types, Shape
<1>10. Control'
  <2>1. (pc'[M] = pc[M] /\ ite'[M] = ite[M]) \/ t = M
    BY <1>4, <1>5, ThreadsAre
  <2>2. pc'[X] = pc[X] \/ t = X
    BY <1>4, ThreadsAre
  <2> QED  BY <1>2, <1>3, <1>4, <1>6, <1>8, <2>1, <2>2, ApartInv, ThreadsAre DEF Inv, Control
<1> QED  BY <1>8, <1>9, <1>10, ApartInv DEF Inv

\* The other steps of the two threads, but for the use of the main thread's iterator.
LEMMA OthersInv ==
  ASSUME Inv, MainCall \/ TextCall \/ TextUse
  PROVE  Inv'
<1>1. /\ UNCHANGED <<list, gen, cap, ite, owner, broken, found, msg, sName, before, started, handled>>
      /\ DOMAIN pc' = Threads /\ DOMAIN call' = Threads
      /\ pc'[P] = pc[P] /\ call'[P] = call[P]
  BY ThreadsAre, Zenon DEF MainCall, TextCall, TextUse, To, vector, section, runner, Inv, Types
<1>2. CASE MainCall
  <2>1. /\ pc'[M] = "call" /\ call'[M] = "login" /\ call[M] = "none"
        /\ pc'[X] = pc[X] /\ call'[X] = call[X]
    BY <1>2, ThreadsAre DEF MainCall, To, Inv, Types
  <2>2. Apart
    BY <1>1, <2>1 DEF Apart, MainDone
  <2>3. Types'
    BY <1>1, Zenon DEF Inv, Types, Shape
  <2>4. Control'
    BY <1>1, <2>1, <2>2, ApartInv, Zenon DEF Inv, Control
  <2> QED  BY <2>2, <2>3, <2>4, ApartInv DEF Inv
<1>3. CASE TextCall \/ TextUse
  <2>1. /\ pc'[M] = pc[M] /\ call'[M] = call[M]
        /\ pc'[X] \in {"idle", "call"} /\ call'[X] \in {"none", "read", "logout"}
    BY <1>3, ThreadsAre, Zenon DEF TextCall, TextUse, To, Inv, Types, Control
  <2>2. Apart
    BY <1>1, <2>1, Zenon DEF Apart, MainDone
  <2>3. Types'
    BY <1>1, Zenon DEF Inv, Types, Shape
  <2>4. Control'
    BY <1>1, <2>1, <2>2, ApartInv DEF Inv, Control
  <2> QED  BY <2>2, <2>3, <2>4, ApartInv DEF Inv
<1> QED  BY <1>2, <1>3

\* hatchClientLogin renames the second entry, if its iterator still points to it.
LEMMA MainUseInv ==
  ASSUME Inv, NEW n \in Names, MainUse(n)
  PROVE  Inv'
<1>1. /\ pc[M] = "use" /\ ite[M].pos = 2 /\ call[M] = "login" /\ ~MainDone
      /\ list[2] = Initial /\ list \in Seq(Entries) /\ Len(list) \in Nat /\ Len(list) >= 2
  BY DEF MainUse, Inv, Control, MainDone, OwnEntry, Types, Shape
<1>2. /\ UNCHANGED <<gen, cap, owner, broken, call, ite, found, msg, sName, before, started, handled>>
      /\ DOMAIN pc' = Threads /\ pc'[M] = "idle" /\ pc'[P] = pc[P] /\ pc'[X] = pc[X]
  BY ThreadsAre DEF MainUse, To, Inv, Types, section, runner
<1>3. MainDone'
  BY <1>1, <1>2 DEF MainDone
<1>4. /\ Handling' <=> Handling
      /\ Changed' <=> Changed
      /\ Searched' <=> Searched
  BY <1>2 DEF Handling, Changed, Searched
<1>5. Control' /\ IteratorFresh'
  <2>1. Control'
    BY <1>1, <1>2, <1>4 DEF Inv, Control
  <2>2. IteratorFresh'
    BY <1>2 DEF Inv, IteratorFresh, Followed, Fresh
  <2> QED  BY <2>1, <2>2, Zenon
<1>6. CASE list' = list
  <2>1. /\ Outcome' = Outcome
        /\ Pushes' <=> Pushes
        /\ Pops' <=> Pops
        /\ Other' <=> Other
        /\ OwnHas => OwnHas'
        /\ Same' <=> Same
        /\ Position(P)' = Position(P)
    BY <1>2, <1>3, <1>6 DEF Outcome, Pushes, Pops, Other, OwnHas, Same, Position, Wanted
  <2>2. Types'
    BY <1>2, <1>6, Zenon DEF Inv, Types, Shape
  <2>3. OwnEntry'
    BY <1>1, <1>3, <1>4, <2>1, Zenon DEF Inv, OwnEntry
  <2>4. Place'
    BY <1>2, <1>3, <1>4, <1>6, <2>1, Zenon DEF Inv, Place
  <2>5. Third'
    BY <1>2, <2>1, Zenon DEF Inv, Third
  <2>6. Undisturbed'
    BY <1>2, <1>4, <1>6, <2>1 DEF Inv, Undisturbed
  <2> QED  BY <1>5, <2>2, <2>3, <2>4, <2>5, <2>6, Zenon DEF Inv
<1>7. CASE list' = [list EXCEPT ![2].name = n]
  <2>1. Initial.name = "client_init" /\ Initial.own = TRUE /\ n # "client_init" /\ n # "server"
    BY UserListAssumption DEF Initial, Entry
  <2> DEFINE e == [Initial EXCEPT !.name = n]
  <2>2. e \in Entries /\ e.name = n
    BY Zenon DEF Initial, Entry, Entries
  <2>3. list' = [list EXCEPT ![2] = e]
    BY <1>1, <1>7
  <2> HIDE DEF e
  <2>4. /\ list' \in Seq(Entries) /\ Len(list') = Len(list) /\ list'[2] = e
        /\ \A j \in 1..Len(list) : j # 2 => list'[j] = list[j]
    BY <1>1, <2>2, <2>3
  <2>5. list'[1] = list[1] /\ \A k \in 3..Len(list) : list'[k] = list[k]
    BY <1>1, <2>4
  <2>6. Types'
    <3>1. Shape(list)'
      BY <2>1, <2>2, <2>4, <2>5 DEF Inv, Types, Shape
    <3>2. Shape(before)'
      BY <1>2, Zenon DEF Inv, Types, Shape
    <3> QED  BY <1>2, <2>4, <3>1, <3>2, Zenon DEF Inv, Types
  <2>7. Handling => Same /\ before[2] = Initial
    BY <1>1, Zenon DEF Inv, OwnEntry, Same
  <2>8. Handling' => ~Same'
    BY <1>2, <1>4, <2>1, <2>2, <2>4, <2>7 DEF Same
  <2>9. OwnEntry'
    BY <1>2, <1>3, <1>4, <2>7 DEF OwnEntry
  <2>10. Searched => Handling
    BY Zenon DEF Searched, Handling
  <2>11. Place'
    <3>1. Searched => ite[P].pos \in 3..(Len(list) + 1)
      BY <1>1 DEF Inv, Place
    <3> QED  BY <1>1, <1>2, <1>3, <1>4, <2>4, <2>5, <2>8, <2>10, <3>1 DEF Inv, Place
  <2>12. Third'
    <3>1. (Other' <=> Other) /\ ~OwnHas
      BY <1>1, <1>2, <2>4, <2>5 DEF Other, OwnHas
    <3> QED  BY <1>2, <3>1, Zenon DEF Inv, Third
  <2>13. Undisturbed'
    BY <2>8 DEF Undisturbed
  <2> QED  BY <1>5, <2>6, <2>9, <2>11, <2>12, <2>13 DEF Inv
<1> QED  BY <1>1, <1>6, <1>7 DEF MainUse

-----------------------------------------------------------------------------
(* The packet runner's steps *)

\* What a step of the packet runner leaves alone.
LEMMA RunnerStep ==
  ASSUME Inv, NEW place, pc' = [pc EXCEPT ![P] = place]
  PROVE  /\ DOMAIN pc' = Threads /\ pc'[P] = place /\ pc'[M] = pc[M] /\ pc'[X] = pc[X]
         /\ call'[M] = call[M] => (MainDone' <=> MainDone)
<1>1. DOMAIN pc' = Threads /\ pc'[P] = place /\ pc'[M] = pc[M] /\ pc'[X] = pc[X]
  BY ThreadsAre DEF Inv, Types
<1> QED  BY <1>1 DEF MainDone

\* Entering and leaving the section changes nothing else.
LEMMA RunnerSectionInv ==
  ASSUME Inv,
         LocateEnter(P) \/ LocateLeave(P) \/ EnterAgain(P) \/ InnerLeave(P) \/ OuterLeave(P)
  PROVE  Inv'
<1>1. /\ UNCHANGED <<list, gen, cap, call, ite, found, msg, sName, before, started, handled>>
      /\ owner' \in Threads \cup {Nobody} /\ broken' \in BOOLEAN
  BY SectionStep, ThreadsAre, Zenon
     DEF LocateEnter, LocateLeave, EnterAgain, InnerLeave, OuterLeave, Inv, vector, runner
<1>2. PICK q : /\ pc' = [pc EXCEPT ![P] = q]
               /\ \/ pc[P] = "call" /\ q = (IF call[P] = "group" THEN "inside" ELSE "locate")
                  \/ pc[P] = "located" /\ q = (IF call[P] \in {"isin", "push", "pop"} THEN "again"
                                                ELSE IF call[P] = "other" /\ msg.name = sName THEN "return"
                                                ELSE "use")
                  \/ pc[P] = "again" /\ q = "inside"
                  \/ pc[P] = "inner" /\ q = (IF call[P] = "isin" /\ found THEN "outer" ELSE "return")
                  \/ pc[P] = "outer" /\ q = "return"
  BY DEF LocateEnter, LocateLeave, EnterAgain, InnerLeave, OuterLeave, Enter, Leave, To
<1>3. /\ DOMAIN pc' = Threads /\ pc'[P] = q /\ pc'[M] = pc[M] /\ pc'[X] = pc[X]
      /\ MainDone' <=> MainDone
  BY <1>1, <1>2, RunnerStep, Zenon
<1>4. /\ Outcome' = Outcome
      /\ Pushes' <=> Pushes
      /\ Pops' <=> Pops
      /\ Other' <=> Other
      /\ OwnHas' <=> OwnHas
      /\ Same' <=> Same
      /\ Position(P)' = Position(P)
  BY <1>1, <1>3, Kept, Zenon
<1>5. Stage(call[P], pc[P]) /\ Handling /\ Handling'
  BY <1>2, <1>3, Zenon DEF Inv, Control, Handling
<1>6. Types'
  BY <1>1, <1>3, Zenon DEF Inv, Types, Shape
<1>7. Control'
  <2>1. Stage(call[P], pc[P])'
    BY <1>1, <1>2, <1>3, <1>5, Zenon DEF Stage
  <2>2. (Handling => msg.name \in Names /\ Makes(call[P], msg.type))'
    BY <1>1, <1>5 DEF Inv, Control, Makes
  <2> QED  BY <1>1, <1>3, <2>1, <2>2, Zenon DEF Inv, Control
<1>8. IteratorFresh'
  BY <1>1, <1>2, <1>3, <1>5, Zenon DEF Inv, IteratorFresh, Followed, Fresh, Stage
<1>9. OwnEntry'
  BY <1>1, <1>3, <1>4, <1>5, Zenon DEF Inv, OwnEntry
<1>10. Place'
  BY <1>1, <1>2, <1>3, <1>4, <1>5, Zenon DEF Inv, Place, Searched, Stage
<1>11. Third'
  BY <1>1, <1>2, <1>3, <1>4, <1>5, Zenon DEF Inv, Third, Stage
<1>12. Undisturbed'
  <2>1. Changed' <=> Changed
    BY <1>1, <1>2, <1>3, <1>5 DEF Changed, Stage
  <2> QED  BY <1>1, <1>2, <1>3, <1>4, <1>5, <2>1, Zenon DEF Inv, Undisturbed, Stage
<1> QED  BY <1>6, <1>7, <1>8, <1>9, <1>10, <1>11, <1>12, Zenon DEF Inv

LEMMA RunnerLocateInv ==
  ASSUME Inv, Locate(P)
  PROVE  Inv'
<1>1. /\ UNCHANGED <<list, gen, cap, owner, broken, call, found, msg, sName, before, started, handled>>
      /\ pc[P] = "locate" /\ pc' = [pc EXCEPT ![P] = "located"]
      /\ ite' = [ite EXCEPT ![P] = [gen |-> gen, pos |-> Position(P)]]
  BY DEF Locate, To, vector, section, runner
<1>2. /\ DOMAIN pc' = Threads /\ pc'[P] = "located" /\ pc'[M] = pc[M] /\ pc'[X] = pc[X]
      /\ MainDone' <=> MainDone
  BY <1>1, RunnerStep, Zenon
<1>3. /\ Position(P) \in 1..(Len(list) + 1)
      /\ call[P] \in OwnCalls => Position(P) = 2
      /\ call[P] \notin OwnCalls /\ Position(P) # Len(list) + 1 => list[Position(P)].name = Wanted(P)
  BY PositionIs, ThreadsAre, Zenon DEF Inv
<1>4. Len(list) \in Nat /\ gen \in Nat
  BY DEF Inv, Types, Shape
<1>5. /\ ite' \in [Threads -> [gen : Nat, pos : Nat]] /\ ite'[M] = ite[M]
      /\ ite'[P].gen = gen /\ ite'[P].pos = Position(P)
  BY <1>1, <1>3, <1>4, ThreadsAre DEF Inv, Types
<1>6. /\ Outcome' = Outcome
      /\ Pushes' <=> Pushes
      /\ Pops' <=> Pops
      /\ Other' <=> Other
      /\ OwnHas' <=> OwnHas
      /\ Same' <=> Same
      /\ Position(P)' = Position(P)
  BY <1>1, <1>2, Kept
<1>7. Stage(call[P], pc[P]) /\ Handling /\ Handling' /\ msg.name \in Names
  BY <1>1, <1>2 DEF Inv, Control, Handling
<1>8. Types'
  BY <1>1, <1>2, <1>5, Zenon DEF Inv, Types, Shape
<1>9. Control'
  <2>1. Stage(call[P], pc[P])'
    BY <1>1, <1>2, <1>7, Zenon DEF Stage
  <2>2. (Handling => msg.name \in Names /\ Makes(call[P], msg.type))'
    BY <1>1, <1>7 DEF Inv, Control, Makes
  <2> QED  BY <1>1, <1>2, <1>5, <2>1, <2>2, Zenon DEF Inv, Control
<1>10. IteratorFresh'
  BY <1>1, <1>5, Zenon DEF IteratorFresh, Fresh
<1>11. OwnEntry'
  BY <1>1, <1>2, <1>6, <1>7, Zenon DEF Inv, OwnEntry
<1>12. Place'
  <2>1. call[P] = "own" => ite'[P].pos = 2
    BY <1>3, <1>5, Zenon DEF OwnCalls
  <2>2. ASSUME call[P] \in {"isin", "push", "pop"}
        PROVE  /\ ite'[P].pos \in 2..(Len(list) + 1)
               /\ ite'[P].pos # Len(list) + 1 => list[ite'[P].pos].name = msg.name
               /\ ite'[P].pos = 2 => MainDone
    <3>1. Position(P) # Len(list) + 1 => list[Position(P)].name = msg.name
      BY <1>3, <2>2, Zenon DEF Wanted, OwnCalls
    <3>2. list[1].name = "server" /\ msg.name # "server" /\ msg.name # "client_init" /\ Len(list) >= 2
      BY <1>7, UserListAssumption DEF Inv, Types, Shape, Entry
    <3>3. Position(P) # 1
      BY <1>4, <3>1, <3>2
    <3>4. Position(P) = 2 => MainDone
      <4>1. ~MainDone => list[2].name = "client_init"
        BY DEF Inv, OwnEntry, Initial, Entry
      <4> QED  BY <1>4, <3>1, <3>2, <4>1
    <3> QED  BY <1>3, <1>4, <1>5, <3>1, <3>3, <3>4
  <2> QED  BY <1>1, <1>2, <1>5, <1>6, <2>1, <2>2, Zenon DEF Place, Searched
<1>13. Third'
  BY <1>1, <1>2, <1>6, <1>7, Zenon DEF Inv, Third
<1>14. Undisturbed'
  <2>1. Changed' <=> Changed
    BY <1>1, <1>2, <1>7 DEF Changed, Stage
  <2> QED  BY <1>1, <1>2, <1>6, <1>7, <2>1, Zenon DEF Inv, Undisturbed
<1> QED  BY <1>8, <1>9, <1>10, <1>11, <1>12, <1>13, <1>14, Zenon DEF Inv

LEMMA ReceiveInv ==
  ASSUME Inv, NEW type \in Kinds, NEW n \in Names, Receive(type, n)
  PROVE  Inv'
<1>1. /\ UNCHANGED <<list, gen, cap, owner, broken, ite, found, sName, started>>
      /\ pc' = [pc EXCEPT ![P] = "call"] /\ handled < MaxMessages /\ handled' = handled + 1
      /\ msg' = [type |-> type, name |-> n] /\ before' = list
      /\ call' = [call EXCEPT ![P] = IF type \in {"BackSyn", "Logout"} THEN "isin" ELSE "own"]
  BY DEF Receive, To, vector, section
<1>2. /\ DOMAIN call' = Threads /\ call'[M] = call[M] /\ call'[X] = call[X]
      /\ call'[P] = IF type \in {"BackSyn", "Logout"} THEN "isin" ELSE "own"
      /\ msg'.type = type /\ msg'.name = n
  BY <1>1, ThreadsAre DEF Inv, Types
<1>3. /\ DOMAIN pc' = Threads /\ pc'[P] = "call" /\ pc'[M] = pc[M] /\ pc'[X] = pc[X]
      /\ MainDone' <=> MainDone
  BY <1>1, <1>2, RunnerStep, Zenon
<1>4. Types'
  <2>1. handled' \in 0..MaxMessages
    BY <1>1, UserListAssumption DEF Inv, Types
  <2> QED  BY <1>1, <1>2, <1>3, <2>1, Zenon DEF Inv, Types, Shape
<1>5. Control'
  <2>1. Stage(call[P], pc[P])'
    BY <1>2, <1>3, Zenon DEF Stage
  <2>2. Makes(call'[P], type)
    BY <1>2 DEF Makes, Kinds
  <2> QED  BY <1>1, <1>2, <1>3, <2>1, <2>2, Zenon DEF Inv, Control, Makes
<1>6. IteratorFresh'
  BY <1>2, <1>3, Zenon DEF IteratorFresh, Followed
<1>7. Same'
  BY <1>1, Zenon DEF Same
<1>8. OwnEntry'
  BY <1>1, <1>3, <1>7, Zenon DEF Inv, OwnEntry
<1>9. Place'
  BY <1>3, Zenon DEF Place, Searched
<1>10. Third'
  BY <1>2, <1>3, Zenon DEF Third
<1>11. Undisturbed'
  <2>1. ~Changed'
    BY <1>2, <1>3 DEF Changed
  <2> QED  BY <1>1, <1>2, <1>3, <2>1 DEF Undisturbed
<1> QED  BY <1>4, <1>5, <1>6, <1>8, <1>9, <1>10, <1>11, Zenon DEF Inv

LEMMA UseInv ==
  ASSUME Inv, Use
  PROVE  Inv'
<1>1. /\ UNCHANGED <<list, gen, cap, owner, broken, call, ite, found, msg, before, started, handled>>
      /\ pc[P] = "use" /\ pc' = [pc EXCEPT ![P] = "return"]
      /\ sName' = IF call[P] = "own" THEN list[ite[P].pos].name ELSE sName
  BY Zenon DEF Use, To, vector, section
<1>2. /\ DOMAIN pc' = Threads /\ pc'[P] = "return" /\ pc'[M] = pc[M] /\ pc'[X] = pc[X]
      /\ MainDone' <=> MainDone
  BY <1>1, RunnerStep, Zenon
<1>3. /\ Outcome' = Outcome
      /\ Pushes' <=> Pushes
      /\ Pops' <=> Pops
      /\ Other' <=> Other
      /\ OwnHas' <=> OwnHas
      /\ Same' <=> Same
  BY <1>1, <1>2, Kept, Zenon
<1>4. Stage(call[P], pc[P]) /\ Handling /\ Handling'
  BY <1>1, <1>2, Zenon DEF Inv, Control, Handling
<1>5. Types'
  BY <1>1, <1>2, Zenon DEF Inv, Types, Shape
<1>6. Control'
  <2>1. Stage(call[P], pc[P])'
    BY <1>1, <1>2, <1>4, Zenon DEF Stage
  <2>2. (Handling => msg.name \in Names /\ Makes(call[P], msg.type))'
    BY <1>1, <1>4, Zenon DEF Inv, Control, Makes
  <2> QED  BY <1>1, <1>2, <2>1, <2>2, Zenon DEF Inv, Control
<1>7. IteratorFresh'
  BY <1>1, <1>2, <1>4, Zenon DEF Inv, IteratorFresh, Followed, Fresh, Stage
<1>8. OwnEntry'
  BY <1>1, <1>2, <1>3, <1>4, Zenon DEF Inv, OwnEntry
<1>9. Place'
  BY <1>2 DEF Place, Searched
<1>10. call[P] = "own" => sName' = list[2].name
  BY <1>1, Zenon DEF Inv, Place
<1>11. Third'
  BY <1>1, <1>2, <1>3, <1>4, <1>10, Zenon DEF Inv, Third, Stage, OwnHas
<1>12. Undisturbed'
  <2>1. Changed' <=> Changed
    BY <1>1, <1>2, <1>4, Zenon DEF Changed, Stage
  <2> QED  BY <1>1, <1>2, <1>3, <1>4, <1>10, <2>1, Zenon DEF Inv, Undisturbed, Stage, Same
<1> QED  BY <1>5, <1>6, <1>7, <1>8, <1>9, <1>11, <1>12 DEF Inv

\* What follows a call is decided from what the handler knows.
LEMMA FollowingIs ==
  ASSUME Inv, pc[P] = "return"
  PROVE  /\ Makes(Following, msg.type)
         /\ Following \in {"done", "isin", "own", "push", "pop", "again", "server", "other", "group"}
         /\ Following = "own" => call[P] = "isin" /\ msg.type = "Logout" /\ found
         /\ Following = "isin" => call[P] = "own" /\ msg.type # "Logout"
         /\ Following = "group" => call[P] = "other"
         /\ Following = "push" => call[P] = "isin" /\ msg.type \in {"Update", "BackSyn"} /\ ~found
                                  /\ ~(msg.type = "Update" /\ msg.name = "error")
         /\ Following = "pop" => call[P] = "own" /\ msg.type = "Logout" /\ msg.name # sName
         /\ Following = "again" => call[P] = "push"
         /\ Following \in {"server", "other"} => call[P] = "isin"
<1>1. Stage(call[P], pc[P]) /\ Makes(call[P], msg.type)
  BY Zenon DEF Inv, Control, Handling
<1>2. CASE call[P] = "own"
  <2>1. Following = AfterOwn
    BY <1>2 DEF Following
  <2> QED  BY <1>1, <1>2, <2>1 DEF Makes, AfterOwn, Kinds
<1>3. CASE call[P] = "isin"
  <2>1. Following = AfterIsIn
    BY <1>3, Zenon DEF Following
  <2> QED  BY <1>1, <1>3, <2>1 DEF Makes, AfterIsIn, Kinds
<1>4. CASE call[P] = "push" /\ msg.type = "Update"
  <2>1. Following \in {"again", "done"}
    BY <1>4, Zenon DEF Following
  <2> QED  BY <1>4, <2>1 DEF Makes, Kinds
<1>5. CASE call[P] = "other" /\ msg.name = sName
  <2>1. Following = "group"
    BY <1>5, Zenon DEF Following
  <2> QED  BY <1>1, <1>5, <2>1 DEF Makes
<1>6. CASE /\ call[P] \notin {"own", "isin"} /\ ~(call[P] = "push" /\ msg.type = "Update")
           /\ ~(call[P] = "other" /\ msg.name = sName)
  <2>1. Following = "done"
    BY <1>6 DEF Following
  <2> QED  BY <1>1, <2>1 DEF Makes, Kinds
<1> QED  BY <1>2, <1>3, <1>4, <1>5, <1>6, Zenon

LEMMA ReturnInv ==
  ASSUME Inv, Return
  PROVE  Inv'
<1> DEFINE f == Following
<1>1. /\ UNCHANGED <<list, gen, cap, owner, broken, ite, found, msg, sName, before, started, handled>>
      /\ pc[P] = "return" /\ pc' = [pc EXCEPT ![P] = IF f = "done" THEN "handled" ELSE "call"]
      /\ call' = [call EXCEPT ![P] = f]
  BY DEF Return, To, vector, section, runner
<1>2. /\ Makes(f, msg.type)
      /\ f \in {"done", "isin", "own", "push", "pop", "again", "server", "other", "group"}
      /\ f = "own" => call[P] = "isin" /\ msg.type = "Logout" /\ found
      /\ f = "isin" => call[P] = "own" /\ msg.type # "Logout"
      /\ f = "group" => call[P] = "other"
      /\ f = "push" => call[P] = "isin" /\ msg.type \in {"Update", "BackSyn"} /\ ~found
                       /\ ~(msg.type = "Update" /\ msg.name = "error")
      /\ f = "pop" => call[P] = "own" /\ msg.type = "Logout" /\ msg.name # sName
      /\ f = "again" => call[P] = "push"
      /\ f \in {"server", "other"} => call[P] = "isin"
  BY <1>1, FollowingIs, Zenon
<1>3. f = "done" =>
        \/ call[P] = "own" /\ (msg.type = "Login" \/ (msg.type = "Logout" /\ msg.name = sName))
        \/ call[P] = "isin" /\ msg.type = "Update" /\ (found \/ msg.name = "error")
        \/ call[P] = "isin" /\ msg.type = "BackSyn" /\ found
        \/ call[P] = "isin" /\ msg.type = "Logout" /\ ~found
        \/ call[P] \in {"push", "pop", "again"}
        \/ call[P] \in {"server", "other", "group"} /\ msg.type = "Text"
  <2>1. Stage(call[P], pc[P]) /\ Makes(call[P], msg.type)
    BY <1>1 DEF Inv, Control, Handling
  <2>2. CASE call[P] = "own"
    BY <1>2, <2>2 DEF Following, AfterOwn
  <2>3. CASE call[P] = "isin"
    <3>1. f = AfterIsIn
      BY <2>3, Zenon DEF Following
    <3> QED  BY <2>1, <2>3, <3>1 DEF AfterIsIn, Makes
  <2> QED  BY <1>1, <2>1, <2>2, <2>3, Zenon DEF Stage, Makes
<1> HIDE DEF f
<1>4. DOMAIN call' = Threads /\ call'[M] = call[M] /\ call'[X] = call[X] /\ call'[P] = f
  BY <1>1, ThreadsAre DEF Inv, Types
<1>5. /\ DOMAIN pc' = Threads /\ pc'[P] = (IF f = "done" THEN "handled" ELSE "call")
      /\ pc'[M] = pc[M] /\ pc'[X] = pc[X]
      /\ MainDone' <=> MainDone
  BY <1>1, <1>4, RunnerStep, Zenon
<1>6. /\ Outcome' = Outcome
      /\ Pushes' <=> Pushes
      /\ Pops' <=> Pops
      /\ Other' <=> Other
      /\ OwnHas' <=> OwnHas
      /\ Same' <=> Same
  BY <1>1, <1>5, Kept, Zenon
<1>7. Stage(call[P], pc[P]) /\ Handling /\ Handling'
  BY <1>1, <1>5 DEF Inv, Control, Handling
<1>8. Types'
  BY <1>1, <1>4, <1>5, Zenon DEF Inv, Types, Shape
<1>9. Control'
  <2>1. Stage(call[P], pc[P])'
    BY <1>2, <1>4, <1>5, Zenon DEF Stage
  <2>2. (Handling => msg.name \in Names /\ Makes(call[P], msg.type))'
    BY <1>1, <1>2, <1>4, <1>7, Zenon DEF Inv, Control, Makes
  <2> QED  BY <1>1, <1>4, <1>5, <2>1, <2>2, Zenon DEF Inv, Control
<1>10. IteratorFresh'
  BY <1>1, <1>2, <1>4, <1>5 DEF Inv, IteratorFresh, Followed, Fresh
<1>11. OwnEntry'
  BY <1>1, <1>5, <1>6, <1>7 DEF Inv, OwnEntry
<1>12. Place'
  BY <1>5 DEF Place, Searched
<1>13. Third'
  BY <1>1, <1>2, <1>4, <1>5, <1>6 DEF Inv, Third
<1>14. Undisturbed'
  <2> SUFFICES ASSUME Same
               PROVE  Undisturbed'
    BY <1>6, Zenon DEF Undisturbed
  <2>1. CASE f = "done"
    <3>1. Changed'
      BY <1>4, <2>1 DEF Changed
    <3>2. ASSUME ~Changed
          PROVE  ~Pushes /\ ~Pops
      <4>1. call[P] \notin {"push", "pop", "again"}
        BY <1>1, <3>2, Zenon DEF Changed
      <4>2. CASE call[P] = "own"
        BY <1>1, <1>3, <1>7, <2>1, <4>2, Zenon DEF Inv, Undisturbed, Pushes, Pops
      <4>3. CASE call[P] = "isin"
        <5>1. found = hatchIsUserInList(before, msg.name)
          BY <1>1, <1>7, <4>3 DEF Inv, Undisturbed
        <5> QED  BY <1>3, <2>1, <4>3, <5>1, Zenon DEF Pushes, Pops
      <4>4. CASE msg.type = "Text"
        BY <4>4 DEF Pushes, Pops
      <4> QED  BY <1>3, <2>1, <4>1, <4>2, <4>3, <4>4
    <3>3. list = Outcome
      <4>1. CASE Changed
        BY <1>7, <4>1, Zenon DEF Inv, Undisturbed
      <4>2. CASE ~Changed
        BY <1>7, <3>2, <4>2, Zenon DEF Inv, Undisturbed, Outcome
      <4> QED  BY <4>1, <4>2, Zenon
    <3> QED  BY <1>1, <1>4, <1>6, <2>1, <3>1, <3>3, Zenon DEF Undisturbed
  <2>2. CASE f = "again"
    <3>1. Changed /\ Changed'
      BY <1>1, <1>2, <1>4, <2>2, Zenon DEF Changed
    <3> QED  BY <1>1, <1>4, <1>6, <1>7, <2>2, <3>1, Zenon DEF Inv, Undisturbed
  <2>3. CASE f \notin {"done", "again"}
    <3>1. ~Changed /\ ~Changed'
      BY <1>2, <1>4, <1>5, <2>3, Zenon DEF Changed
    <3>2. list = before
      BY <1>7, <3>1, Zenon DEF Inv, Undisturbed
    <3>3. call[P] = "isin" => found = hatchIsUserInList(before, msg.name)
      BY <1>1, <1>7 DEF Inv, Undisturbed
    <3>4. f = "own" => hatchIsUserInList(before, msg.name)
      BY <1>2, <3>3, Zenon
    <3>5. f = "push" => Pushes
      BY <1>2, <3>3, Zenon DEF Pushes
    <3>6. f = "pop" => Pops
      <4>1. call[P] = "own" /\ msg.type = "Logout" => hatchIsUserInList(before, msg.name)
        BY <1>7, Zenon DEF Inv, Undisturbed
      <4>2. call[P] = "own" => sName = before[2].name
        BY <1>1, <1>7 DEF Inv, Undisturbed
      <4> QED  BY <1>2, <4>1, <4>2, Zenon DEF Pops
    <3> QED  BY <1>1, <1>4, <1>5, <1>6, <2>3, <3>1, <3>2, <3>4, <3>5, <3>6 DEF Undisturbed
  <2> QED  BY <2>1, <2>2, <2>3
<1> QED  BY <1>8, <1>9, <1>10, <1>11, <1>12, <1>13, <1>14 DEF Inv

LEMMA FinishInv ==
  ASSUME Inv, Finish
  PROVE  Inv'
<1>1. /\ UNCHANGED <<list, gen, cap, owner, broken, call, ite, found, msg, sName, before, handled>>
      /\ started' \in BOOLEAN /\ pc[P] = "handled" /\ pc' = [pc EXCEPT ![P] = "idle"]
  BY DEF Finish, To, vector, section, Inv, Types
<1>2. /\ DOMAIN pc' = Threads /\ pc'[P] = "idle" /\ pc'[M] = pc[M] /\ pc'[X] = pc[X]
      /\ MainDone' <=> MainDone
  BY <1>1, RunnerStep, Zenon
<1>3. call[P] = "done" /\ call'[P] = "done" /\ ~Handling'
  BY <1>1, <1>2 DEF Inv, Control, Stage, Handling
<1>4. Types'
  BY <1>1, <1>2, Zenon DEF Inv, Types, Shape
<1>5. Control'
  BY <1>1, <1>2, <1>3, Zenon DEF Inv, Control, Stage
<1>6. IteratorFresh' /\ Place' /\ Third' /\ Undisturbed'
  BY <1>2, <1>3, Zenon DEF IteratorFresh, Followed, Place, Searched, Third, Undisturbed
<1>7. OwnEntry'
  BY <1>1, <1>2, <1>3 DEF Inv, OwnEntry
<1> QED  BY <1>4, <1>5, <1>6, <1>7, Zenon DEF Inv

\* hatchIsUserInList and hatchPushSendMsgGroup only read the list.
LEMMA ReadInsideInv ==
  ASSUME Inv, Inside(P), call[P] \notin {"push", "pop"}
  PROVE  Inv'
<1>1. /\ UNCHANGED <<list, gen, cap, owner, broken, call, ite, msg, sName, before, started, handled>>
      /\ pc[P] = "inside" /\ pc' = [pc EXCEPT ![P] = "inner"]
      /\ found' = IF call[P] = "isin" THEN ~AtEnd(P) ELSE found
  BY DEF Inside, To, vector, section
<1>2. /\ DOMAIN pc' = Threads /\ pc'[P] = "inner" /\ pc'[M] = pc[M] /\ pc'[X] = pc[X]
      /\ MainDone' <=> MainDone
  BY <1>1, RunnerStep, Zenon
<1>3. /\ Outcome' = Outcome
      /\ Pushes' <=> Pushes
      /\ Pops' <=> Pops
      /\ Other' <=> Other
      /\ OwnHas' <=> OwnHas
      /\ Same' <=> Same
  BY <1>1, <1>2, Kept
<1>4. Stage(call[P], pc[P]) /\ Handling /\ Handling' /\ call[P] \in {"isin", "group"}
  BY <1>1, <1>2, Zenon DEF Inv, Control, Handling, Stage
<1>5. Types'
  BY <1>1, <1>2, Zenon DEF Inv, Types, Shape
<1>6. Control'
  <2>1. Stage(call[P], pc[P])'
    BY <1>1, <1>2, <1>4 DEF Stage
  <2>2. (Handling => msg.name \in Names /\ Makes(call[P], msg.type))'
    BY <1>1, <1>4, Zenon DEF Inv, Control, Makes
  <2> QED  BY <1>1, <1>2, <2>1, <2>2, Zenon DEF Inv, Control
<1>7. IteratorFresh'
  BY <1>1, <1>4, Zenon DEF Inv, IteratorFresh, Followed, Fresh
<1>8. OwnEntry'
  BY <1>1, <1>2, <1>3, <1>4, Zenon DEF Inv, OwnEntry
<1>9. Place'
  BY <1>2, Zenon DEF Place, Searched
<1>10. Third'
  <2>1. ASSUME call[P] = "isin", found'
        PROVE  Other \/ OwnHas
    <3> DEFINE k == ite[P].pos
    <3>1. /\ k \in 2..(Len(list) + 1) /\ k # Len(list) + 1
          /\ list[k].name = msg.name
          /\ k = 2 => MainDone
      BY <1>1, <2>1, Zenon DEF Inv, Place, Searched, AtEnd
    <3>2. Len(list) \in Nat
      BY ListIs, Zenon
    <3>3. k = 2 \/ k \in 3..Len(list)
      BY <3>1, <3>2, AtEntry, Zenon
    <3> QED  BY <3>1, <3>3 DEF Other, OwnHas
  <2> QED  BY <1>1, <1>2, <1>3, <1>4, <2>1, Zenon DEF Third
<1>11. Undisturbed'
  <2>1. ~Changed' /\ ~Changed
    BY <1>1, <1>4 DEF Changed
  <2>2. ASSUME call[P] = "isin", Same
        PROVE  found' = hatchIsUserInList(before, msg.name)
    <3>1. list = before
      BY <1>4, <2>1, <2>2, Zenon DEF Inv, Undisturbed
    <3>2. ite[P].pos = Position(P)
      BY <1>1, <2>2, Zenon DEF Inv, Place, Searched
    <3>3. Len(list) \in Nat /\ list \in Seq(Entries)
      BY ListIs, Zenon
    <3>4. Wanted(P) = msg.name /\ call[P] \notin OwnCalls
      BY <2>2 DEF Wanted, OwnCalls
    <3>5. CASE hatchIsUserInList(list, msg.name)
      <4>1. Position(P) = hatchLocateUser(list, msg.name)
        BY <3>4, <3>5 DEF Position
      <4>2. hatchLocateUser(list, msg.name) \in 1..Len(list)
        BY <3>3, <3>5, Located, Zenon
      <4>3. ~AtEnd(P)
        BY <3>2, <3>3, <4>1, <4>2 DEF AtEnd
      <4>4. found' = TRUE
        BY <1>1, <2>2, <4>3, Zenon
      <4>5. hatchIsUserInList(before, msg.name) = TRUE
        BY <3>1, <3>5 DEF hatchIsUserInList
      <4> QED  BY <4>4, <4>5, Zenon
    <3>6. CASE ~hatchIsUserInList(list, msg.name)
      <4>1. Position(P) = Len(list) + 1
        BY <3>4, <3>6 DEF Position
      <4>2. AtEnd(P)
        BY <3>2, <4>1 DEF AtEnd
      <4>3. found' = FALSE
        BY <1>1, <2>2, <4>2, Zenon
      <4>4. hatchIsUserInList(before, msg.name) = FALSE
        BY <3>1, <3>6 DEF hatchIsUserInList
      <4> QED  BY <4>3, <4>4, Zenon
    <3> QED  BY <3>5, <3>6
  <2> QED  BY <1>1, <1>2, <1>3, <1>4, <2>1, <2>2 DEF Inv, Undisturbed
<1> QED  BY <1>5, <1>6, <1>7, <1>8, <1>9, <1>10, <1>11 DEF Inv

\* hatchPushUser appends the new entry when its iterator is at the end.
LEMMA PushInsideInv ==
  ASSUME Inv, Inside(P), call[P] = "push"
  PROVE  Inv'
<1>1. /\ UNCHANGED <<owner, broken, call, ite, msg, sName, before, started, handled>>
      /\ pc[P] = "inside" /\ pc' = [pc EXCEPT ![P] = "inner"]
      /\ PushInside(P)
      /\ found' \in BOOLEAN
  BY DEF Inside, To, section
<1>2. /\ DOMAIN pc' = Threads /\ pc'[P] = "inner" /\ pc'[M] = pc[M] /\ pc'[X] = pc[X]
      /\ MainDone' <=> MainDone
  BY <1>1, RunnerStep, Zenon
<1>3. /\ Stage(call[P], pc[P]) /\ Handling /\ Handling' /\ msg.name \in Names
      /\ msg.type \in {"Update", "BackSyn"}
  BY <1>1, <1>2 DEF Inv, Control, Handling, Makes
<1>4. Shape(list) /\ Len(list) \in Nat /\ Len(list) >= 2 /\ gen \in Nat /\ cap \in Nat /\ Len(list) <= cap
  BY ListIs, Zenon
<1> DEFINE a == Append(list, Entry(msg.name, FALSE))
<1>5. /\ Shape(a) /\ Len(a) = Len(list) + 1
      /\ \A j \in 1..Len(list) : a[j] = list[j]
  BY <1>3, <1>4, Appended, Zenon
<1>6. \/ AtEnd(P) /\ list' = a
      \/ ~AtEnd(P) /\ list' = list
  BY <1>1, Zenon DEF PushInside, PushBack, vector
<1>7. gen' \in Nat /\ cap' \in Nat /\ Len(list') <= cap'
  <2>1. CASE ~AtEnd(P)
    BY <1>1, <1>4, <2>1, Zenon DEF PushInside, vector
  <2>2. CASE AtEnd(P) /\ Len(list) < cap
    <3>1. gen' = gen /\ cap' = cap
      BY <1>1, <2>2, Zenon DEF PushInside, PushBack
    <3>2. Len(list') = Len(list) + 1
      BY <1>5, <1>6, <2>2, Zenon
    <3>3. ASSUME NEW n \in Nat, NEW c \in Nat, n < c
          PROVE  n + 1 <= c
      BY <3>3
    <3> QED  BY <1>4, <2>2, <3>1, <3>2, <3>3, Zenon
  <2>3. CASE AtEnd(P) /\ ~(Len(list) < cap)
    <3>1. cap \div 2 \in Nat
      BY <1>4
    <3>2. /\ gen' = gen + 1
          /\ cap' = IF cap + cap \div 2 > Len(list) THEN cap + cap \div 2 ELSE Len(list) + 1
      BY <1>1, <2>3 DEF PushInside, PushBack
    <3>3. Len(list') = Len(list) + 1
      BY <1>5, <1>6, <2>3
    <3> HIDE DEF a
    <3> QED  BY <1>4, <3>1, <3>2, <3>3
  <2> QED  BY <2>1, <2>2, <2>3
<1> HIDE DEF a
<1>8. list'[2] = list[2]
  BY <1>4, <1>5, <1>6
<1>9. Types'
  <2>1. Shape(list')
    BY <1>4, <1>5, <1>6
  <2>2. Shape(before')
    BY <1>1 DEF Inv, Types
  <2> QED  BY <1>1, <1>2, <1>7, <2>1, <2>2, Zenon DEF Inv, Types, Shape
<1>10. Control'
  <2>1. Stage(call[P], pc[P])'
    BY <1>1, <1>2 DEF Stage
  <2>2. (Handling => msg.name \in Names /\ Makes(call[P], msg.type))'
    BY <1>1, <1>3, Zenon DEF Inv, Control, Makes
  <2> QED  BY <1>1, <1>2, <2>1, <2>2, Zenon DEF Inv, Control
<1>11. IteratorFresh'
  BY <1>1, <1>2 DEF IteratorFresh, Followed
<1>12. Same' <=> Same
  BY <1>1, <1>8, Zenon DEF Same
<1>13. OwnEntry'
  BY <1>1, <1>2, <1>3, <1>8, <1>12, Zenon DEF Inv, OwnEntry
<1>14. Place' /\ Third'
  BY <1>1, <1>2, <1>3, Zenon DEF Place, Searched, Third
<1>15. Undisturbed'
  <2> SUFFICES ASSUME Same
               PROVE  Undisturbed'
    BY <1>12, Zenon DEF Undisturbed
  <2>1. ~Changed /\ Changed'
    BY <1>1, <1>2, Zenon DEF Changed
  <2>2. list = before /\ Pushes
    BY <1>3, <2>1, Zenon DEF Inv, Undisturbed
  <2>3. ite[P].pos = Position(P)
    BY <1>1 DEF Inv, Place, Searched
  <2>4. ~hatchIsUserInList(list, msg.name)
    BY <2>2 DEF Pushes
  <2>5. Position(P) = Len(list) + 1
    BY <2>4 DEF Position, Wanted, OwnCalls
  <2>6. list' = Outcome
    BY <1>6, <2>2, <2>3, <2>5, Zenon DEF AtEnd, Outcome, a
  <2>7. Outcome' = Outcome /\ Pushes'
    BY <1>1, <2>2 DEF Outcome, Pushes, Pops
  <2> QED  BY <1>1, <1>2, <2>1, <2>6, <2>7, Zenon DEF Undisturbed
<1> QED  BY <1>9, <1>10, <1>11, <1>13, <1>14, <1>15 DEF Inv

\* hatchPopUser takes out what its iterator points to.  A renamed own entry may
\* be what it finds, but then it is not the only one after the server.
LEMMA PopInsideInv ==
  ASSUME Inv, Inside(P), call[P] = "pop"
  PROVE  Inv'
<1> DEFINE k == ite[P].pos
<1>1. /\ UNCHANGED <<gen, cap, owner, broken, call, ite, found, msg, sName, before, started, handled>>
      /\ pc[P] = "inside" /\ pc' = [pc EXCEPT ![P] = "inner"]
      /\ list' = IF k = Len(list) + 1 THEN list ELSE Cut(list, k)
  BY Zenon DEF Inside, PopInside, To, section, AtEnd, Cut
<1>2. /\ DOMAIN pc' = Threads /\ pc'[P] = "inner" /\ pc'[M] = pc[M] /\ pc'[X] = pc[X]
      /\ MainDone' <=> MainDone
  BY <1>1, RunnerStep, Zenon
<1>3. Stage(call[P], pc[P]) /\ Handling /\ Handling' /\ msg.name \in Names /\ msg.type = "Logout"
  BY <1>1, <1>2, Zenon DEF Inv, Control, Handling, Makes
<1>4. Shape(list) /\ Len(list) \in Nat /\ Len(list) >= 2 /\ cap \in Nat /\ Len(list) <= cap
  BY ListIs, Zenon
<1>5. Len(list) >= 3
  <2>1. Other
    BY <1>1, <1>3, Zenon DEF Inv, Third
  <2>2. PICK j \in 3..Len(list) : TRUE
    BY <2>1, Zenon DEF Other
  <2>3. ASSUME NEW n \in Nat, NEW i \in 3..n
        PROVE  n >= 3
    OBVIOUS
  <2> QED  BY <1>4, <2>2, <2>3, Zenon
<1>6. /\ k \in 2..(Len(list) + 1)
      /\ k # Len(list) + 1 => list[k].name = msg.name
      /\ k = 2 => MainDone
      /\ Same => k = Position(P)
  BY <1>1, Zenon DEF Inv, Place, Searched
<1> HIDE DEF k
<1>7. /\ Shape(list') /\ Len(list') <= Len(list)
      /\ k # 2 => list'[2] = list[2]
      /\ k = 2 => list'[2] = list[3]
  <2>1. CASE k = Len(list) + 1
    BY <1>1, <1>4, <2>1
  <2>2. CASE k # Len(list) + 1
    <3>1. k \in 2..Len(list)
      BY <1>4, <1>6, <2>2, AtEntry, Zenon
    <3>2. list' = Cut(list, k)
      BY <1>1, <2>2, Zenon
    <3> QED  BY <1>4, <1>5, <3>1, <3>2, CutShape
  <2> QED  BY <2>1, <2>2, Zenon
<1>8. Types'
  <2>1. Shape(before')
    BY <1>1 DEF Inv, Types
  <2>2. Len(list') \in Nat
    BY <1>7 DEF Shape
  <2>3. Len(list') <= cap
    BY <1>4, <1>7, <2>2
  <2> QED  BY <1>1, <1>2, <1>7, <2>1, <2>3, Zenon DEF Inv, Types
<1>9. Control'
  <2>1. Stage(call[P], pc[P])'
    BY <1>1, <1>2 DEF Stage
  <2>2. (Handling => msg.name \in Names /\ Makes(call[P], msg.type))'
    BY <1>1, <1>3, Zenon DEF Inv, Control, Makes
  <2> QED  BY <1>1, <1>2, <2>1, <2>2, Zenon DEF Inv, Control
<1>10. IteratorFresh' /\ Place' /\ Third'
  BY <1>1, <1>2, Zenon DEF IteratorFresh, Followed, Place, Searched, Third
<1>11. Same =>
         /\ list = before /\ Pops
         /\ hatchIsUserInList(list, msg.name)
         /\ k = hatchLocateUser(list, msg.name)
         /\ k # 2 /\ k # Len(list) + 1
  <2> SUFFICES ASSUME Same
               PROVE  /\ list = before /\ Pops
                      /\ hatchIsUserInList(list, msg.name)
                      /\ k = hatchLocateUser(list, msg.name)
                      /\ k # 2 /\ k # Len(list) + 1
    OBVIOUS
  <2>1. ~Changed
    BY <1>1, Zenon DEF Changed
  <2>2. list = before /\ Pops
    BY <1>3, <2>1, Zenon DEF Inv, Undisturbed
  <2>3. hatchIsUserInList(list, msg.name) /\ msg.name # list[2].name
    BY <2>2, Zenon DEF Pops
  <2>4. Position(P) = hatchLocateUser(list, msg.name)
    BY <2>3, Zenon DEF Position, Wanted, OwnCalls
  <2>5. hatchLocateUser(list, msg.name) \in 1..Len(list) /\ list[hatchLocateUser(list, msg.name)].name = msg.name
    BY <1>4, <2>3, Located, Zenon DEF Shape
  <2>6. k # Len(list) + 1
    BY <1>4, <1>6, <2>4, <2>5
  <2>7. k # 2
    BY <1>6, <2>3, <2>4, <2>5
  <2> QED  BY <1>6, <2>2, <2>3, <2>4, <2>6, <2>7
<1>12. Same' <=> Same
  <2>1. CASE k # 2
    BY <1>1, <1>7, <2>1, Zenon DEF Same
  <2>2. CASE k = 2
    <3>1. ~Same
      BY <1>11, <2>2, Zenon
    <3>2. before[2].own = TRUE
      BY <1>3, <3>1 DEF Inv, OwnEntry, Initial, Entry
    <3>3. list[3].own = FALSE
      BY <1>4, <1>5 DEF Shape
    <3> QED  BY <1>1, <1>7, <2>2, <3>1, <3>2, <3>3 DEF Same
  <2> QED  BY <2>1, <2>2, Zenon
<1>13. OwnEntry'
  <2>1. ~MainDone => list'[2] = list[2]
    BY <1>6, <1>7, Zenon
  <2> QED  BY <1>1, <1>2, <1>3, <1>12, <2>1, Zenon DEF Inv, OwnEntry
<1>14. Undisturbed'
  <2> SUFFICES ASSUME Same
               PROVE  Undisturbed'
    BY <1>12, Zenon DEF Undisturbed
  <2>1. Changed'
    BY <1>1, <1>2 DEF Changed
  <2>2. list' = hatchPopUser(before, msg.name)
    BY <1>1, <1>11, Zenon DEF hatchPopUser, Cut
  <2>3. Outcome = hatchPopUser(before, msg.name)
    BY <1>3, <1>11 DEF Outcome, Pushes
  <2>4. Outcome' = Outcome /\ Pops'
    BY <1>1, <1>11, Zenon DEF Outcome, Pushes, Pops
  <2> QED  BY <1>1, <1>2, <2>1, <2>2, <2>3, <2>4 DEF Undisturbed
<1> QED  BY <1>8, <1>9, <1>10, <1>13, <1>14 DEF Inv

LEMMA NextInv == Inv /\ [Next]_vars => Inv'
<1> SUFFICES ASSUME Inv, [Next]_vars
             PROVE  Inv'
  BY Zenon
<1>1. CASE UNCHANGED vars
  <2>1. Apart
    BY <1>1 DEF vars, Apart, MainDone
  <2>2. Types'
    BY <1>1, Zenon DEF vars, Inv, Types, Shape
  <2>3. Control'
    BY <1>1, <2>1, ApartInv, Zenon DEF vars, Inv, Control
  <2> QED  BY <2>1, <2>2, <2>3, ApartInv, Zenon DEF Inv
<1>2. ASSUME NEW t \in Threads, Call(t)
      PROVE  Inv'
  <2>1. CASE t = P
    BY <1>2, <2>1, RunnerSectionInv, RunnerLocateInv DEF Call
  <2>2. CASE t # P
    BY <1>2, <2>2, OthersCallInv DEF Threads
  <2> QED  BY <2>1, <2>2
<1>3. CASE RunnerCall
  BY <1>3, RunnerSectionInv, ReadInsideInv, PushInsideInv, PopInsideInv DEF RunnerCall
<1>4. ASSUME NEW type \in {"Login", "Update", "BackSyn", "Text", "Logout"}, NEW n \in Names, Receive(type, n)
      PROVE  Inv'
  BY <1>4, ReceiveInv DEF Kinds
<1>5. CASE Use \/ Return \/ Finish
  BY <1>5, UseInv, ReturnInv, FinishInv
<1>6. CASE MainCall \/ TextCall \/ TextUse
  BY <1>6, OthersInv
<1>7. ASSUME NEW n \in Names, MainUse(n)
      PROVE  Inv'
  BY <1>7, MainUseInv
<1> QED  BY <1>1, <1>2, <1>3, <1>4, <1>5, <1>6, <1>7 DEF Next

LEMMA SpecInv == Spec => []Inv
  BY InitInv, NextInv, PTL DEF Spec

-----------------------------------------------------------------------------

\* The list holds names that were typed or received and the two first ones, and
\* never more entries than the vector has room for (push_back).
THEOREM ListKeepsTypes == Spec => []TypeOK
<1>1. ASSUME Inv
      PROVE  TypeOK
  <2>1. \A i \in DOMAIN list : list[i].name \in Names \cup {"server", "client_init"}
    <3> SUFFICES ASSUME NEW i \in DOMAIN list
                 PROVE  list[i].name \in Names \cup {"server", "client_init"}
      BY Zenon
    <3>1. list \in Seq(Entries)
      BY <1>1 DEF Inv, Types, Shape
    <3>2. list[i] \in Entries
      BY <3>1
    <3> QED  BY <3>2 DEF Entries
  <2> QED  BY <1>1, <2>1 DEF TypeOK, Inv, Types
<1> QED  BY <1>1, SpecInv, PTL

\* Whatever leaving a section one does not hold may do, an iterator the packet
\* runner compares, erases or follows is of the vector as it is: the other
\* threads do not move it (hatchLocateUser and its callers).
THEOREM RunnerFollowsFresh == Spec => []RunnerIteratorFresh
<1>1. Inv => RunnerIteratorFresh
  BY Zenon DEF Inv, IteratorFresh, Followed, RunnerIteratorFresh
<1> QED  BY <1>1, SpecInv, PTL

-----------------------------------------------------------------------------
(* The handlers of Protocol, for the list a handler began with *)

Began == [i \in DOMAIN before |-> User(before[i].name, "addr", "Online")]
Handled == Msg(msg.type, "server", msg.name, "user")

Alike(l, u) == Len(l) = Len(u) /\ \A i \in 1..Len(l) : l[i].name = u[i].name

Rows == [name : Names \cup {"server", "client_init"}, addr : {"addr", "user"}, status : {"Online", "Login", "NULL"}]

LEMMA BeganIs ==
  ASSUME Shape(before)
  PROVE  /\ before \in Seq(Entries) /\ Len(before) \in Nat /\ Len(before) >= 2
         /\ Began \in Seq(Rows) /\ Len(Began) = Len(before)
         /\ \A i \in 1..Len(before) : Began[i].name = before[i].name
         /\ \A n : Places(Began, n) = Places(before, n)
         /\ Own(Began).status = "Online" /\ Own(Began).name = before[2].name
<1>1. before \in Seq(Entries) /\ Len(before) \in Nat /\ Len(before) >= 2 /\ DOMAIN before = 1..Len(before)
  BY DEF Shape
<1>2. ASSUME NEW i \in 1..Len(before)
      PROVE  User(before[i].name, "addr", "Online") \in Rows
  <2>1. before[i] \in Entries
    BY <1>1
  <2>2. before[i].name \in Names \cup {"server", "client_init"}
    BY <2>1 DEF Entries
  <2> QED  BY <2>2 DEF User, Rows
<1> DEFINE row(i) == User(before[i].name, "addr", "Online")
<1>3. Began = [i \in 1..Len(before) |-> row(i)]
  BY <1>1 DEF Began
<1>4. \A i \in 1..Len(before) : row(i).name = before[i].name /\ row(i).status = "Online"
  BY DEF User
<1> HIDE DEF row
<1>5. Began \in Seq(Rows) /\ Len(Began) = Len(before)
  <2>1. \A i \in 1..Len(before) : row(i) \in Rows
    BY <1>2 DEF row
  <2> QED  BY <1>1, <1>3, <2>1
<1>6. \A i \in 1..Len(before) : Began[i].name = before[i].name /\ Began[i].status = "Online"
  BY <1>3, <1>4
<1>7. \A n : Places(Began, n) = Places(before, n)
  BY <1>1, <1>3, <1>6 DEF Places
<1>8. 2 \in 1..Len(before)
  BY <1>1
<1> QED  BY <1>1, <1>5, <1>6, <1>7, <1>8 DEF Own

\* Setting a status changes no name.
LEMMA StatusSet ==
  ASSUME Shape(before), NEW i \in 1..Len(before), NEW s
  PROVE  Alike(before, [Began EXCEPT ![i].status = s])
<1> DEFINE r == [Began[i] EXCEPT !.status = s]
           u == [Began EXCEPT ![i] = r]
<1>1. /\ Began \in Seq(Rows) /\ Len(Began) = Len(before) /\ Len(before) \in Nat
      /\ \A j \in 1..Len(before) : Began[j].name = before[j].name
  BY BeganIs
<1>2. [Began EXCEPT ![i].status = s] = u
  BY <1>1, Zenon
<1>3. Began[i] \in Rows
  BY <1>1
<1>4. r.name = Began[i].name
  BY <1>3 DEF Rows
<1> HIDE DEF r
<1>5. DOMAIN u = 1..Len(before) /\ u[i] = r /\ \A j \in 1..Len(before) : j # i => u[j] = Began[j]
  BY <1>1
<1>6. Len(u) = Len(before)
  BY <1>1, <1>5
<1> HIDE DEF u
<1>7. \A j \in 1..Len(before) : before[j].name = u[j].name
  BY <1>1, <1>4, <1>5
<1> QED  BY <1>2, <1>6, <1>7, Zenon DEF Alike

LEMMA AppendAlike ==
  ASSUME Shape(before), NEW n \in Names
  PROVE  Alike(Append(before, Entry(n, FALSE)), Append(Began, User(n, "user", "Online")))
<1> DEFINE e == Entry(n, FALSE)
           u == User(n, "user", "Online")
<1>1. e \in Entries /\ u \in Rows /\ e.name = u.name
  BY Zenon DEF Entry, User, Entries, Rows
<1>2. /\ Began \in Seq(Rows) /\ Len(Began) = Len(before) /\ Len(before) \in Nat /\ before \in Seq(Entries)
      /\ \A j \in 1..Len(before) : Began[j].name = before[j].name
  BY BeganIs, Zenon
<1> HIDE DEF e, u
<1>3. /\ Len(Append(before, e)) = Len(before) + 1 /\ Append(before, e)[Len(before) + 1] = e
      /\ \A j \in 1..Len(before) : Append(before, e)[j] = before[j]
  BY <1>1, <1>2
<1>4. /\ Len(Append(Began, u)) = Len(before) + 1 /\ Append(Began, u)[Len(before) + 1] = u
      /\ \A j \in 1..Len(before) : Append(Began, u)[j] = Began[j]
  BY <1>1, <1>2
<1>5. \A j \in 1..(Len(before) + 1) : j \in 1..Len(before) \/ j = Len(before) + 1
  BY <1>2
<1> QED  BY <1>1, <1>2, <1>3, <1>4, <1>5, Zenon DEF Alike, e, u

LEMMA PopAlike ==
  ASSUME Shape(before), NEW n, hatchIsUserInList(before, n)
  PROVE  Alike(hatchPopUser(before, n), hatchPopUser(Began, n))
<1> DEFINE k == hatchLocateUser(before, n)
<1>1. /\ Began \in Seq(Rows) /\ Len(Began) = Len(before) /\ Len(before) \in Nat /\ before \in Seq(Entries)
      /\ \A j \in 1..Len(before) : Began[j].name = before[j].name
      /\ Places(Began, n) = Places(before, n)
  BY BeganIs
<1>2. hatchIsUserInList(Began, n) /\ hatchLocateUser(Began, n) = k
  BY <1>1 DEF hatchIsUserInList, hatchLocateUser
<1>3. k \in 1..Len(before)
  BY <1>1, Located
<1>4. hatchPopUser(before, n) = Cut(before, k) /\ hatchPopUser(Began, n) = Cut(Began, k)
  BY <1>2, Zenon DEF hatchPopUser, Cut
<1> HIDE DEF k
<1>5. /\ Len(Cut(before, k)) = Len(before) - 1
      /\ \A j \in 1..(Len(before) - 1) : Cut(before, k)[j] = IF j < k THEN before[j] ELSE before[j + 1]
  BY <1>1, <1>3, CutIs, Zenon
<1>6. /\ Len(Cut(Began, k)) = Len(before) - 1
      /\ \A j \in 1..(Len(before) - 1) : Cut(Began, k)[j] = IF j < k THEN Began[j] ELSE Began[j + 1]
  BY <1>1, <1>3, CutIs
<1>7. \A j \in 1..(Len(before) - 1) : j \in 1..Len(before) /\ j + 1 \in 1..Len(before)
  BY <1>1
<1>8. \A j \in 1..(Len(before) - 1) : Cut(before, k)[j].name = Cut(Began, k)[j].name
  BY <1>1, <1>5, <1>6, <1>7, Zenon
<1> QED  BY <1>4, <1>5, <1>6, <1>8, Zenon DEF Alike

LEMMA NothingIs ==
  ASSUME NEW u
  PROVE  /\ Nothing(u).users = u
         /\ \A o : [Nothing(u) EXCEPT !.out = o].users = u
         /\ [Nothing(u) EXCEPT !.start = TRUE].users = u
         /\ [Nothing(u) EXCEPT !.end = TRUE].users = u
  BY DEF Nothing

LEMMA ExpectedIs ==
  ASSUME Shape(before), msg.type \in Kinds, msg.name \in Names
  PROVE  Alike(Outcome, Expected)
<1> DEFINE h == Handled
           in == hatchIsUserInList(before, msg.name)
<1>1. h.type = msg.type /\ h.name = msg.name /\ h.user = "user"
  BY DEF Handled, Msg
<1>2. Expected = ClientMsgProc(Began, h).users
  BY Zenon DEF Expected, Began, Handled
<1> HIDE DEF h
<1>3. /\ Began \in Seq(Rows) /\ Len(Began) = Len(before) /\ Len(before) \in Nat /\ before \in Seq(Entries)
      /\ Len(before) >= 2
      /\ \A j \in 1..Len(before) : Began[j].name = before[j].name
      /\ Own(Began).status = "Online" /\ Own(Began).name = before[2].name
      /\ Places(Began, msg.name) = Places(before, msg.name)
  BY BeganIs, Zenon
<1>4. /\ hatchIsUserInList(Began, msg.name) <=> in
      /\ hatchLocateUser(Began, msg.name) = hatchLocateUser(before, msg.name)
  BY <1>3, Zenon DEF hatchIsUserInList, hatchLocateUser
<1>5. Alike(before, Began)
  BY <1>3 DEF Alike
<1>6. \A s : Alike(before, SetOwnStatus(Began, s))
  <2>1. 2 \in 1..Len(before)
    BY <1>3
  <2> QED  BY <2>1, StatusSet, Zenon DEF SetOwnStatus
<1>7. ~in => hatchPushUser(Began, User(msg.name, "user", "Online")) = Append(Began, User(msg.name, "user", "Online"))
  BY <1>4, Zenon DEF hatchPushUser, User
<1>8. in => hatchPushUser(Began, User(msg.name, "user", "Online")) = Began
  BY <1>4 DEF hatchPushUser, User
<1>9. CASE msg.type = "Login"
  <2>1. Outcome = before
    BY <1>9 DEF Outcome, Pushes, Pops
  <2>2. ClientMsgProc(Began, h) = ClientLogin(Began, h)
    BY <1>1, <1>9 DEF ClientMsgProc
  <2>3. \E s : ClientLogin(Began, h).users = SetOwnStatus(Began, s)
    BY NothingIs DEF ClientLogin
  <2> QED  BY <1>2, <1>6, <2>1, <2>2, <2>3, Zenon
<1>10. CASE msg.type = "Update"
  <2>1. ClientMsgProc(Began, h) = ClientUpdate(Began, h)
    BY <1>1, <1>10 DEF ClientMsgProc
  <2>2. CASE in \/ msg.name = "error"
    <3>1. Outcome = before
      BY <1>10, <2>2, Zenon DEF Outcome, Pushes, Pops
    <3>2. ClientUpdate(Began, h) = Nothing(Began)
      BY <1>1, <1>3, <1>4, <2>2 DEF ClientUpdate
    <3> QED  BY <1>2, <1>5, <2>1, <3>1, <3>2, NothingIs
  <2>3. CASE ~in /\ msg.name # "error"
    <3>1. Outcome = Append(before, Entry(msg.name, FALSE))
      BY <1>10, <2>3, Zenon DEF Outcome, Pushes
    <3>2. ClientUpdate(Began, h).users = hatchPushUser(Began, User(msg.name, "user", "Online"))
      BY <1>1, <1>3, <1>4, <2>3, NothingIs DEF ClientUpdate
    <3> QED  BY <1>2, <1>7, <2>1, <2>3, <3>1, <3>2, AppendAlike, Zenon
  <2> QED  BY <2>2, <2>3
<1>11. CASE msg.type = "BackSyn"
  <2>1. ClientMsgProc(Began, h) = ClientBackSyn(Began, h)
    BY <1>1, <1>11 DEF ClientMsgProc
  <2>2. Expected = hatchPushUser(Began, User(msg.name, "user", "Online"))
    BY <1>1, <1>2, <2>1, NothingIs, Zenon DEF ClientBackSyn
  <2>3. CASE in
    <3>1. Outcome = before
      BY <1>11, <2>3 DEF Outcome, Pushes, Pops
    <3> QED  BY <1>5, <1>8, <2>2, <2>3, <3>1, Zenon
  <2>4. CASE ~in
    <3>1. Outcome = Append(before, Entry(msg.name, FALSE))
      BY <1>11, <2>4, Zenon DEF Outcome, Pushes
    <3> QED  BY <1>7, <2>2, <2>4, <3>1, AppendAlike, Zenon
  <2> QED  BY <2>3, <2>4
<1>12. CASE msg.type = "Text"
  <2>1. Outcome = before
    BY <1>12 DEF Outcome, Pushes, Pops
  <2>2. ClientMsgProc(Began, h) = ClientText(Began, h)
    BY <1>1, <1>12 DEF ClientMsgProc
  <2>3. CASE ~in \/ msg.name = before[2].name
    <3>1. ClientText(Began, h).users = Began
      BY <1>1, <1>3, <1>4, <2>3, NothingIs DEF ClientText
    <3> QED  BY <1>2, <1>5, <2>1, <2>2, <3>1
  <2>4. CASE in /\ msg.name # before[2].name
    <3> DEFINE k == hatchLocateUser(before, msg.name)
               s == IF Began[k].status = "Hide" THEN "Online" ELSE Began[k].status
    <3>1. k \in 1..Len(before)
      BY <1>3, <2>4, Located
    <3>2. ClientText(Began, h).users = [Began EXCEPT ![k].status = s]
      BY <1>1, <1>3, <1>4, <2>4, <3>1, NothingIs DEF ClientText
    <3> HIDE DEF k, s
    <3>3. Alike(before, [Began EXCEPT ![k].status = s])
      BY <3>1, StatusSet, Zenon
    <3> QED  BY <1>2, <2>1, <2>2, <3>2, <3>3, Zenon
  <2> QED  BY <2>3, <2>4, Zenon
<1>13. CASE msg.type = "Logout"
  <2>1. ClientMsgProc(Began, h) = ClientLogout(Began, h)
    BY <1>1, <1>13, Zenon DEF ClientMsgProc
  <2>2. CASE ~in
    <3>1. Outcome = before
      BY <1>13, <2>2 DEF Outcome, Pushes, Pops
    <3>2. ClientLogout(Began, h) = Nothing(Began)
      BY <1>1, <1>4, <2>2, Zenon DEF ClientLogout
    <3> QED  BY <1>2, <1>5, <2>1, <3>1, <3>2, NothingIs
  <2>3. CASE in /\ msg.name = before[2].name
    <3>1. Outcome = before
      BY <1>13, <2>3 DEF Outcome, Pushes, Pops
    <3>2. ClientLogout(Began, h).users = SetOwnStatus(Began, "NULL")
      BY <1>1, <1>3, <1>4, <2>3, NothingIs DEF ClientLogout
    <3> QED  BY <1>2, <1>6, <2>1, <3>1, <3>2, Zenon
  <2>4. CASE in /\ msg.name # before[2].name
    <3>1. Outcome = hatchPopUser(before, msg.name)
      BY <1>13, <2>4 DEF Outcome, Pushes, Pops
    <3>2. ClientLogout(Began, h) = Nothing(hatchPopUser(Began, msg.name))
      BY <1>1, <1>3, <1>4, <2>4, Zenon DEF ClientLogout
    <3> QED  BY <1>2, <2>1, <2>4, <3>1, <3>2, NothingIs, PopAlike
  <2> QED  BY <2>2, <2>3, <2>4
<1> QED  BY <1>9, <1>10, <1>11, <1>12, <1>13, Zenon DEF Kinds

\* A handler of the packet runner is one step of Protocol, for any names and any
\* interleaving of the three threads: the names it leaves are those its Protocol
\* handler gives for the list it began with, unless hatchClientLogin renamed the
\* client meanwhile.
THEOREM HandlersAreAtomic == Spec => []HandlerIsAtomic
<1>1. ASSUME Inv, pc[P] = "handled", before[2] = list[2]
      PROVE  /\ Len(list) = Len(Expected)
             /\ \A i \in DOMAIN list : list[i].name = Expected[i].name
  <2>1. Handling /\ call[P] = "done"
    BY <1>1, Zenon DEF Handling, Inv, Control, Stage
  <2>2. msg.type \in Kinds /\ msg.name \in Names
    BY <1>1, <2>1, Zenon DEF Inv, Control, Makes
  <2>3. list = Outcome
    BY <1>1, <2>1, Zenon DEF Inv, Undisturbed, Same, Changed
  <2>4. Alike(list, Expected)
    BY <1>1, <2>2, <2>3, ExpectedIs, Zenon DEF Inv, Types
  <2>5. DOMAIN list = 1..Len(list)
    BY <1>1 DEF Inv, Types, Shape
  <2> QED  BY <2>4, <2>5, Zenon DEF Alike
<1>2. Inv => HandlerIsAtomic
  BY <1>1 DEF HandlerIsAtomic
<1> QED  BY <1>2, SpecInv, PTL
=============================================================================
